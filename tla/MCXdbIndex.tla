------------------------------ MODULE MCXdbIndex ------------------------------
(***************************************************************************)
(* XdbIndex with small tables.  Keys 1 and 3 share a slot of a hash index  *)
(* until the slots are doubled, 1 and 2 never do.                          *)
(***************************************************************************)
EXTENDS XdbIndex

KeyHash == <<0, 1, 2, 3, 4, 5, 6, 7>>
Keys1(K) == {<<k>> : k \in K}
Alike(n, S) == [r \in 1 .. n |-> S]

Table(u, t, put, changes, crashes) ==
    [uniq |-> u, trees |-> t, first |-> {1}, ddl |-> {}, put |-> put,
     changes |-> changes, crashes |-> crashes]

\* One hash index: unique and three keys, or not unique and two of the keys, both
\* also with repairs
HashTables == {Table({1}, {}, Alike(4, Keys1({1, 2, 3})), 3, 0),
               Table({1}, {}, Alike(3, Keys1({1, 2, 3})), 3, 1),
               Table({}, {}, Alike(4, Keys1({1, 3})), 2, 0),
               Table({}, {}, Alike(4, Keys1({1, 3})), 1, 1)}

\* One tree: few keys, also with repairs or unique, and a table of larger trees, where each
\* row has its own key
TreeTables == {Table({}, {1}, Alike(4, Keys1({1, 2})), 2, 0),
               Table({}, {1}, Alike(3, Keys1({1, 2})), 2, 1),
               Table({1}, {1}, Alike(3, Keys1({1, 2})), 3, 1),
               Table({}, {1}, [r \in 1 .. 6 |-> {<<r>>}], 1, 0)}

\* A unique hash index, and a tree that is dropped and created
DdlTables == {[Table({1}, {2}, Alike(3, {<<1, 1>>, <<2, 1>>, <<3, 2>>}), 2, 0) EXCEPT !.ddl = {2}]}

PassTables == HashTables \union TreeTables \union DdlTables
PassRecords == Keys1(1 .. 6) \union {<<1, 1>>, <<2, 1>>, <<3, 2>>}

\* Two unique indexes
TwoIndexes == {<<k, l>> : k \in {1, 2}, l \in {1, 2}}
TwoIndexesTables ==
    {[Table({1, 2}, {}, Alike(3, TwoIndexes), 3, 1) EXCEPT !.first = {1, 2}]}
===============================================================================
