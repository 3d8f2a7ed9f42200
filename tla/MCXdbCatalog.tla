----------------------------- MODULE MCXdbCatalog -----------------------------
(* XdbCatalog in four rooms: three tables of which some have a TTL; two tables *)
(* with an index, some in memory; one table with two indexes; and a database on  *)
(* disk beside one in memory.  Two of the names share a slot of a small table. *)
EXTENDS XdbCatalog

TablesOf == [d |-> {"a", "b", "c"}, m |-> {"a"}]
Room(tables, indexes, options) == [tables |-> tables, indexes |-> indexes, options |-> options]
RoomsOf == {[d |-> Room(3, 0, {"plain", "ttl"}), m |-> Room(0, 0, {})],
            [d |-> Room(2, 1, {"plain", "memory"}), m |-> Room(0, 0, {})],
            [d |-> Room(1, 2, {"plain"}), m |-> Room(0, 0, {})],
            [d |-> Room(1, 1, {"plain"}), m |-> Room(1, 0, {"plain"})]}
HashOf == [system |-> 0, d |-> 1, m |-> 2, a |-> 2, b |-> 0, c |-> 5, p |-> 0, i |-> 3]
===============================================================================
