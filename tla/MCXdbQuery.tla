------------------------------ MODULE MCXdbQuery ------------------------------
(* Small tables and their statements for XdbQuery. *)
EXTENDS XdbQuery, TLC

Op(is, fld, n, k) == [is |-> is, fld |-> fld, n |-> n, k |-> k]
F(f) == Op("field", f, 0, 0)
I(n) == Op("int", NoField, n, 0)
D(n) == Op("double", NoField, n, 0)
P(k) == Op("bind", NoField, 0, k)
Nil  == Op("null", NoField, 0, 0)

W(f, op, n)  == [f |-> f, op |-> op, n |-> n, k |-> 0]
WP(f, op, k) == [f |-> f, op |-> op, n |-> 0, k |-> k]
Asc(f)  == [f |-> f, desc |-> FALSE]
Desc(f) == [f |-> f, desc |-> TRUE]
One(o) == [op |-> "none", l |-> o, r |-> I(0)]
Exp(l, op, r) == [op |-> op, l |-> l, r |-> r]
Set(f, e) == [f |-> f] @@ e
Agg(fn, f) == [fn |-> fn, f |-> f]

Stmt(kind, where) == [kind |-> kind, where |-> where, order |-> <<>>, limit |-> <<>>,
                      set |-> <<>>, cols |-> <<>>, aggs |-> <<>>]
Select(where) == Stmt("select", where)
Update(set, where) == [Stmt("update", where) EXCEPT !.set = set]
Truncate == Stmt("delete", <<>>)
Lit(s) == [stmt |-> s, args |-> {<<>>}]
Bound(s, args) == [stmt |-> s, args |-> args]
Hash(f) == [kind |-> "hash", fields |-> f]
Tree(f) == [kind |-> "tree", fields |-> f]

\* Conditions, indexes, order and limits over two integer columns.
Searched ==
  LET Ordered(o, l) == [Select(<<<<W("b", ">=", 0)>>>>) EXCEPT !.order = o, !.limit = l]
      AB == <<W("a", "=", 1), W("b", "=", 1)>>
      byB == [Select(<<<<WP("b", "=", 1)>>, <<WP("a", "=", 2), W("b", "<", 1)>>>>) EXCEPT !.order = <<Asc("b")>>]
  IN [blocks |-> 3, writes |-> 1, column |-> [a |-> "TINYINT", b |-> "INT"],
      inserts |-> {[v |-> [a |-> x[1], b |-> x[2]], nul |-> {}] : x \in {<<-1, 1>>, <<1, 1>>, <<1, -1>>}},
      indexes |-> {Hash(<<"a", "b">>), Hash(<<"b">>), Tree(<<"a">>)},
      stmts |-> {Lit(Select(<<AB>>)), Lit(Select(<<AB, <<W("b", "=", -1)>>>>)),
                 Lit(Select(<<<<W("a", "=", 1), W("b", ">", 0)>>>>)),
                 Lit(Select(<<<<W("b", "=", 1), W("b", "<", 0)>>>>)),
                 Lit(Select(<<<<W("a", "=", -1)>>>>)),
                 Lit([Select(<<<<W("b", "=", 1)>>>>) EXCEPT !.limit = <<1>>]),
                 Lit([Select(<<<<W("a", "=", 1)>>, <<W("b", "=", 1)>>>>) EXCEPT !.limit = <<1>>]),
                 Lit(Ordered(<<Asc("a"), Desc("b")>>, <<1, ",", 1>>)),
                 Lit(Ordered(<<Desc("a")>>, <<2, "OFFSET", 1>>)), Lit(Ordered(<<>>, <<0>>)),
                 Lit([Select(<<>>) EXCEPT !.limit = <<1, ",", 3>>]),
                 Lit([Select(<<>>) EXCEPT !.aggs = <<Agg("MAX", "b"), Agg("MIN", "a")>>]),
                 Lit([Select(<<<<W("b", "=", 1)>>>>) EXCEPT !.aggs = <<Agg("MIN", "a"), Agg("COUNT", "a")>>]),
                 Lit([Select(<<>>) EXCEPT !.aggs = <<Agg("COUNT", "a")>>, !.limit = <<1>>]),
                 Lit(Update(<<Set("b", Exp(F("b"), "+", I(1)))>>, <<<<W("a", "=", 1)>>, <<W("b", "=", 1)>>>>)),
                 Lit([Update(<<Set("a", One(I(3)))>>, <<<<W("b", "<", 1)>>>>) EXCEPT !.limit = <<1>>]),
                 Lit(Stmt("delete", <<<<W("b", "!=", 1)>>>>))},
      prepares |-> {Bound(byB, {<<1, 1>>, <<-1, -1>>}),
                    Bound(Stmt("delete", <<<<WP("a", "=", 1), WP("b", "=", 2)>>>>), {<<1, 1>>, <<-1, 1>>})}]

\* SET lists, expression columns, NULL and the conversions between INT and DOUBLE.
Computed ==
  [blocks |-> 2, writes |-> 2, column |-> [b |-> "INT", d |-> "DOUBLE"],
   inserts |-> {[v |-> [b |-> 1, d |-> 2], nul |-> {}], [v |-> [b |-> 3, d |-> 1], nul |-> {}],
                [v |-> [b |-> 0, d |-> 1], nul |-> {"b"}]},
   indexes |-> {Hash(<<"b">>)},
   stmts |-> {Lit(Update(<<Set("b", Exp(F("b"), "+", F("d"))), Set("d", One(F("b")))>>, <<<<W("b", "=", 1)>>>>)),
              Lit(Update(<<Set("b", One(Nil)), Set("d", One(D(1)))>>, <<<<W("d", ">=", 2)>>>>)),
              Lit(Update(<<Set("d", One(I(2)))>>, <<>>)),
              Lit(Update(<<Set("b", One(D(3)))>>, <<<<W("b", "=", 0)>>>>)),
              Bound(Update(<<Set("b", Exp(F("b"), "*", P(1)))>>, <<<<WP("d", "<", 2)>>>>), {<<2, 2>>, <<-1, 3>>}),
              Lit([Select(<<>>) EXCEPT !.cols = <<One(F("b")), Exp(F("b"), "*", D(2)), Exp(F("b"), "/", F("d"))>>]),
              Lit([Select(<<<<W("b", "=", 3)>>>>) EXCEPT !.cols = <<Exp(F("d"), "-", I(1)), One(I(7))>>]),
              Lit([Select(<<>>) EXCEPT !.aggs = <<Agg("COUNT", "b"), Agg("MAX", "b"), Agg("MIN", "b")>>]),
              Lit([Select(<<<<W("d", "<", 3)>>>>) EXCEPT !.aggs = <<Agg("SUM", "d"), Agg("MIN", "b")>>]),
              Lit([Select(<<>>) EXCEPT !.aggs = <<Agg("AVG", "d"), Agg("MAX", "b")>>]),
              Lit(Truncate)},
   prepares |-> {Bound(Update(<<Set("d", Exp(F("d"), "+", P(1))), Set("b", One(P(2)))>>, <<<<WP("b", "=", 3)>>>>),
                       {<<1, 3, 1>>, <<-1, 1, 3>>}),
                 Bound(Update(<<Set("d", Exp(F("d"), "+", I(1)))>>, <<<<WP("b", "=", 1)>>>>), {<<1>>})}]

\* Unsigned columns and CHARs, whose searches by scan and by index differ.
Typed ==
  [blocks |-> 3, writes |-> 1, column |-> [u |-> "UINT", c |-> "CHAR"],
   inserts |-> {[v |-> [u |-> x[1], c |-> x[2]], nul |-> {}] : x \in {<<1, 2>>, <<7, 3>>, <<1, 4>>, <<7, 2>>}},
   indexes |-> {Hash(<<"u">>), Hash(<<"c">>), Tree(<<"u">>)},
   stmts |-> {Lit(Select(<<<<W("u", "=", 7)>>>>)), Bound(Select(<<<<WP("u", "=", 1)>>>>), {<<1>>, <<7>>}),
              Lit(Select(<<<<W("c", "=", 2)>>, <<W("c", "=", 4)>>>>)), Lit(Select(<<<<W("c", "!=", 4)>>>>)),
              Lit(Update(<<Set("u", Exp(F("u"), "+", I(1)))>>, <<<<W("c", "=", 4)>>>>)),
              Lit(Update(<<Set("u", One(I(9)))>>, <<<<W("c", "=", 3)>>>>))},
   prepares |-> {Bound(Select(<<<<WP("c", "=", 1)>>>>), {<<2>>, <<5>>})}]

MCLayouts == [searched |-> Searched, computed |-> Computed, typed |-> Typed]
=============================================================================
