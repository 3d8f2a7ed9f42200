---------------------------- MODULE XdbPubSubProofs ----------------------------
(***************************************************************************)
(* Proofs about a source and its replica, for tables of any keys and       *)
(* values and any number of rows, any number of connections and changes.   *)
(***************************************************************************)
EXTENDS XdbPubSub, SequenceTheorems, TLAPS

-------------------------------------------------------------------------------
(* The inductive invariant.                                                 *)

Cells == Vals \union {None}
Stmts == [op : {"CREATE", "INSERT", "UPDATE", "DELETE"}, key : Keys \union {None},
          val : Cells, num : Nat]
Messages == Seq(Stmts) \ {<<>>}
Subs == [pConn : BOOLEAN, bSync : BOOLEAN, cud_cache : Seq(Stmts)]
Places == {"none", "accepted", "create", "select", "scan", "rows", "read", "closed"}

RowTypes == blk \in [Rows -> Blocks] /\ del \subseteq Rows
Types ==
    /\ RowTypes /\ rtbl \subseteq Contents
    /\ sub \in [Conns -> Subs]
    /\ thread \in [Conns -> Places]
    /\ left \in [Conns -> SUBSET Rows] /\ found \in [Conns -> SUBSET Rows]
    /\ res \in [Conns -> Seq(Keys \X Vals)]
    /\ chan \in [Conns -> Seq(Messages)]
    /\ n \in Nat /\ got \in Nat

\* The writer has one row with a key, and before it commits so has everybody else.
OneRow ==
    /\ \A o \in del : blk[o].ctrl = "commit"
    /\ \A q, r \in Rows \ del :
         blk[q].ctrl # "free" /\ blk[r].ctrl # "free" /\ blk[q].key = blk[r].key => q = r
    /\ trans # "commit" =>
         \A q, r \in Rows :
           blk[q].ctrl = "commit" /\ blk[r].ctrl = "commit" /\ blk[q].key = blk[r].key => q = r

\* A connection looks at rows in its SELECT only; without a subscriber it has
\* been sent nothing.
Fresh ==
    /\ \A c \in Conns : c \notin Subscribed => chan[c] = <<>> /\ ~sub[c].bSync
    /\ \A c \in Conns : thread[c] # "scan" => left[c] = {} /\ found[c] = {}
    /\ \A c \in Conns : thread[c] \notin {"scan", "rows"} => res[c] = <<>>

\* Message m has no changes, or all those after number a up to number b.
Part(m, a, b) ==
    \/ Len(m) = 1 /\ m[1].num = 0 /\ b = a
    \/ b = a + Len(m) /\ \A j \in DOMAIN m : m[j].num = a + j

\* The messages have the changes after number a up to number b: h says how far
\* each of them goes.  No number is passed over.
Numbered(a, ch, b) ==
    \E h \in [1..(Len(ch) + 1) -> Nat] :
        /\ h[1] = a /\ h[Len(ch) + 1] = b
        /\ \A i \in 1..Len(ch) : Part(ch[i], h[i], h[i + 1])
        /\ \A i, j \in 1..(Len(ch) + 1) : i <= j => h[i] <= h[j]
        /\ \A x \in Nat : a < x /\ x <= b => \E i \in 1..Len(ch) : h[i] < x /\ x <= h[i + 1]

\* What a statement makes of the replica's table T, as Apply
Applied(s, T) ==
    IF s.op = "CREATE" THEN IF T = {} THEN {[k \in Keys |-> None]} ELSE T
    ELSE {IF (s.op = "INSERT") = (t[s.key] = None)
          THEN [t EXCEPT ![s.key] = s.val] ELSE t : t \in T}

\* The messages, all of one statement, lead from table T to table U.
Leads(T, ch, U) ==
    \E f \in [1..(Len(ch) + 1) -> SUBSET Contents] :
        /\ f[1] = T /\ f[Len(ch) + 1] = U
        /\ \A i \in 1..Len(ch) : Len(ch[i]) = 1 /\ f[i + 1] = Applied(ch[i][1], f[i])

\* A change, and the contents of its row that it makes s.val of.
Change(s) ==
    /\ s.key \in Keys
    /\ \/ s.op \in {"INSERT", "UPDATE"} /\ s.val \in Vals
       \/ s.op = "DELETE" /\ s.val = None
Settles(s, v) ==
    \/ s.op = "INSERT" /\ v \in {None, s.val}
    \/ s.op = "UPDATE" /\ v # None
    \/ s.op = "DELETE"

\* Until the cache is flushed it has what was not committed when the subscriber
\* came.  With one change in it, all that a commit has still to do is of one
\* key: blocks b, with d in del, table t.
Fresher(b) == {q \in Rows : b[q].ctrl = "trans"}
Base(t, b, d, cache) ==
    /\ cache = <<>> => Fresher(b) = {} /\ d = {}
    /\ Len(cache) = 1 =>
          /\ Change(cache[1]) /\ t[cache[1].key] = cache[1].val
          /\ \A q \in Fresher(b) \union d : b[q].key = cache[1].key
          /\ cache[1].op = "INSERT" => d = {}
          /\ cache[1].op = "UPDATE" /\ Fresher(b) # {} => d # {}

\* What a row of the snapshot may have for key k, and whether there must be one:
\* it is that of table t, or one the change will settle.
Fits(t, cache, k, v) ==
    IF Len(cache) = 1 /\ k = cache[1].key THEN Settles(cache[1], v) ELSE v = t[k]
Needed(t, cache, k) ==
    IF Len(cache) = 1 /\ k = cache[1].key THEN cache[1].op = "UPDATE" ELSE t[k] # None

\* What was sent makes table g; of the rest R is copied, F found, and L to be
\* looked at.
Sent(t, b, cache, L, F, R, g) ==
    /\ \A k \in Keys : g[k] # None => Fits(t, cache, k, g[k])
    /\ \A i \in 1..Len(R) : Fits(t, cache, R[i][1], R[i][2])
    /\ \A r \in F : b[r].ctrl = "commit"
    /\ \A k \in Keys : Needed(t, cache, k) =>
          \/ g[k] # None
          \/ \E i \in 1..Len(R) : R[i][1] = k
          \/ \E r \in L \union F : b[r].ctrl = "commit" /\ b[r].key = k

Blank == [k \in Keys |-> None]

\* A working connection: its numbers ...
Linked(c) ==
    /\ thread[c] # "closed" /\ sub[c].pConn
    /\ sub[c].bSync <=> thread[c] = "read"
    /\ sub[c].bSync => sub[c].cud_cache = <<>>
    /\ Len(sub[c].cud_cache) <= n
    /\ Part(sub[c].cud_cache, n - Len(sub[c].cud_cache), n)
    /\ Numbered(got, chan[c], n - Len(sub[c].cud_cache))

\* ... and, of one that has always kept track, what it brings.
Faithful(c) ==
    /\ thread[c] = "create" => rtbl = {} /\ chan[c] = <<>>
    /\ thread[c] = "select" => Leads(rtbl, chan[c], {Blank})
    /\ thread[c] \in {"scan", "rows"} /\ Len(sub[c].cud_cache) <= 1 =>
          \E g \in Contents :
             /\ Leads(rtbl, chan[c], {g})
             /\ Sent(tbl, blk, sub[c].cud_cache, left[c], found[c], res[c], g)
    /\ thread[c] = "read" => Leads(rtbl, chan[c], {tbl})
    /\ thread[c] \in {"create", "select", "scan", "rows"} => Base(tbl, blk, del, sub[c].cud_cache)

ConnInv(c) == Live(c) /\ c \in Subscribed => Linked(c) /\ (clean => Faithful(c))

PubInv == Types /\ OneRow /\ Fresh /\ \A c \in Conns : ConnInv(c)

-------------------------------------------------------------------------------
(* Messages and their numbers.                                              *)

LEMMA NumberedNone == ASSUME NEW a \in Nat PROVE Numbered(a, <<>>, a)
<1> DEFINE h == [i \in 1..1 |-> a]
<1>1. Len(<<>>) = 0 /\ 1..0 = {}
  OBVIOUS
<1>2. h \in [1..(Len(<<>>) + 1) -> Nat] /\ h[1] = a /\ h[Len(<<>>) + 1] = a
  BY <1>1
<1>3. \A i \in 1..Len(<<>>) : Part(<<>>[i], h[i], h[i + 1])
  BY <1>1
<1>4. (\A i, j \in 1..(Len(<<>>) + 1) : i <= j => h[i] <= h[j]) /\ ~\E x \in Nat : a < x /\ x <= a
  BY <1>1
<1> QED
  BY <1>2, <1>3, <1>4 DEF Numbered

\* One more message.
LEMMA NumberedAppend ==
    ASSUME NEW S, NEW ch \in Seq(S), NEW a, NEW b, NEW d \in Nat, NEW m \in S,
           Numbered(a, ch, b), Part(m, b, d), b <= d
    PROVE  Numbered(a, Append(ch, m), d)
<1> DEFINE more == Append(ch, m)
<1>1. /\ Len(ch) \in Nat /\ Len(more) = Len(ch) + 1 /\ more[Len(ch) + 1] = m
      /\ \A i \in 1..Len(ch) : more[i] = ch[i]
  OBVIOUS
<1> HIDE DEF more
<1>2. PICK h \in [1..(Len(ch) + 1) -> Nat] :
        /\ h[1] = a /\ h[Len(ch) + 1] = b
        /\ \A i \in 1..Len(ch) : Part(ch[i], h[i], h[i + 1])
        /\ \A i, j \in 1..(Len(ch) + 1) : i <= j => h[i] <= h[j]
        /\ \A x \in Nat : a < x /\ x <= b => \E i \in 1..Len(ch) : h[i] < x /\ x <= h[i + 1]
  BY DEF Numbered
<1> DEFINE g == [i \in 1..(Len(ch) + 2) |-> IF i = Len(ch) + 2 THEN d ELSE h[i]]
<1>3. /\ g \in [1..(Len(more) + 1) -> Nat] /\ g[1] = a /\ g[Len(more) + 1] = d
      /\ \A i \in 1..(Len(ch) + 1) : g[i] = h[i]
      /\ g[Len(ch) + 1] = b /\ g[Len(ch) + 2] = d
  BY <1>1, <1>2
<1> HIDE DEF g
<1>4. ASSUME NEW i \in 1..Len(more) PROVE Part(more[i], g[i], g[i + 1])
  <2>1. CASE i = Len(ch) + 1
    <3>1. g[i + 1] = d /\ g[i] = b /\ more[i] = m
      BY <1>1, <1>3, <2>1
    <3> QED
      BY <3>1
  <2>2. CASE i \in 1..Len(ch)
    <3>1. g[i] = h[i] /\ g[i + 1] = h[i + 1] /\ more[i] = ch[i]
      BY <1>1, <1>3, <2>2
    <3> QED
      BY <1>2, <2>2, <3>1
  <2> QED
    BY <1>1, <2>1, <2>2
<1>5. ASSUME NEW i \in 1..(Len(more) + 1), NEW j \in 1..(Len(more) + 1), i <= j PROVE g[i] <= g[j]
  <2>1. CASE j \in 1..(Len(ch) + 1)
    BY <1>1, <1>2, <1>3, <1>5, <2>1
  <2>2. CASE j = Len(ch) + 2 /\ i = j
    BY <1>3, <2>2
  <2>3. CASE j = Len(ch) + 2 /\ i \in 1..(Len(ch) + 1)
    <3>1. h[i] <= b /\ h[i] \in Nat /\ b \in Nat
      BY <1>1, <1>2, <2>3
    <3> QED
      BY <1>3, <2>3, <3>1
  <2> QED
    BY <1>1, <1>5, <2>1, <2>2, <2>3
<1>6. ASSUME NEW x \in Nat, a < x, x <= d
      PROVE  \E i \in 1..Len(more) : g[i] < x /\ x <= g[i + 1]
  <2>0. b \in Nat
    BY <1>1, <1>2
  <2>1. CASE x <= b
    <3>1. PICK i \in 1..Len(ch) : h[i] < x /\ x <= h[i + 1]
      BY <1>2, <1>6, <2>1
    <3>2. g[i] = h[i] /\ g[i + 1] = h[i + 1] /\ i \in 1..Len(more)
      BY <1>1, <1>3
    <3> QED
      BY <3>1, <3>2
  <2>2. CASE b < x
    <3>1. g[Len(ch) + 1] < x /\ x <= g[Len(ch) + 1 + 1] /\ Len(ch) + 1 \in 1..Len(more)
      BY <1>1, <1>3, <1>6, <2>2
    <3> QED
      BY <3>1
  <2> QED
    BY <2>0, <2>1, <2>2
<1> QED
  BY <1>3, <1>4, <1>5, <1>6 DEF Numbered, more

\* One message less.
LEMMA NumberedTail ==
    ASSUME NEW S, NEW ch \in Seq(S), ch # <<>>, NEW a, NEW b, Numbered(a, ch, b)
    PROVE  \E d \in Nat : a \in Nat /\ a <= d /\ Part(Head(ch), a, d) /\ Numbered(d, Tail(ch), b)
<1> DEFINE rest == Tail(ch)
<1>1. /\ Len(ch) \in Nat \ {0} /\ Len(rest) = Len(ch) - 1 /\ Head(ch) = ch[1]
      /\ \A i \in 1..Len(rest) : rest[i] = ch[i + 1]
  BY EmptySeq
<1> HIDE DEF rest
<1>2. PICK h \in [1..(Len(ch) + 1) -> Nat] :
        /\ h[1] = a /\ h[Len(ch) + 1] = b
        /\ \A i \in 1..Len(ch) : Part(ch[i], h[i], h[i + 1])
        /\ \A i, j \in 1..(Len(ch) + 1) : i <= j => h[i] <= h[j]
        /\ \A x \in Nat : a < x /\ x <= b => \E i \in 1..Len(ch) : h[i] < x /\ x <= h[i + 1]
  BY DEF Numbered
<1> DEFINE g == [i \in 1..Len(ch) |-> h[i + 1]]
<1>3. /\ g \in [1..(Len(rest) + 1) -> Nat] /\ g[1] = h[2] /\ g[Len(rest) + 1] = b
      /\ \A i \in 1..Len(ch) : g[i] = h[i + 1]
  BY <1>1, <1>2
<1> HIDE DEF g
<1>4. ASSUME NEW i \in 1..Len(rest) PROVE Part(rest[i], g[i], g[i + 1])
  <2>1. g[i] = h[i + 1] /\ g[i + 1] = h[i + 1 + 1] /\ rest[i] = ch[i + 1] /\ i + 1 \in 1..Len(ch)
    BY <1>1, <1>3
  <2> QED
    BY <1>2, <2>1
<1>5. ASSUME NEW i \in 1..(Len(rest) + 1), NEW j \in 1..(Len(rest) + 1), i <= j PROVE g[i] <= g[j]
  <2>1. g[i] = h[i + 1] /\ g[j] = h[j + 1] /\ i + 1 \in 1..(Len(ch) + 1) /\ j + 1 \in 1..(Len(ch) + 1)
    BY <1>1, <1>3
  <2> QED
    BY <1>2, <1>5, <2>1
<1>8. ASSUME NEW x \in Nat, h[2] < x, x <= b
      PROVE  \E i \in 1..Len(rest) : g[i] < x /\ x <= g[i + 1]
  <2>1. h[1] <= h[2] /\ h[1] \in Nat /\ h[2] \in Nat
    BY <1>1, <1>2
  <2>2. PICK i \in 1..Len(ch) : h[i] < x /\ x <= h[i + 1]
    BY <1>2, <1>8, <2>1
  <2>3. i # 1
    BY <1>8, <2>1, <2>2
  <2>4. /\ i - 1 \in 1..Len(rest) /\ g[i - 1] = h[i] /\ g[i - 1 + 1] = h[i + 1]
    <3>1. i - 1 \in 1..Len(ch) /\ i - 1 + 1 = i /\ i \in 1..Len(ch)
      BY <2>3
    <3> QED
      BY <1>1, <1>3, <3>1
  <2> QED
    BY <2>2, <2>4
<1>6. Numbered(h[2], rest, b)
  BY <1>3, <1>4, <1>5, <1>8 DEF Numbered
<1>7. a \in Nat /\ h[2] \in Nat /\ a <= h[2] /\ Part(ch[1], a, h[2])
  <2>1. 1 \in 1..(Len(ch) + 1) /\ 2 \in 1..(Len(ch) + 1) /\ 1 \in 1..Len(ch) /\ 1 + 1 = 2
    BY <1>1
  <2> QED
    BY <1>2, <2>1
<1> QED
  BY <1>1, <1>6, <1>7 DEF rest

LEMMA NumberInside ==
    ASSUME NEW a \in Nat, NEW b \in Nat, NEW x \in Nat, NEW j \in Nat, NEW l \in Nat,
           a <= x, 1 <= j, j <= l, x + l <= b
    PROVE  x + j \in (a + 1)..b
OBVIOUS

LEMMA NumberBefore ==
    ASSUME NEW x \in Nat, NEW y \in Nat, NEW i \in Nat, NEW j \in Nat, NEW l \in Nat,
           i <= l, x + l <= y, 1 <= j
    PROVE  x + i < y + j
OBVIOUS

\* Numbered messages have each number once, and in order.
LEMMA NumbersOnce ==
    ASSUME NEW c \in Conns, NEW a \in Nat, NEW b \in Nat, Stream(c) \in Seq(Seq(Stmts)),
           Numbered(a, Stream(c), b)
    PROVE  /\ {NumAt(c, p) : p \in Changes(c)} = (a + 1)..b
           /\ \A p, q \in Changes(c) : Before(p, q) => NumAt(c, p) < NumAt(c, q)
<1> DEFINE st == Stream(c)
<1>1. /\ Len(st) \in Nat /\ DOMAIN st = 1..Len(st)
      /\ \A i \in 1..Len(st) : st[i] \in Seq(Stmts) /\ DOMAIN st[i] = 1..Len(st[i]) /\ Len(st[i]) \in Nat
  OBVIOUS
<1>2. \A p : p \in Changes(c) <=>
          \E i \in 1..Len(st) : \E j \in 1..Len(st[i]) : p = <<i, j>> /\ st[i][j].num # 0
  BY <1>1 DEF Changes, NumAt
<1>3. \A i, j : NumAt(c, <<i, j>>) = st[i][j].num
  BY DEF NumAt
<1> HIDE DEF st
<1>4. PICK h \in [1..(Len(st) + 1) -> Nat] :
        /\ h[1] = a /\ h[Len(st) + 1] = b
        /\ \A i \in 1..Len(st) : Part(st[i], h[i], h[i + 1])
        /\ \A i, j \in 1..(Len(st) + 1) : i <= j => h[i] <= h[j]
        /\ \A x \in Nat : a < x /\ x <= b => \E i \in 1..Len(st) : h[i] < x /\ x <= h[i + 1]
  BY DEF Numbered, st
<1>5. ASSUME NEW i \in 1..Len(st), NEW j \in 1..Len(st[i]), st[i][j].num # 0
      PROVE  /\ st[i][j].num = h[i] + j /\ h[i + 1] = h[i] + Len(st[i])
             /\ h[i] \in Nat /\ h[i + 1] \in Nat /\ a <= h[i] /\ h[i + 1] <= b
  <2>1. i \in 1..(Len(st) + 1) /\ i + 1 \in 1..(Len(st) + 1) /\ 1 \in 1..(Len(st) + 1) /\ Len(st) + 1 \in 1..(Len(st) + 1)
    BY <1>1
  <2>2. Part(st[i], h[i], h[i + 1])
    BY <1>4
  <2>3. ~(Len(st[i]) = 1 /\ st[i][1].num = 0)
    BY <1>1, <1>5
  <2>4. h[i + 1] = h[i] + Len(st[i]) /\ st[i][j].num = h[i] + j
    BY <1>1, <2>2, <2>3 DEF Part
  <2>5. a <= h[i] /\ h[i + 1] <= b
    <3>1. h[1] <= h[i] /\ h[i + 1] <= h[Len(st) + 1]
      <4>1. 1 <= i /\ i + 1 <= Len(st) + 1
        BY <1>1
      <4>2. \A k, l \in 1..(Len(st) + 1) : k <= l => h[k] <= h[l]
        BY <1>4
      <4> QED
        BY <2>1, <4>1, <4>2
    <3>2. h[1] = a /\ h[Len(st) + 1] = b
      BY <1>4
    <3> QED
      BY <3>1, <3>2
  <2> QED
    BY <1>4, <2>1, <2>4, <2>5
<1>6. ASSUME NEW p \in Changes(c) PROVE NumAt(c, p) \in (a + 1)..b
  <2>1. PICK i \in 1..Len(st) : \E j \in 1..Len(st[i]) : p = <<i, j>> /\ st[i][j].num # 0
    BY <1>2
  <2>2. PICK j \in 1..Len(st[i]) : p = <<i, j>> /\ st[i][j].num # 0
    BY <2>1
  <2>3. j \in Nat /\ 1 <= j /\ j <= Len(st[i]) /\ Len(st[i]) \in Nat
    BY <1>1
  <2> QED
    <3>1. /\ NumAt(c, p) = h[i] + j /\ h[i + 1] = h[i] + Len(st[i])
          /\ h[i] \in Nat /\ h[i + 1] \in Nat /\ a <= h[i] /\ h[i + 1] <= b
      <4>1. /\ st[i][j].num = h[i] + j /\ h[i + 1] = h[i] + Len(st[i])
            /\ h[i] \in Nat /\ h[i + 1] \in Nat /\ a <= h[i] /\ h[i + 1] <= b
        BY <1>5, <2>2
      <4> QED
        BY <1>3, <2>2, <4>1
    <3>2. h[i] + Len(st[i]) <= b
      BY <3>1
    <3>3. h[i] + j \in (a + 1)..b
      BY <2>3, <3>1, <3>2, NumberInside
    <3> QED
      BY <3>1, <3>3
<1>7. ASSUME NEW x \in (a + 1)..b PROVE \E p \in Changes(c) : NumAt(c, p) = x
  <2>1. PICK i \in 1..Len(st) : h[i] < x /\ x <= h[i + 1]
    <3>1. x \in Nat /\ a < x /\ x <= b
      OBVIOUS
    <3> QED
      BY <1>4, <3>1, Zenon
  <2>0. i \in 1..(Len(st) + 1) /\ i + 1 \in 1..(Len(st) + 1)
    BY <1>1
  <2>2. Part(st[i], h[i], h[i + 1]) /\ h[i] \in Nat /\ h[i + 1] \in Nat /\ x \in Nat
    <3>1. Part(st[i], h[i], h[i + 1])
      BY <1>4, Zenon
    <3>2. h[i] \in Nat /\ h[i + 1] \in Nat
      BY <2>0
    <3> QED
      BY <3>1, <3>2
  <2>3. h[i + 1] # h[i]
    BY <2>1, <2>2
  <2>4. h[i + 1] = h[i] + Len(st[i]) /\ \A j \in DOMAIN st[i] : st[i][j].num = h[i] + j
    BY <2>2, <2>3 DEF Part
  <2>5. x - h[i] \in 1..Len(st[i])
    BY <1>1, <2>1, <2>2, <2>4
  <2>6. st[i][x - h[i]].num = x /\ x # 0
    <3>1. st[i][x - h[i]].num = h[i] + (x - h[i])
      BY <1>1, <2>4, <2>5
    <3> QED
      BY <2>1, <2>2, <3>1
  <2>7. <<i, x - h[i]>> \in Changes(c)
    BY <1>2, <2>5, <2>6
  <2> QED
    BY <1>3, <2>6, <2>7
<1>8. ASSUME NEW p \in Changes(c), NEW q \in Changes(c), Before(p, q)
      PROVE  NumAt(c, p) < NumAt(c, q)
  <2>1. PICK i \in 1..Len(st) : \E j \in 1..Len(st[i]) : p = <<i, j>> /\ st[i][j].num # 0
    BY <1>2
  <2>2. PICK j \in 1..Len(st[i]) : p = <<i, j>> /\ st[i][j].num # 0
    BY <2>1
  <2>3. PICK k \in 1..Len(st) : \E l \in 1..Len(st[k]) : q = <<k, l>> /\ st[k][l].num # 0
    BY <1>2
  <2>4. PICK l \in 1..Len(st[k]) : q = <<k, l>> /\ st[k][l].num # 0
    BY <2>3
  <2>5. i < k \/ (i = k /\ j < l)
    BY <1>8, <2>2, <2>4 DEF Before
  <2>6. /\ st[i][j].num = h[i] + j /\ st[k][l].num = h[k] + l
        /\ h[i] + Len(st[i]) = h[i + 1] /\ h[i] \in Nat /\ h[k] \in Nat /\ h[i + 1] \in Nat
    BY <1>5, <2>2, <2>4
  <2>7. j \in Nat /\ j <= Len(st[i]) /\ l \in Nat /\ 1 <= l
    BY <1>1
  <2>10. NumAt(c, p) = h[i] + j /\ NumAt(c, q) = h[k] + l
    BY <1>3, <2>2, <2>4, <2>6
  <2>8. CASE i < k
    <3>1. i + 1 \in 1..(Len(st) + 1) /\ k \in 1..(Len(st) + 1) /\ i + 1 <= k
      BY <1>1, <2>8
    <3>2. h[i + 1] <= h[k]
      BY <1>4, <3>1
    <3>3. Len(st[i]) \in Nat
      BY <1>1
    <3>4. h[i] + j < h[k] + l
      <4>1. h[i] + Len(st[i]) <= h[k]
        BY <2>6, <3>2
      <4> QED
        BY <2>6, <2>7, <3>3, <4>1, NumberBefore
    <3> QED
      BY <2>10, <3>4
  <2>9. CASE i = k /\ j < l
    BY <2>10, <2>6, <2>7, <2>9
  <2> QED
    BY <2>5, <2>8, <2>9
<1> QED
  BY <1>6, <1>7, <1>8

-------------------------------------------------------------------------------
(* Messages and what they bring.                                            *)

LEMMA ApplyIs == \A s : Apply(s) = Applied(s, rtbl)
BY DEF Apply, Applied

\* Applied to one table.
LEMMA AppliedOne ==
    ASSUME NEW s, s.op # "CREATE", NEW t
    PROVE  Applied(s, {t}) = {IF (s.op = "INSERT") = (t[s.key] = None)
                              THEN [t EXCEPT ![s.key] = s.val] ELSE t}
BY DEF Applied

LEMMA LeadsNone == ASSUME NEW T \in SUBSET Contents PROVE Leads(T, <<>>, T)
<1> DEFINE f == [i \in 1..1 |-> T]
<1>1. Len(<<>>) = 0 /\ 1..0 = {}
  OBVIOUS
<1>2. f \in [1..(Len(<<>>) + 1) -> SUBSET Contents] /\ f[1] = T /\ f[Len(<<>>) + 1] = T
  BY <1>1
<1>3. \A i \in 1..Len(<<>>) : Len(<<>>[i]) = 1 /\ f[i + 1] = Applied(<<>>[i][1], f[i])
  BY <1>1
<1> QED
  BY <1>2, <1>3 DEF Leads

LEMMA LeadsNowhere == ASSUME NEW T, NEW U, Leads(T, <<>>, U) PROVE T = U
<1>1. Len(<<>>) + 1 = 1
  OBVIOUS
<1> QED
  BY <1>1 DEF Leads

LEMMA LeadsAppend ==
    ASSUME NEW S, NEW ch \in Seq(S), NEW T, NEW U, NEW W \in SUBSET Contents, NEW m \in S,
           Leads(T, ch, U), Len(m) = 1, W = Applied(m[1], U)
    PROVE  Leads(T, Append(ch, m), W)
<1> DEFINE more == Append(ch, m)
<1>1. /\ Len(ch) \in Nat /\ Len(more) = Len(ch) + 1 /\ more[Len(ch) + 1] = m
      /\ \A i \in 1..Len(ch) : more[i] = ch[i]
  OBVIOUS
<1> HIDE DEF more
<1>2. PICK f \in [1..(Len(ch) + 1) -> SUBSET Contents] :
        /\ f[1] = T /\ f[Len(ch) + 1] = U
        /\ \A i \in 1..Len(ch) : Len(ch[i]) = 1 /\ f[i + 1] = Applied(ch[i][1], f[i])
  BY DEF Leads
<1> DEFINE g == [i \in 1..(Len(ch) + 2) |-> IF i = Len(ch) + 2 THEN W ELSE f[i]]
<1>3. /\ g \in [1..(Len(more) + 1) -> SUBSET Contents] /\ g[1] = T /\ g[Len(more) + 1] = W
      /\ \A i \in 1..(Len(ch) + 1) : g[i] = f[i]
      /\ g[Len(ch) + 1] = U /\ g[Len(ch) + 2] = W
  BY <1>1, <1>2
<1> HIDE DEF g
<1>4. ASSUME NEW i \in 1..Len(more)
      PROVE  Len(more[i]) = 1 /\ g[i + 1] = Applied(more[i][1], g[i])
  <2>1. CASE i = Len(ch) + 1
    <3>1. g[i + 1] = W /\ g[i] = U /\ more[i] = m
      BY <1>1, <1>3, <2>1
    <3> QED
      BY <3>1
  <2>2. CASE i \in 1..Len(ch)
    <3>1. g[i] = f[i] /\ g[i + 1] = f[i + 1] /\ more[i] = ch[i]
      BY <1>1, <1>3, <2>2
    <3> QED
      BY <1>2, <2>2, <3>1
  <2> QED
    BY <1>1, <2>1, <2>2
<1> QED
  BY <1>3, <1>4 DEF Leads, more

LEMMA LeadsTail ==
    ASSUME NEW S, NEW ch \in Seq(S), ch # <<>>, NEW T, NEW U, Leads(T, ch, U)
    PROVE  Len(Head(ch)) = 1 /\ Leads(Applied(Head(ch)[1], T), Tail(ch), U)
<1> DEFINE rest == Tail(ch)
<1>1. /\ Len(ch) \in Nat \ {0} /\ Len(rest) = Len(ch) - 1 /\ Head(ch) = ch[1]
      /\ \A i \in 1..Len(rest) : rest[i] = ch[i + 1]
  BY EmptySeq
<1> HIDE DEF rest
<1>2. PICK f \in [1..(Len(ch) + 1) -> SUBSET Contents] :
        /\ f[1] = T /\ f[Len(ch) + 1] = U
        /\ \A i \in 1..Len(ch) : Len(ch[i]) = 1 /\ f[i + 1] = Applied(ch[i][1], f[i])
  BY DEF Leads
<1> DEFINE g == [i \in 1..Len(ch) |-> f[i + 1]]
<1>3. /\ g \in [1..(Len(rest) + 1) -> SUBSET Contents] /\ g[1] = f[2] /\ g[Len(rest) + 1] = U
      /\ \A i \in 1..Len(ch) : g[i] = f[i + 1]
  BY <1>1, <1>2
<1> HIDE DEF g
<1>4. ASSUME NEW i \in 1..Len(rest)
      PROVE  Len(rest[i]) = 1 /\ g[i + 1] = Applied(rest[i][1], g[i])
  <2>1. g[i] = f[i + 1] /\ g[i + 1] = f[i + 1 + 1] /\ rest[i] = ch[i + 1] /\ i + 1 \in 1..Len(ch)
    BY <1>1, <1>3
  <2> QED
    BY <1>2, <2>1
<1>5. Leads(f[2], rest, U)
  BY <1>3, <1>4 DEF Leads
<1>6. Len(ch[1]) = 1 /\ f[2] = Applied(ch[1][1], T)
  <2>1. 1 \in 1..Len(ch) /\ 1 + 1 = 2
    BY <1>1
  <2> QED
    BY <1>2, <2>1
<1> QED
  BY <1>1, <1>5, <1>6 DEF rest

-------------------------------------------------------------------------------
(* The invariant of a connection, after a step.                             *)

LEMMA ShortSeq ==
    ASSUME NEW S, NEW q \in Seq(S), Len(q) <= 1, Len(q) # 1
    PROVE  q = <<>>
<1> DEFINE l == Len(q)
<1>1. l \in Nat /\ l <= 1 /\ l # 1
  OBVIOUS
<1> HIDE DEF l
<1>2. l = 0
  BY <1>1
<1> QED
  BY <1>2, EmptySeq DEF l

LEMMA LinkedNext ==
    ASSUME NEW c \in Conns
    PROVE  Linked(c)' <=>
               /\ thread'[c] # "closed" /\ sub'[c].pConn
               /\ sub'[c].bSync <=> thread'[c] = "read"
               /\ sub'[c].bSync => sub'[c].cud_cache = <<>>
               /\ Len(sub'[c].cud_cache) <= n'
               /\ Part(sub'[c].cud_cache, n' - Len(sub'[c].cud_cache), n')
               /\ Numbered(got', chan'[c], n' - Len(sub'[c].cud_cache))
BY DEF Linked

LEMMA FaithfulNext ==
    ASSUME NEW c \in Conns
    PROVE  Faithful(c)' <=>
               /\ thread'[c] = "create" => rtbl' = {} /\ chan'[c] = <<>>
               /\ thread'[c] = "select" => Leads(rtbl', chan'[c], {Blank})
               /\ thread'[c] \in {"scan", "rows"} /\ Len(sub'[c].cud_cache) <= 1 =>
                     \E g \in Contents :
                        /\ Leads(rtbl', chan'[c], {g})
                        /\ Sent(tbl', blk', sub'[c].cud_cache, left'[c], found'[c], res'[c], g)
               /\ thread'[c] = "read" => Leads(rtbl', chan'[c], {tbl'})
               /\ thread'[c] \in {"create", "select", "scan", "rows"} =>
                     Base(tbl', blk', del', sub'[c].cud_cache)
BY DEF Faithful

\* A step that has nothing to do with the connection.
Kept(c) == UNCHANGED <<thread[c], sub[c], chan[c], left[c], found[c], res[c]>>

LEMMA LinkedKeeps ==
    ASSUME NEW c \in Conns, Linked(c), UNCHANGED <<thread[c], sub[c], chan[c], n, got>>
    PROVE  Linked(c)'
BY LinkedNext DEF Linked

LEMMA FaithfulKeeps ==
    ASSUME NEW c \in Conns, Faithful(c), Kept(c), UNCHANGED <<rtbl, tbl, blk, del>>
    PROVE  Faithful(c)'
BY FaithfulNext DEF Faithful, Kept

\* What a message does to a working connection.
LEMMA ChanTypes ==
    ASSUME Types, NEW c \in Conns
    PROVE  /\ sub[c] \in Subs /\ chan[c] \in Seq(Messages) /\ thread[c] \in Places
           /\ left[c] \in SUBSET Rows /\ found[c] \in SUBSET Rows /\ res[c] \in Seq(Keys \X Vals)
           /\ sub[c].cud_cache \in Seq(Stmts) /\ sub[c].pConn \in BOOLEAN /\ sub[c].bSync \in BOOLEAN
           /\ Len(sub[c].cud_cache) \in Nat
BY DEF Types, Subs

-------------------------------------------------------------------------------
(* Rows and the table they are.                                             *)

LEMMA BlockIs ==
    /\ \A b \in Blocks : \/ b = Free
                         \/ b.ctrl \in {"commit", "trans"} /\ b.key \in Keys /\ b.val \in Vals
    /\ Free.ctrl = "free" /\ Free \in Blocks
    /\ \A c \in {"commit", "trans"}, k \in Keys, v \in Vals :
         /\ Row(c, k, v) \in Blocks /\ Row(c, k, v).ctrl = c
         /\ Row(c, k, v).key = k /\ Row(c, k, v).val = v
<1>1. \A c, k, v : Row(c, k, v).ctrl = c /\ Row(c, k, v).key = k /\ Row(c, k, v).val = v
  BY DEF Row
<1>2. \A c \in {"commit", "trans"}, k \in Keys, v \in Vals : Row(c, k, v) \in Blocks
  BY DEF Blocks
<1>3. Free \in Blocks /\ Free.ctrl = "free"
  BY <1>1 DEF Blocks, Free
<1>4. ASSUME NEW b \in Blocks, b # Free
      PROVE  b.ctrl \in {"commit", "trans"} /\ b.key \in Keys /\ b.val \in Vals
  BY <1>1, <1>4 DEF Blocks
<1> QED
  BY <1>1, <1>2, <1>3, <1>4

TableOf ==
    /\ tbl \in Contents
    /\ \A q \in Rows \ del :
         blk[q].ctrl # "free" => blk[q].key \in Keys /\ tbl[blk[q].key] = blk[q].val
    /\ \A k \in Keys : tbl[k] # None =>
         \E q \in Rows \ del : blk[q].ctrl # "free" /\ blk[q].key = k

LEMMA Tables == RowTypes /\ OneRow => TableOf
<1> SUFFICES ASSUME RowTypes, OneRow PROVE TableOf
  OBVIOUS
<1>0. blk \in [Rows -> Blocks] /\ del \subseteq Rows
  BY DEF RowTypes
<1>1. \A k \in Keys, q \in Rows : q \in Current(k) <=>
          q \notin del /\ blk[q].ctrl # "free" /\ blk[q].key = k
  BY DEF Current
<1>2. ASSUME NEW k \in Keys, NEW q \in Current(k)
      PROVE  blk[CHOOSE p \in Current(k) : TRUE] = blk[q] /\ blk[q].val \in Vals
  <2>1. PICK p : p = CHOOSE r \in Current(k) : TRUE
    OBVIOUS
  <2>2. p \in Current(k)
    BY <1>2, <2>1
  <2>3. p = q
    <3>1. p \in Rows \ del /\ q \in Rows \ del
      BY <2>2 DEF Current
    <3> QED
      BY <1>1, <2>2, <3>1 DEF OneRow
  <2>4. q \in Rows /\ blk[q] \in Blocks /\ blk[q].ctrl # "free"
    BY <1>0 DEF Current
  <2> QED
    BY <2>1, <2>3, <2>4, BlockIs
<1>3. \A k \in Keys : /\ Current(k) = {} => tbl[k] = None
                      /\ \A q \in Current(k) : tbl[k] = blk[q].val /\ tbl[k] \in Vals
  BY <1>2 DEF tbl
<1>4. tbl \in Contents
  <2>1. \A k \in Keys : tbl[k] \in Vals \union {None}
    BY <1>3
  <2>2. tbl = [k \in Keys |-> tbl[k]]
    BY DEF tbl
  <2> QED
    BY <2>1, <2>2 DEF Contents
<1>5. ASSUME NEW q \in Rows \ del, blk[q].ctrl # "free"
      PROVE  blk[q].key \in Keys /\ tbl[blk[q].key] = blk[q].val
  <2>1. blk[q].key \in Keys
    BY <1>0, <1>5, BlockIs
  <2> QED
    BY <1>1, <1>3, <1>5, <2>1
<1>6. ASSUME NEW k \in Keys, tbl[k] # None
      PROVE  \E q \in Rows \ del : blk[q].ctrl # "free" /\ blk[q].key = k
  <2>1. PICK q \in Current(k) : TRUE
    BY <1>3, <1>6
  <2> QED
    BY <2>1 DEF Current
<1> QED
  BY <1>4, <1>5, <1>6 DEF TableOf

LEMMA TablesNext == RowTypes' /\ OneRow' => TableOf'
BY Tables, PTL

\* The table of another state, told by its rows.
LEMMA TableFrom ==
    ASSUME TableOf', NEW t \in Contents,
           \A q \in Rows \ del' : blk'[q].ctrl # "free" => t[blk'[q].key] = blk'[q].val,
           \A k \in Keys : t[k] # None =>
              \E q \in Rows \ del' : blk'[q].ctrl # "free" /\ blk'[q].key = k
    PROVE  tbl' = t
<1>1. /\ tbl' \in Contents
      /\ \A q \in Rows \ del' :
           blk'[q].ctrl # "free" => blk'[q].key \in Keys /\ tbl'[blk'[q].key] = blk'[q].val
      /\ \A k \in Keys : tbl'[k] # None =>
           \E q \in Rows \ del' : blk'[q].ctrl # "free" /\ blk'[q].key = k
  BY DEF TableOf
<1>2. ASSUME NEW k \in Keys PROVE tbl'[k] = t[k]
  <2>1. CASE \E q \in Rows \ del' : blk'[q].ctrl # "free" /\ blk'[q].key = k
    BY <1>1, <2>1
  <2>2. CASE ~\E q \in Rows \ del' : blk'[q].ctrl # "free" /\ blk'[q].key = k
    BY <1>1, <2>2
  <2> QED
    BY <2>1, <2>2
<1> QED
  BY <1>1, <1>2 DEF Contents

\* A step that leaves the rows alone leaves the table.
LEMMA SameTable ==
    ASSUME UNCHANGED <<blk, del>>
    PROVE  tbl' = tbl
BY DEF tbl, Current

\* Base in terms of the rows: committed ones fit, and those that must be are there.
LEMMA BaseShows ==
    ASSUME RowTypes, OneRow, NEW cache \in Seq(Stmts), Len(cache) <= 1, Base(tbl, blk, del, cache)
    PROVE  /\ \A r \in Rows : blk[r].ctrl = "commit" =>
                 /\ blk[r].key \in Keys /\ blk[r].val \in Vals
                 /\ Fits(tbl, cache, blk[r].key, blk[r].val)
           /\ \A k \in Keys : Needed(tbl, cache, k) =>
                 \E r \in Rows : blk[r].ctrl = "commit" /\ blk[r].key = k
<1>0. /\ blk \in [Rows -> Blocks] /\ del \subseteq Rows /\ TableOf
      /\ \A o \in del : blk[o].ctrl = "commit"
  BY Tables DEF RowTypes, OneRow
<1>1. /\ \A q \in Rows \ del : blk[q].ctrl # "free" => tbl[blk[q].key] = blk[q].val
      /\ \A k \in Keys : tbl[k] # None =>
           \E q \in Rows \ del : blk[q].ctrl # "free" /\ blk[q].key = k
  BY <1>0 DEF TableOf
<1>2. \A r \in Rows : blk[r].ctrl # "free" =>
         /\ blk[r].key \in Keys /\ blk[r].val \in Vals /\ blk[r].val # None
         /\ blk[r].ctrl = "commit" \/ r \in Fresher(blk)
  BY <1>0, BlockIs, PubSubAssumption DEF Fresher
<1>3. CASE Len(cache) # 1
  <2>1. Fresher(blk) = {} /\ del = {}
    BY <1>3, ShortSeq DEF Base
  <2> QED
    BY <1>1, <1>2, <1>3, <2>1 DEF Fits, Needed
<1>4. CASE Len(cache) = 1
  <2> PICK s : s = cache[1]
    OBVIOUS
  <2>1. /\ Change(s) /\ tbl[s.key] = s.val
        /\ \A q \in Fresher(blk) \union del : blk[q].key = s.key
        /\ s.op = "INSERT" => del = {}
        /\ s.op = "UPDATE" /\ Fresher(blk) # {} => del # {}
    BY <1>4 DEF Base
  <2>2. ASSUME NEW r \in Rows, blk[r].ctrl = "commit" PROVE Fits(tbl, cache, blk[r].key, blk[r].val)
    <3>1. CASE blk[r].key # s.key
      BY <1>1, <2>1, <2>2, <3>1 DEF Fits
    <3>2. CASE blk[r].key = s.key
      <4>1. s.op = "INSERT" => blk[r].val = s.val
        BY <1>1, <2>1, <2>2, <3>2
      <4>2. Settles(s, blk[r].val)
        BY <1>2, <2>1, <2>2, <4>1 DEF Settles, Change
      <4> QED
        BY <1>4, <3>2, <4>2 DEF Fits
    <3> QED
      BY <3>1, <3>2
  <2>3. ASSUME NEW k \in Keys, Needed(tbl, cache, k)
        PROVE  \E r \in Rows : blk[r].ctrl = "commit" /\ blk[r].key = k
    <3>1. tbl[k] # None
      <4>1. CASE k = s.key
        <5>1. s.op = "UPDATE"
          BY <1>4, <2>3, <4>1 DEF Needed
        <5> QED
          BY <2>1, <4>1, <5>1, PubSubAssumption DEF Change
      <4>2. CASE k # s.key
        BY <1>4, <2>3, <4>2 DEF Needed
      <4> QED
        BY <4>1, <4>2
    <3>2. PICK q \in Rows \ del : blk[q].ctrl # "free" /\ blk[q].key = k
      BY <1>1, <3>1
    <3>3. CASE q \in Fresher(blk)
      <4>1. k = s.key /\ s.op = "UPDATE"
        BY <1>4, <2>1, <2>3, <3>2, <3>3 DEF Needed
      <4>2. PICK o \in del : TRUE
        BY <2>1, <3>3, <4>1
      <4> QED
        BY <1>0, <2>1, <4>1, <4>2
    <3> QED
      BY <1>2, <3>2, <3>3
  <2> QED
    BY <1>2, <2>2, <2>3
<1> QED
  BY <1>3, <1>4

-------------------------------------------------------------------------------
(* Types.                                                                   *)

LEMMA SqlType ==
    ASSUME NEW op \in {"CREATE", "INSERT", "UPDATE", "DELETE"}, NEW k \in Keys \union {None},
           NEW v \in Cells, NEW i \in Nat
    PROVE  /\ Sql(op, k, v, i) \in Stmts /\ <<Sql(op, k, v, i)>> \in Messages
           /\ Sql(op, k, v, i).op = op /\ Sql(op, k, v, i).key = k
           /\ Sql(op, k, v, i).val = v /\ Sql(op, k, v, i).num = i
BY DEF Sql, Stmts, Messages

LEMMA ChanWritten ==
    ASSUME Types, NEW c \in Conns, NEW m \in Messages
    PROVE  ChanAfterWrite(c, m) \in Seq(Messages)
BY ChanTypes DEF ChanAfterWrite

\* A subscriber with another flag or cache.
LEMMA SubTypes ==
    ASSUME Types, NEW c \in Conns, NEW p \in BOOLEAN, NEW q \in Seq(Stmts)
    PROVE  /\ [sub[c] EXCEPT !.pConn = p] \in Subs /\ [sub[c] EXCEPT !.cud_cache = q] \in Subs
           /\ [sub[c] EXCEPT !.pConn = p].pConn = p
           /\ [sub[c] EXCEPT !.pConn = p].bSync = sub[c].bSync
           /\ [sub[c] EXCEPT !.pConn = p].cud_cache = sub[c].cud_cache
           /\ [sub[c] EXCEPT !.cud_cache = q].pConn = sub[c].pConn
           /\ [sub[c] EXCEPT !.cud_cache = q].bSync = sub[c].bSync
           /\ [sub[c] EXCEPT !.cud_cache = q].cud_cache = q
           /\ [sub EXCEPT ![c].pConn = p] = [sub EXCEPT ![c] = [sub[c] EXCEPT !.pConn = p]]
           /\ [sub EXCEPT ![c].cud_cache = q] = [sub EXCEPT ![c] = [sub[c] EXCEPT !.cud_cache = q]]
<1>1. sub[c] \in Subs
  BY ChanTypes
<1> QED
  BY <1>1 DEF Subs

LEMMA WrittenFlag == ASSUME Types, NEW c \in Conns PROVE PConnAfterWrite(c) \subseteq BOOLEAN
BY DEF PConnAfterWrite

\* What a change of the table does to the connections.
LEMMA LogEffect ==
    ASSUME Types, NEW op \in {"INSERT", "UPDATE", "DELETE"}, NEW k \in Keys, NEW v \in Cells,
           Log(op, k, v), NEW s, s = Sql(op, k, v, n + 1)
    PROVE  /\ n' = n + 1 /\ s \in Stmts /\ s.op = op /\ s.key = k /\ s.val = v /\ s.num = n + 1
           /\ sub' \in [Conns -> Subs] /\ chan' \in [Conns -> Seq(Messages)]
           /\ \A c \in Conns :
                /\ sub'[c].bSync = sub[c].bSync
                /\ c \notin Subscribed => sub'[c] = sub[c] /\ chan'[c] = chan[c]
                /\ c \in Subscribed /\ Live(c) /\ sub[c].pConn => sub'[c].pConn
                /\ c \in Subscribed /\ Live(c) /\ ~sub[c].bSync =>
                      sub'[c].cud_cache = Append(sub[c].cud_cache, s) /\ chan'[c] = chan[c]
                /\ c \in Subscribed /\ Live(c) /\ sub[c].bSync /\ sub[c].pConn =>
                      sub'[c].cud_cache = sub[c].cud_cache /\ chan'[c] = Append(chan[c], <<s>>)
<1>1. /\ n' = n + 1 /\ s \in Stmts /\ <<s>> \in Messages
      /\ s.op = op /\ s.key = k /\ s.val = v /\ s.num = n + 1
  <2>1. n + 1 \in Nat /\ n' = n + 1 /\ op \in {"CREATE", "INSERT", "UPDATE", "DELETE"}
        /\ k \in Keys \union {None}
    BY DEF Log, Types
  <2> QED
    BY <2>1, SqlType
<1>2. chan' = [c \in Conns |->
            IF c \in Subscribed /\ ~Caches(c) THEN ChanAfterWrite(c, <<s>>) ELSE chan[c]]
  BY DEF Log
<1>3. PICK p \in [Conns -> BOOLEAN] :
        /\ \A c \in Conns :
             IF c \in Subscribed /\ ~Caches(c)
             THEN p[c] \in PConnAfterWrite(c) ELSE p[c] = sub[c].pConn
        /\ sub' = [c \in Conns |->
             IF c \in Subscribed /\ Caches(c)
             THEN [sub[c] EXCEPT !.cud_cache = IF Live(c) THEN Append(@, s) ELSE @]
             ELSE [sub[c] EXCEPT !.pConn = p[c]]]
  BY DEF Log
<1>4. ASSUME NEW c \in Conns
      PROVE  /\ sub'[c] \in Subs /\ chan'[c] \in Seq(Messages)
             /\ sub'[c].bSync = sub[c].bSync
             /\ c \notin Subscribed => sub'[c] = sub[c] /\ chan'[c] = chan[c]
             /\ c \in Subscribed /\ Live(c) /\ sub[c].pConn => sub'[c].pConn
             /\ c \in Subscribed /\ Live(c) /\ ~sub[c].bSync =>
                   sub'[c].cud_cache = Append(sub[c].cud_cache, s) /\ chan'[c] = chan[c]
             /\ c \in Subscribed /\ Live(c) /\ sub[c].bSync /\ sub[c].pConn =>
                   sub'[c].cud_cache = sub[c].cud_cache /\ chan'[c] = Append(chan[c], <<s>>)
  <2>0. /\ sub[c] \in Subs /\ sub[c].cud_cache \in Seq(Stmts) /\ chan[c] \in Seq(Messages)
        /\ sub[c].pConn \in BOOLEAN /\ sub[c].bSync \in BOOLEAN
    BY ChanTypes
  <2>1. CASE c \in Subscribed /\ Caches(c)
    <3> DEFINE q == IF Live(c) THEN Append(sub[c].cud_cache, s) ELSE sub[c].cud_cache
    <3>1. q \in Seq(Stmts)
      BY <1>1, <2>0
    <3>2. sub'[c] = [sub[c] EXCEPT !.cud_cache = q] /\ chan'[c] = chan[c] /\ ~sub[c].bSync
      BY <1>2, <1>3, <2>1 DEF Caches
    <3> HIDE DEF q
    <3>3. /\ sub'[c] \in Subs /\ sub'[c].bSync = sub[c].bSync /\ sub'[c].pConn = sub[c].pConn
          /\ sub'[c].cud_cache = q
      BY <2>0, <3>1, <3>2 DEF Subs
    <3> QED
      BY <2>0, <2>1, <3>2, <3>3 DEF q
  <2>2. CASE ~(c \in Subscribed /\ Caches(c))
    <3>1. sub'[c] = [sub[c] EXCEPT !.pConn = p[c]] /\ p[c] \in BOOLEAN
      BY <1>3, <2>2
    <3>2. /\ sub'[c] \in Subs /\ sub'[c].bSync = sub[c].bSync /\ sub'[c].pConn = p[c]
          /\ sub'[c].cud_cache = sub[c].cud_cache
      BY <2>0, <3>1 DEF Subs
    <3>3. CASE c \notin Subscribed
      <4>1. p[c] = sub[c].pConn /\ chan'[c] = chan[c]
        BY <1>2, <1>3, <3>3
      <4>2. sub'[c] = sub[c]
        BY <2>0, <3>1, <4>1 DEF Subs
      <4> QED
        BY <2>0, <3>2, <3>3, <4>1, <4>2
    <3>4. CASE c \in Subscribed
      <4>1. /\ ~Caches(c) /\ sub[c].bSync /\ p[c] \in PConnAfterWrite(c)
            /\ chan'[c] = ChanAfterWrite(c, <<s>>)
        BY <1>2, <1>3, <2>2, <3>4 DEF Caches
      <4>2. chan'[c] \in Seq(Messages)
        BY <1>1, <4>1, ChanWritten
      <4>3. Live(c) /\ sub[c].pConn => p[c] /\ chan'[c] = Append(chan[c], <<s>>)
        BY <4>1 DEF PConnAfterWrite, ChanAfterWrite, Live
      <4> QED
        BY <2>0, <3>2, <3>4, <4>1, <4>2, <4>3
    <3> QED
      BY <3>3, <3>4
  <2> QED
    BY <2>1, <2>2
<1>5. sub' \in [Conns -> Subs]
  <2>1. sub' = [c \in Conns |-> sub'[c]]
    BY <1>3
  <2> QED
    BY <1>4, <2>1
<1>6. chan' \in [Conns -> Seq(Messages)]
  BY <1>2, <1>4
<1> QED
  BY <1>1, <1>4, <1>5, <1>6

-------------------------------------------------------------------------------
(* Statements of the source.                                                *)

\* One change makes its value of every row that it settles.
LEMMA AppliedSettles ==
    ASSUME NEW s, Change(s), NEW g \in Contents, Settles(s, g[s.key]),
           NEW t \in Contents, t[s.key] = s.val, \A k \in Keys : k # s.key => t[k] = g[k]
    PROVE  Applied(s, {g}) = {t}
<1>1. s.op # "CREATE" /\ s.key \in Keys
  BY DEF Change
<1>2. (IF (s.op = "INSERT") = (g[s.key] = None) THEN [g EXCEPT ![s.key] = s.val] ELSE g) = t
  <2>1. CASE (s.op = "INSERT") = (g[s.key] = None)
    BY <1>1, <2>1 DEF Contents
  <2>2. CASE (s.op = "INSERT") # (g[s.key] = None)
    <3>1. g[s.key] = s.val
      BY <2>2, PubSubAssumption DEF Settles, Change
    <3> QED
      BY <1>1, <2>2, <3>1 DEF Contents
  <2> QED
    BY <2>1, <2>2
<1> QED
  BY <1>1, <1>2, AppliedOne

LEMMA PartOne == ASSUME NEW s, NEW a \in Nat, s.num = a + 1 PROVE Part(<<s>>, a, a + 1)
BY DEF Part

LEMMA PartMore ==
    ASSUME NEW q \in Seq(Stmts), NEW s \in Stmts, NEW b \in Nat, Len(q) <= b,
           Part(q, b - Len(q), b), s.num = b + 1
    PROVE  Part(Append(q, s), b - Len(q), b + 1)
<1>1. /\ Len(q) \in Nat /\ Len(Append(q, s)) = Len(q) + 1 /\ Append(q, s)[Len(q) + 1] = s
      /\ \A i \in 1..Len(q) : Append(q, s)[i] = q[i]
      /\ DOMAIN q = 1..Len(q) /\ DOMAIN Append(q, s) = 1..(Len(q) + 1)
  OBVIOUS
<1> DEFINE more == Append(q, s)
<1> HIDE DEF more
<1>2. \A j \in 1..Len(q) : q[j].num = b - Len(q) + j
  BY <1>1 DEF Part
<1>3. \A j \in 1..(Len(q) + 1) : more[j].num = b - Len(q) + j
  BY <1>1, <1>2 DEF more
<1>4. b + 1 = b - Len(q) + Len(more)
  BY <1>1 DEF more
<1> QED
  BY <1>1, <1>3, <1>4 DEF Part, more

\* What a statement does to the rows.
LEMMA WriteRows ==
    ASSUME RowTypes, OneRow, NEW op \in {"INSERT", "UPDATE", "DELETE"}, NEW k \in Keys,
           NEW v \in Cells, Write(op, k, v),
           op = "INSERT" => v \in Vals /\ tbl[k] = None,
           op = "UPDATE" => v \in Vals /\ tbl[k] # None,
           op = "DELETE" => v = None
    PROVE  /\ RowTypes' /\ OneRow' /\ tbl \in Contents /\ tbl' = [tbl EXCEPT ![k] = v]
           /\ Fresher(blk) = {} /\ del = {} =>
                 /\ \A q \in Fresher(blk') \union del' : blk'[q].key = k
                 /\ op = "INSERT" => del' = {}
                 /\ op = "UPDATE" => del' # {}
<1>0. /\ blk \in [Rows -> Blocks] /\ del \subseteq Rows /\ TableOf /\ trans # "commit"
      /\ del' = del \union (Current(k) \ New)
      /\ op # "DELETE" => v \in Vals
  BY Tables DEF RowTypes, Write
<1>1. \E N \in SUBSET Rows :
         /\ \A q \in N : blk[q] = Free /\ blk'[q] = Row("trans", k, v)
         /\ \A q \in Rows \ N : blk'[q] = IF q \in Current(k) \intersect New THEN Free ELSE blk[q]
         /\ \A q, r \in N : q = r
         /\ N = {} <=> op = "DELETE"
         /\ blk' = [q \in Rows |-> blk'[q]]
  <2>1. CASE op = "DELETE"
    <3>1. blk' = Without(k)
      BY <2>1 DEF Write
    <3>2. /\ \A q \in Rows \ {} : blk'[q] = IF q \in Current(k) \intersect New THEN Free ELSE blk[q]
          /\ blk' = [q \in Rows |-> blk'[q]]
      BY <3>1 DEF Without
    <3> WITNESS {} \in SUBSET Rows
    <3> QED
      BY <2>1, <3>2
  <2>2. CASE op # "DELETE"
    <3>1. PICK r \in Rows : blk[r] = Free /\ blk' = [Without(k) EXCEPT ![r] = Row("trans", k, v)]
      BY <2>2 DEF Write
    <3>2. \A q \in Rows : Without(k)[q] = IF q \in Current(k) \intersect New THEN Free ELSE blk[q]
      BY DEF Without
    <3>3. /\ blk'[r] = Row("trans", k, v) /\ \A q \in Rows \ {r} : blk'[q] = Without(k)[q]
          /\ blk' = [q \in Rows |-> blk'[q]]
      BY <3>1 DEF Without
    <3> DEFINE N == {r}
    <3>4. /\ \A q \in N : blk[q] = Free /\ blk'[q] = Row("trans", k, v)
          /\ \A q \in Rows \ N : blk'[q] = IF q \in Current(k) \intersect New THEN Free ELSE blk[q]
          /\ \A p, q \in N : p = q
          /\ N = {} <=> op = "DELETE"
      BY <2>2, <3>1, <3>2, <3>3
    <3> WITNESS N \in SUBSET Rows
    <3> QED
      BY <3>3, <3>4
  <2> QED
    BY <2>1, <2>2
<1>2. PICK N \in SUBSET Rows :
         /\ \A q \in N : blk[q] = Free /\ blk'[q] = Row("trans", k, v)
         /\ \A q \in Rows \ N : blk'[q] = IF q \in Current(k) \intersect New THEN Free ELSE blk[q]
         /\ \A q, r \in N : q = r
         /\ N = {} <=> op = "DELETE"
         /\ blk' = [q \in Rows |-> blk'[q]]
  BY <1>1
<1>3. ASSUME NEW q \in Rows
      PROVE  /\ blk[q] = Free \/ (/\ blk[q].ctrl \in {"commit", "trans"}
                                  /\ blk[q].key \in Keys /\ blk[q].val \in Vals)
             /\ q \in Current(k) <=> q \notin del /\ blk[q].ctrl # "free" /\ blk[q].key = k
             /\ q \in New <=> blk[q].ctrl = "trans"
             /\ q \in del => blk[q].ctrl = "commit"
  BY <1>0, BlockIs DEF Current, New, OneRow
<1>4. Current(k) \subseteq Rows
  BY DEF Current
<1>f. Free.ctrl = "free"
  BY BlockIs
<1>n. \A q \in N : v \in Vals /\ blk'[q] \in Blocks /\ blk'[q].ctrl = "trans" /\ blk'[q].key = k /\ blk'[q].val = v
  BY <1>0, <1>2, BlockIs
<1>5. ASSUME NEW q \in Rows
      PROVE  /\ q \in N => q \notin del' /\ q \notin del
             /\ q \notin N => /\ q \in del' <=> q \in del \/ (q \in Current(k) /\ q \notin New)
                              /\ q \in Current(k) /\ q \in New => blk'[q] = Free
                              /\ q \notin Current(k) \/ q \notin New => blk'[q] = blk[q]
  BY <1>0, <1>2, <1>3, <1>f
<1>6. ASSUME NEW q \in Rows
      PROVE  /\ q \notin del' /\ blk'[q].ctrl # "free" <=>
                   q \in N \/ (q \notin del /\ blk[q].ctrl # "free" /\ blk[q].key # k)
             /\ q \notin N /\ q \notin del' /\ blk'[q].ctrl # "free" => blk'[q] = blk[q]
  BY <1>2, <1>3, <1>5, <1>f, <1>n
<1>7. RowTypes'
  <2>1. del' \subseteq Rows
    BY <1>0, <1>4
  <2>2. \A q \in Rows : blk'[q] \in Blocks
    BY <1>0, <1>5, <1>n, BlockIs
  <2> QED
    BY <1>2, <2>1, <2>2 DEF RowTypes
<1>8. OneRow'
  <2>1. ASSUME NEW o \in del' PROVE blk'[o].ctrl = "commit"
    BY <1>0, <1>3, <1>4, <1>5, <1>f
  <2>2. ASSUME NEW q \in Rows \ del', NEW r \in Rows \ del',
               blk'[q].ctrl # "free", blk'[r].ctrl # "free", blk'[q].key = blk'[r].key
        PROVE  q = r
    <3>1. q \in N <=> r \in N
      BY <1>6, <1>n, <2>2
    <3>2. CASE q \in N
      BY <1>2, <3>1, <3>2
    <3>3. CASE q \notin N
      <4>1. q \in Rows \ del /\ r \in Rows \ del /\ blk[q].ctrl # "free" /\ blk[r].ctrl # "free"
            /\ blk[q].key = blk[r].key
        BY <1>6, <2>2, <3>1, <3>3
      <4> QED
        BY <4>1 DEF OneRow
    <3> QED
      BY <3>2, <3>3
  <2>3. ASSUME NEW q \in Rows, blk'[q].ctrl = "commit" PROVE blk'[q] = blk[q]
    BY <1>5, <1>f, <1>n, <2>3
  <2>4. ASSUME NEW q \in Rows, NEW r \in Rows, blk'[q].ctrl = "commit", blk'[r].ctrl = "commit",
               blk'[q].key = blk'[r].key
        PROVE  q = r
    BY <1>0, <2>3, <2>4 DEF OneRow
  <2> QED
    BY <2>1, <2>2, <2>4 DEF OneRow
<1>9. /\ tbl \in Contents
      /\ \A q \in Rows \ del : blk[q].ctrl # "free" => blk[q].key \in Keys /\ tbl[blk[q].key] = blk[q].val
      /\ \A j \in Keys : tbl[j] # None => \E q \in Rows \ del : blk[q].ctrl # "free" /\ blk[q].key = j
  BY <1>0 DEF TableOf
<1>10. tbl' = [tbl EXCEPT ![k] = v]
  <2> PICK t : t = [tbl EXCEPT ![k] = v]
    OBVIOUS
  <2>1. t \in Contents /\ t[k] = v /\ \A j \in Keys : j # k => t[j] = tbl[j]
    BY <1>9 DEF Contents, Cells
  <2>2. ASSUME NEW q \in Rows \ del', blk'[q].ctrl # "free" PROVE t[blk'[q].key] = blk'[q].val
    BY <1>6, <1>9, <1>n, <2>1, <2>2
  <2>3. ASSUME NEW j \in Keys, t[j] # None
        PROVE  \E q \in Rows \ del' : blk'[q].ctrl # "free" /\ blk'[q].key = j
    <3>1. CASE j = k
      <4>1. PICK q \in N : TRUE
        BY <1>2, <2>1, <2>3, <3>1
      <4> QED
        BY <1>5, <1>n, <3>1, <4>1
    <3>2. CASE j # k
      <4>1. PICK q \in Rows \ del : blk[q].ctrl # "free" /\ blk[q].key = j
        BY <1>9, <2>1, <2>3, <3>2
      <4>2. q \in Rows \ del' /\ blk'[q].ctrl # "free"
        BY <1>6, <3>2, <4>1
      <4> QED
        BY <1>2, <1>5, <1>6, <1>f, <3>2, <4>1, <4>2
    <3> QED
      BY <3>1, <3>2
  <2>4. TableOf'
    BY <1>7, <1>8, TablesNext
  <2>5. tbl' = t
    BY <2>1, <2>2, <2>3, <2>4, TableFrom
  <2> QED
    BY <2>5
<1>11. ASSUME Fresher(blk) = {}, del = {}
       PROVE  /\ \A q \in Fresher(blk') \union del' : blk'[q].key = k
              /\ op = "INSERT" => del' = {}
              /\ op = "UPDATE" => del' # {}
  <2>1. New = {} /\ del' = Current(k)
    BY <1>0, <1>11 DEF Fresher, New
  <2>2. ASSUME NEW q \in Rows, q \in Fresher(blk') \/ q \in del' PROVE blk'[q].key = k
    <3>1. CASE q \in N
      BY <1>n, <3>1
    <3>2. CASE q \notin N
      <4>1. blk'[q] = blk[q] /\ blk[q].ctrl # "trans"
        BY <1>3, <1>5, <2>1, <3>2
      <4>2. q \in Current(k)
        BY <2>1, <2>2, <4>1 DEF Fresher
      <4> QED
        BY <1>3, <4>1, <4>2
    <3> QED
      BY <3>1, <3>2
  <2>3. op = "INSERT" => Current(k) = {}
    <3>1. ASSUME NEW q \in Current(k) PROVE tbl[k] # None
      <4>1. q \in Rows \ del /\ blk[q].ctrl # "free" /\ blk[q].key = k
        BY <1>3, <1>4, <3>1
      <4> QED
        BY <1>3, <1>9, <1>f, <4>1, PubSubAssumption
    <3> QED
      BY <3>1
  <2>4. op = "UPDATE" => Current(k) # {}
    <3>1. ASSUME tbl[k] # None PROVE Current(k) # {}
      <4>1. PICK q \in Rows \ del : blk[q].ctrl # "free" /\ blk[q].key = k
        BY <1>9, <3>1
      <4> QED
        BY <1>3, <4>1
    <3> QED
      BY <3>1
  <2>5. del' \subseteq Rows /\ Fresher(blk') \subseteq Rows
    BY <1>4, <2>1 DEF Fresher
  <2> QED
    BY <2>1, <2>2, <2>3, <2>4, <2>5
<1> QED
  BY <1>7, <1>8, <1>9, <1>10, <1>11

LEMMA WriteStep ==
    ASSUME PubInv, NEW op \in {"INSERT", "UPDATE", "DELETE"}, NEW k \in Keys, NEW v \in Cells,
           Write(op, k, v),
           op = "INSERT" => v \in Vals /\ tbl[k] = None,
           op = "UPDATE" => v \in Vals /\ tbl[k] # None,
           op = "DELETE" => v = None
    PROVE  PubInv'
<1> DEFINE s == Sql(op, k, v, n + 1)
<1>0. /\ Types /\ RowTypes /\ OneRow /\ Fresh /\ n \in Nat
      /\ Log(op, k, v) /\ UNCHANGED <<thread, left, found, res, up, poll, rtbl, got, clean>>
      /\ \A c \in Conns : thread[c] # "scan"
  BY DEF PubInv, Types, Write, replica, query
<1>r. /\ RowTypes' /\ OneRow' /\ tbl \in Contents /\ tbl' = [tbl EXCEPT ![k] = v]
      /\ Fresher(blk) = {} /\ del = {} =>
            /\ \A q \in Fresher(blk') \union del' : blk'[q].key = k
            /\ op = "INSERT" => del' = {}
            /\ op = "UPDATE" => del' # {}
  BY <1>0, WriteRows
<1> PICK x : x = s
  OBVIOUS
<1>1. /\ n' = n + 1 /\ x \in Stmts /\ x.op = op /\ x.key = k /\ x.val = v /\ x.num = n + 1
      /\ sub' \in [Conns -> Subs] /\ chan' \in [Conns -> Seq(Messages)]
  BY <1>0, LogEffect
<1>2. ASSUME NEW c \in Conns
      PROVE  /\ sub'[c].bSync = sub[c].bSync
             /\ c \notin Subscribed => sub'[c] = sub[c] /\ chan'[c] = chan[c]
             /\ c \in Subscribed /\ Live(c) /\ sub[c].pConn => sub'[c].pConn
             /\ c \in Subscribed /\ Live(c) /\ ~sub[c].bSync =>
                   sub'[c].cud_cache = Append(sub[c].cud_cache, x) /\ chan'[c] = chan[c]
             /\ c \in Subscribed /\ Live(c) /\ sub[c].bSync /\ sub[c].pConn =>
                   sub'[c].cud_cache = sub[c].cud_cache /\ chan'[c] = Append(chan[c], <<x>>)
  BY <1>0, LogEffect
<1> HIDE DEF s
<1>n. n \in Nat /\ n' = n + 1 /\ got \in Nat
  BY <1>0, <1>1 DEF Types
<1>3. tbl' \in Contents /\ tbl'[k] = v /\ \A q \in Keys : q # k => tbl'[q] = tbl[q]
  BY <1>r DEF Contents, Cells
<1>4. Types'
  BY <1>0, <1>1, <1>r DEF Types, Contents
<1>5. Fresh'
  BY <1>0, <1>2 DEF Fresh, Subscribed, PubInv
<1>6. Change(x) /\ Settles(x, tbl[k])
  BY <1>1 DEF Change, Settles
<1>7. ASSUME NEW c \in Conns, Live(c)', (c \in Subscribed)' PROVE Linked(c)' /\ (clean' => Faithful(c)')
  <2>1. Live(c) /\ c \in Subscribed /\ Linked(c) /\ (clean => Faithful(c))
    BY <1>0, <1>7 DEF PubInv, ConnInv, Live, Subscribed
  <2>2. /\ sub[c].cud_cache \in Seq(Stmts) /\ Len(sub[c].cud_cache) \in Nat
        /\ chan[c] \in Seq(Messages) /\ sub[c].bSync \in BOOLEAN /\ <<x>> \in Messages
    BY <1>0, <1>1, ChanTypes DEF Messages
  <2> DEFINE q == sub[c].cud_cache
  <2>3. CASE ~sub[c].bSync
    <3>1. /\ sub'[c].cud_cache = Append(q, x) /\ chan'[c] = chan[c] /\ sub'[c].pConn
          /\ ~sub'[c].bSync /\ thread'[c] = thread[c] /\ thread[c] \notin {"read", "closed"}
      BY <1>0, <1>2, <2>1, <2>3 DEF Linked
    <3>2. Len(Append(q, x)) = Len(q) + 1 /\ Len(q) <= n
      BY <1>1, <2>1, <2>2 DEF Linked
    <3>3. n' - Len(Append(q, x)) = n - Len(q) /\ Len(Append(q, x)) <= n'
      <4>1. Len(q) \in Nat
        BY <2>2
      <4> QED
        BY <1>n, <3>2, <4>1
    <3>4. Part(Append(q, x), n - Len(q), n + 1)
      BY <1>0, <1>1, <2>1, <2>2, PartMore DEF Linked
    <3>5. Linked(c)'
      <4>1. Numbered(got, chan[c], n - Len(q))
        BY <2>1 DEF Linked
      <4> QED
        BY <1>0, <1>1, <3>1, <3>3, <3>4, <4>1, LinkedNext
    <3>6. ASSUME clean' PROVE Faithful(c)'
      <4>1. Faithful(c)
        BY <1>0, <2>1, <3>6
      <4>2. thread[c] \in {"create", "select", "rows"} /\ left[c] = {} /\ found[c] = {}
        BY <1>0, <2>1, <3>1, ChanTypes DEF Subscribed, Places, Fresh
      <4>3. Base(tbl, blk, del, q)
        BY <4>1, <4>2 DEF Faithful
      <4>4. q = <<>> => Append(q, x) = <<x>> /\ Append(q, x)[1] = x
        BY <1>1
      <4>5. Append(q, x) # <<>> /\ (Len(Append(q, x)) <= 1 => q = <<>>)
        <5>1. Len(q) \in Nat /\ Len(Append(q, x)) # 0
          BY <2>2, <3>2
        <5>2. Len(Append(q, x)) <= 1 => Len(q) = 0
          BY <3>2, <5>1
        <5>3. Len(q) = 0 => q = <<>>
          BY <2>2, EmptySeq
        <5>4. Len(<<>>) = 0
          OBVIOUS
        <5> QED
          BY <5>1, <5>2, <5>3, <5>4
      <4>6. Base(tbl', blk', del', Append(q, x))
        <5>1. CASE q = <<>>
          <6>1. Fresher(blk) = {} /\ del = {} /\ Append(q, x) = <<x>> /\ <<x>>[1] = x /\ <<x>> # <<>>
            BY <4>3, <4>4, <5>1 DEF Base
          <6> QED
            BY <1>1, <1>3, <1>6, <1>r, <6>1 DEF Base
        <5>2. CASE q # <<>>
          <6>1. Append(q, x) # <<>> /\ Len(Append(q, x)) # 1
            BY <4>5, <5>2
          <6> QED
            BY <6>1 DEF Base
        <5> QED
          BY <5>1, <5>2
      <4>7. ASSUME thread[c] = "rows", Len(Append(q, x)) <= 1
            PROVE  \E g \in Contents :
                      /\ Leads(rtbl, chan[c], {g})
                      /\ Sent(tbl', blk', Append(q, x), left[c], found[c], res[c], g)
        <5>0. q = <<>> /\ Len(q) = 0
          BY <4>5, <4>7
        <5>1. PICK g \in Contents : /\ Leads(rtbl, chan[c], {g})
                                     /\ Sent(tbl, blk, <<>>, {}, {}, res[c], g)
          <6>1. Len(q) <= 1
            BY <5>0
          <6> QED
            BY <4>1, <4>2, <4>7, <5>0, <6>1 DEF Faithful
        <5>2. Sent(tbl', blk', <<x>>, {}, {}, res[c], g)
          <6> DEFINE R == res[c]
          <6>1. /\ \A j \in Keys : g[j] # None => g[j] = tbl[j]
                /\ \A i \in 1..Len(R) : R[i][2] = tbl[R[i][1]]
                /\ \A j \in Keys : tbl[j] # None => g[j] # None \/ \E i \in 1..Len(R) : R[i][1] = j
            <7>1. Len(<<>>) # 1
              OBVIOUS
            <7> QED
              BY <5>1, <7>1 DEF Sent, Fits, Needed
          <6>2. Len(<<x>>) = 1 /\ <<x>>[1] = x
            OBVIOUS
          <6>3. \A i \in 1..Len(R) : R[i][1] \in Keys
            <7>1. R \in Seq(Keys \X Vals)
              BY <1>0, ChanTypes
            <7> QED
              BY <7>1
          <6> HIDE DEF R
          <6>4. \A j \in Keys : Fits(tbl', <<x>>, j, tbl[j])
            BY <1>1, <1>3, <1>6, <6>2 DEF Fits
          <6>5. \A j \in Keys : Needed(tbl', <<x>>, j) => tbl[j] # None
            <7>1. op = "UPDATE" => tbl[k] # None
              OBVIOUS
            <7> QED
              BY <1>1, <1>3, <6>2, <7>1 DEF Needed
          <6> QED
            BY <6>1, <6>3, <6>4, <6>5 DEF Sent, R
        <5> QED
          BY <4>2, <4>4, <5>0, <5>1, <5>2
      <4> QED
        BY <1>0, <3>1, <4>1, <4>6, <4>7, FaithfulNext DEF Faithful
    <3> QED
      BY <3>5, <3>6
  <2>4. CASE sub[c].bSync
    <3>1. /\ sub'[c].cud_cache = <<>> /\ q = <<>> /\ chan'[c] = Append(chan[c], <<x>>)
          /\ sub'[c].pConn /\ sub'[c].bSync /\ thread'[c] = "read" /\ thread[c] = "read"
      BY <1>0, <1>2, <2>1, <2>4 DEF Linked
    <3>2. Len(<<>>) = 0 /\ n - 0 = n /\ n' - 0 = n' /\ n' = n + 1 /\ n <= n + 1 /\ 0 <= n'
      BY <1>0, <1>1
    <3>3. Numbered(got, chan[c], n)
      BY <2>1, <3>1, <3>2 DEF Linked
    <3>4. Numbered(got, Append(chan[c], <<x>>), n + 1)
      <4>1. Part(<<x>>, n, n + 1)
        BY <1>1, <1>n, PartOne
      <4>2. n + 1 \in Nat /\ n <= n + 1
        BY <1>n
      <4> QED
        BY <2>2, <3>3, <4>1, <4>2, NumberedAppend
    <3>5. Part(<<>>, n', n')
      BY <1>0, <3>2 DEF Part
    <3>6. Linked(c)'
      BY <1>0, <3>1, <3>2, <3>4, <3>5, LinkedNext
    <3>7. ASSUME clean' PROVE Faithful(c)'
      <4>1. Leads(rtbl, chan[c], {tbl})
        BY <1>0, <2>1, <3>1, <3>7 DEF Faithful
      <4>2. Applied(x, {tbl}) = {tbl'}
        <5>1. tbl \in Contents /\ x.key = k /\ x.val = v /\ Settles(x, tbl[x.key])
          BY <1>1, <1>6, <1>r
        <5>2. tbl'[x.key] = x.val /\ \A r \in Keys : r # x.key => tbl'[r] = tbl[r]
          BY <1>3, <5>1
        <5> QED
          BY <1>3, <1>6, <5>1, <5>2, AppliedSettles
      <4>3. Leads(rtbl, Append(chan[c], <<x>>), {tbl'})
        <5>1. Len(<<x>>) = 1 /\ <<x>>[1] = x /\ {tbl'} \in SUBSET Contents
          BY <1>3
        <5> QED
          BY <2>2, <4>1, <4>2, <5>1, LeadsAppend
      <4> QED
        BY <1>0, <3>1, <4>3, FaithfulNext
    <3> QED
      BY <3>6, <3>7
  <2> QED
    BY <2>2, <2>3, <2>4
<1> QED
  BY <1>4, <1>5, <1>7, <1>r DEF PubInv, ConnInv

\* A connection that a step has nothing to do with, if it leaves the rows alone.
LEMMA OtherConn ==
    ASSUME PubInv, NEW c \in Conns, Live(c), c \in Subscribed, clean' => clean,
           Kept(c), UNCHANGED <<n, got, rtbl, blk, del>>
    PROVE  Linked(c)' /\ (clean' => Faithful(c)')
<1>1. Linked(c) /\ (clean => Faithful(c)) /\ tbl' = tbl
  BY SameTable DEF PubInv, ConnInv
<1>2. Linked(c)'
  BY <1>1, LinkedKeeps DEF Kept
<1> QED
  BY <1>1, <1>2, FaithfulKeeps

\* The step of a transaction that changes rows at most.
LEMMA RowsStep ==
    ASSUME PubInv, RowTypes', OneRow',
           UNCHANGED <<sub, thread, left, found, res, chan, up, poll, rtbl, n, got>>,
           clean' => clean,
           \A c \in Conns : Live(c) /\ c \in Subscribed /\ Linked(c) /\ Faithful(c) /\ clean' => Faithful(c)'
    PROVE  PubInv'
<1>1. Types' /\ Fresh'
  BY DEF PubInv, Types, Fresh, Subscribed
<1>2. ASSUME NEW c \in Conns, Live(c)', (c \in Subscribed)' PROVE Linked(c)' /\ (clean' => Faithful(c)')
  <2>1. Live(c) /\ c \in Subscribed /\ Linked(c) /\ (clean => Faithful(c))
    BY <1>2 DEF PubInv, ConnInv, Live, Subscribed
  <2>2. Linked(c)'
    BY <2>1, LinkedKeeps
  <2> QED
    BY <2>1, <2>2
<1> QED
  BY <1>1, <1>2 DEF PubInv, ConnInv

LEMMA TransStep ==
    ASSUME PubInv, Begin \/ Commit \/ CommitEnd
    PROVE  PubInv'
<1>0. /\ UNCHANGED <<blk, del, sub, thread, left, found, res, chan, up, poll, rtbl, n, got>>
      /\ RowTypes /\ OneRow
  BY DEF Begin, Commit, CommitEnd, server, query, replica, PubInv, Types
<1>1. clean' => clean
  <2>1. clean' = clean
    BY Zenon DEF Begin, Commit, CommitEnd
  <2> QED
    BY <2>1, Zenon
<1>2. RowTypes'
  BY <1>0 DEF RowTypes
<1>3. OneRow'
  <2>1. CASE Begin
    BY <1>0, <2>1 DEF OneRow, Begin
  <2>2. CASE Commit
    BY <1>0, <2>2 DEF OneRow, Commit
  <2>3. CASE CommitEnd
    <3>1. del = {}
      BY <2>3 DEF CommitEnd, Committed
    <3> QED
      BY <1>0, <3>1 DEF OneRow
  <2> QED
    BY <2>1, <2>2, <2>3
<1>4. ASSUME NEW c \in Conns, Faithful(c) PROVE Faithful(c)'
  BY <1>0, <1>4, SameTable, FaithfulKeeps DEF Kept
<1> QED
  BY <1>0, <1>1, <1>2, <1>3, <1>4, RowsStep

\* The rows are what they were before the transaction.
LEMMA RollbackStep == ASSUME PubInv, Rollback PROVE PubInv'
<1>0. /\ UNCHANGED <<sub, thread, left, found, res, chan, up, poll, rtbl, n, got>>
      /\ RowTypes /\ OneRow /\ trans = "open" /\ del' = {}
      /\ blk' = [q \in Rows |-> IF q \in New THEN Free ELSE blk[q]]
  BY DEF Rollback, server, query, replica, PubInv, Types
<1>1. clean' => clean /\ Committed
  <2>1. clean' = (clean /\ Committed)
    BY Zenon DEF Rollback
  <2> QED
    BY <2>1, Zenon
<1>2. RowTypes'
  <2>1. \A q \in Rows : blk'[q] \in Blocks
    BY <1>0, BlockIs DEF RowTypes
  <2> QED
    BY <1>0, <2>1 DEF RowTypes
<1>3. OneRow'
  <2>1. ASSUME NEW q \in Rows, blk'[q].ctrl # "free" PROVE blk'[q] = blk[q] /\ blk[q].ctrl = "commit"
    BY <1>0, <2>1, BlockIs DEF RowTypes, New
  <2>2. ASSUME NEW q \in Rows, NEW r \in Rows,
               blk'[q].ctrl # "free", blk'[r].ctrl # "free", blk'[q].key = blk'[r].key
        PROVE  q = r
    BY <1>0, <2>1, <2>2 DEF OneRow
  <2>3. \A q \in Rows : blk'[q].ctrl = "commit" => blk'[q].ctrl # "free"
    OBVIOUS
  <2> QED
    BY <1>0, <2>2, <2>3 DEF OneRow
<1>4. ASSUME NEW c \in Conns, Faithful(c), clean' PROVE Faithful(c)'
  <2>1. New = {} /\ del = {}
    BY <1>1, <1>4 DEF Committed
  <2>2. blk' = blk /\ del' = del
    BY <1>0, <2>1 DEF RowTypes
  <2> QED
    BY <1>0, <1>4, <2>2, SameTable, FaithfulKeeps DEF Kept
<1> QED
  BY <1>0, <1>1, <1>2, <1>3, <1>4, RowsStep

\* A version is published: it takes the place of one in del.
LEMMA CommitNewStep == ASSUME PubInv, NEW r \in Rows, CommitNew(r) PROVE PubInv'
<1>0. /\ UNCHANGED <<del, trans, sub, thread, left, found, res, chan, up, poll, rtbl, n, got>>
      /\ RowTypes /\ OneRow /\ trans = "commit" /\ blk[r].ctrl = "trans" /\ r \in New
      /\ blk' = [blk EXCEPT ![r].ctrl = "commit"] /\ Types /\ Fresh
  BY DEF CommitNew, Least, New, server, query, replica, PubInv, Types
<1>1. clean' => clean
  <2>1. clean' = clean
    BY Zenon DEF CommitNew
  <2> QED
    BY <2>1, Zenon
<1>2. /\ blk'[r] \in Blocks /\ blk'[r].ctrl = "commit" /\ blk'[r].key = blk[r].key
      /\ blk'[r].val = blk[r].val /\ r \notin del
      /\ \A q \in Rows \ {r} : blk'[q] = blk[q]
  <2>1. blk[r].key \in Keys /\ blk[r].val \in Vals /\ blk[r] \in Blocks
    BY <1>0, BlockIs DEF RowTypes
  <2>2. blk[r] = Row("trans", blk[r].key, blk[r].val)
    BY <1>0, <2>1 DEF Blocks, Row, Free
  <2>3. [blk[r] EXCEPT !.ctrl = "commit"] = Row("commit", blk[r].key, blk[r].val)
    BY <2>2 DEF Row
  <2>4. blk'[r] = [blk[r] EXCEPT !.ctrl = "commit"] /\ \A q \in Rows \ {r} : blk'[q] = blk[q]
    BY <1>0 DEF RowTypes
  <2>5. r \notin del
    BY <1>0 DEF OneRow
  <2> QED
    BY <2>1, <2>3, <2>4, <2>5, BlockIs
<1>3. \A q \in Rows : /\ blk'[q].ctrl # "free" <=> blk[q].ctrl # "free"
                      /\ blk'[q].key = blk[q].key /\ blk'[q].val = blk[q].val
                      /\ blk[q].ctrl = "commit" => blk'[q].ctrl = "commit"
  BY <1>0, <1>2
<1>4. RowTypes'
  BY <1>0, <1>2 DEF RowTypes
<1>5. OneRow'
  BY <1>0, <1>3 DEF OneRow, RowTypes
<1>6. tbl' = tbl
  <2>1. TableOf /\ TableOf'
    BY <1>0, <1>4, <1>5, Tables, TablesNext
  <2>2. /\ tbl \in Contents
        /\ \A q \in Rows \ del' : blk'[q].ctrl # "free" => tbl[blk'[q].key] = blk'[q].val
        /\ \A k \in Keys : tbl[k] # None =>
              \E q \in Rows \ del' : blk'[q].ctrl # "free" /\ blk'[q].key = k
    BY <1>0, <1>3, <2>1 DEF TableOf
  <2> QED
    BY <2>1, <2>2, TableFrom
<1>7. ASSUME NEW c \in Conns, Live(c), c \in Subscribed, Linked(c), Faithful(c) PROVE Faithful(c)'
  <2> DEFINE q == sub[c].cud_cache
  <2>1. Fresher(blk') \subseteq Fresher(blk) /\ r \in Fresher(blk) /\ Fresher(blk') \subseteq Rows
    BY <1>0, <1>2 DEF Fresher
  <2>2. Base(tbl, blk, del, q) => Base(tbl, blk', del, q)
    <3>1. \A p \in Fresher(blk') \union del : p \in Fresher(blk) \union del /\ blk'[p].key = blk[p].key
      BY <1>0, <1>3, <2>1 DEF RowTypes
    <3> QED
      BY <2>1, <3>1 DEF Base
  <2>3. ASSUME NEW g \in Contents, Sent(tbl, blk, q, left[c], found[c], res[c], g)
        PROVE  Sent(tbl, blk', q, left[c], found[c], res[c], g)
    <3>1. left[c] \subseteq Rows /\ found[c] \subseteq Rows
      BY <1>0, ChanTypes
    <3>2. \A p \in left[c] \union found[c] :
             blk[p].ctrl = "commit" => blk'[p].ctrl = "commit" /\ blk'[p].key = blk[p].key
      BY <1>3, <3>1
    <3> QED
      BY <2>3, <3>2 DEF Sent
  <2> HIDE DEF q
  <2> QED
    BY <1>0, <1>6, <1>7, <2>2, <2>3, FaithfulNext DEF Faithful, q
<1> QED
  BY <1>0, <1>1, <1>4, <1>5, <1>7, RowsStep

\* An old version is freed: a SELECT that needed it has found the one in its place.
LEMMA CommitDelStep == ASSUME PubInv, NEW o \in Rows, CommitDel(o) PROVE PubInv'
<1>0. /\ UNCHANGED <<trans, sub, thread, left, found, res, chan, up, poll, rtbl, n, got>>
      /\ RowTypes /\ OneRow /\ trans = "commit" /\ New = {} /\ o \in del
      /\ blk' = [blk EXCEPT ![o] = Free] /\ del' = del \ {o} /\ Types /\ Fresh
  BY DEF CommitDel, Published, Least, server, query, replica, PubInv, Types
<1>1. clean' => clean /\ \A c \in Conns : poll = c => ~Misses(c, o)
  <2>1. clean' = (clean /\ \A c \in Conns : poll = c => ~Misses(c, o))
    BY Zenon DEF CommitDel
  <2> QED
    BY <2>1, Zenon
<1>2. blk'[o] = Free /\ (\A q \in Rows \ {o} : blk'[q] = blk[q]) /\ Free.ctrl = "free"
  BY <1>0, BlockIs DEF RowTypes
<1>3. RowTypes'
  BY <1>0, BlockIs DEF RowTypes
<1>4. \A q \in Rows : q \notin del' /\ blk'[q].ctrl # "free" <=> q \notin del /\ blk[q].ctrl # "free"
  BY <1>0, <1>2
<1>5. OneRow'
  <2>1. \A q \in del' : q \in Rows \ {o} /\ q \in del
    BY <1>0 DEF RowTypes
  <2>2. \A q \in del' : blk'[q].ctrl = "commit"
    BY <1>0, <1>2, <2>1 DEF OneRow
  <2>3. ASSUME NEW p \in Rows \ del', NEW q \in Rows \ del',
               blk'[p].ctrl # "free", blk'[q].ctrl # "free", blk'[p].key = blk'[q].key
        PROVE  p = q
    <3>1. p \in Rows \ del /\ q \in Rows \ del /\ p # o /\ q # o
      BY <1>0, <1>2, <1>4, <2>3
    <3> QED
      BY <1>0, <1>2, <2>3, <3>1 DEF OneRow
  <2> QED
    BY <1>0, <2>2, <2>3 DEF OneRow
<1>6. tbl' = tbl
  <2>1. TableOf /\ TableOf'
    BY <1>0, <1>3, <1>5, Tables, TablesNext
  <2>2. /\ tbl \in Contents
        /\ \A q \in Rows \ del' : blk'[q].ctrl # "free" => tbl[blk'[q].key] = blk'[q].val
        /\ \A k \in Keys : tbl[k] # None =>
              \E q \in Rows \ del' : blk'[q].ctrl # "free" /\ blk'[q].key = k
    BY <1>0, <1>2, <1>4, <2>1 DEF TableOf
  <2> QED
    BY <2>1, <2>2, TableFrom
<1>7. ASSUME NEW c \in Conns, Live(c), c \in Subscribed, Linked(c), Faithful(c), clean' PROVE Faithful(c)'
  <2> DEFINE q == sub[c].cud_cache
  <2>1. Fresher(blk') = {} /\ Fresher(blk) = {}
    BY <1>0, <1>2 DEF Fresher, New
  <2>2. Base(tbl, blk, del, q) => q # <<>> /\ Base(tbl, blk', del', q)
    <3>1. \A p \in del' : p \in del /\ blk'[p] = blk[p]
      BY <1>0, <1>2 DEF RowTypes
    <3>2. del # {} /\ del' \subseteq del
      BY <1>0
    <3> QED
      BY <2>1, <3>1, <3>2 DEF Base
  <2>3. ASSUME Base(tbl, blk, del, q), Len(q) <= 1,
               NEW g \in Contents, Sent(tbl, blk, q, left[c], found[c], res[c], g)
        PROVE  Sent(tbl, blk', q, left[c], found[c], res[c], g)
    <3>1. left[c] \subseteq Rows /\ found[c] \subseteq Rows /\ q \in Seq(Stmts)
      BY <1>0, ChanTypes
    <3>2. Len(q) = 1 /\ blk[o].key = q[1].key /\ Change(q[1]) /\ tbl[q[1].key] = q[1].val
      <4>1. Len(q) = 1
        BY <2>2, <2>3, <3>1, ShortSeq
      <4> QED
        BY <1>0, <2>3, <4>1 DEF Base
    <3>3. ~Misses(c, o)
      BY <1>1, <1>7 DEF Live
    <3>4. o \notin found[c]
      BY <3>3 DEF Misses
    <3>5. ASSUME NEW k \in Keys, Needed(tbl, q, k),
                 NEW p \in left[c] \union found[c], blk[p].ctrl = "commit", blk[p].key = k
          PROVE  \E r \in left[c] \union found[c] : blk'[r].ctrl = "commit" /\ blk'[r].key = k
      <4>1. CASE p # o
        <5>1. blk'[p] = blk[p]
          BY <1>2, <3>1, <4>1
        <5> QED
          BY <3>5, <5>1
      <4>2. CASE p = o
        <5>1. k = q[1].key /\ q[1].op = "UPDATE" /\ o \in left[c]
          BY <3>2, <3>4, <3>5, <4>2 DEF Needed
        <5>2. tbl[k] # None
          BY <3>2, <5>1, PubSubAssumption DEF Change
        <5>3. PICK r \in Rows \ del : blk[r].ctrl # "free" /\ blk[r].key = k
          BY <1>0, <5>2, Tables DEF TableOf
        <5>4. blk[r].ctrl = "commit"
          BY <1>0, <5>3, BlockIs DEF RowTypes, New
        <5>5. r # o /\ blk'[r] = blk[r]
          BY <1>0, <1>2, <5>3
        <5>6. r \in left[c] \union found[c]
          BY <3>3, <3>5, <4>2, <5>1, <5>3, <5>4 DEF Misses
        <5> QED
          BY <5>3, <5>4, <5>5, <5>6
      <4> QED
        BY <4>1, <4>2
    <3>6. \A p \in found[c] : blk'[p] = blk[p]
      BY <1>2, <3>1, <3>4
    <3> QED
      BY <2>3, <3>5, <3>6 DEF Sent
  <2> HIDE DEF q
  <2> QED
    BY <1>0, <1>6, <1>7, <2>2, <2>3, FaithfulNext DEF Faithful, q
<1>8. clean' => clean
  BY <1>1
<1> QED
  BY <1>0, <1>3, <1>5, <1>7, <1>8, RowsStep

-------------------------------------------------------------------------------
(* The source's thread of a connection.                                     *)

\* The connections take nothing of the types of the rows.
LEMMA SourceTypes ==
    ASSUME Types, OneRow, UNCHANGED <<blk, del, trans>>
    PROVE  RowTypes' /\ OneRow' /\ tbl' = tbl
BY SameTable DEF Types, RowTypes, OneRow

\* What a step of the thread of connection d leaves to be shown.
LEMMA ThreadStep ==
    ASSUME PubInv, NEW d \in Conns, Types', thread[d] # "none",
           \A c \in Conns : c # d => Kept(c),
           UNCHANGED <<blk, del, trans, up, poll, rtbl, n>>,
           poll # d => got' = got /\ (clean' => clean),
           thread'[d] \in {"create", "select", "scan", "rows", "read", "closed"},
           thread'[d] # "scan" => left'[d] = {} /\ found'[d] = {},
           thread'[d] \notin {"scan", "rows"} => res'[d] = <<>>,
           Live(d) => Linked(d)' /\ (clean' => Faithful(d)')
    PROVE  PubInv'
<1>1. Fresh'
  BY DEF PubInv, Fresh, Subscribed, Kept
<1>2. ASSUME NEW c \in Conns, c # d, Live(c)', (c \in Subscribed)' PROVE Linked(c)' /\ (clean' => Faithful(c)')
  <2>1. Live(c) /\ c \in Subscribed /\ got' = got /\ (clean' => clean)
    BY <1>2 DEF Live, Subscribed, Kept
  <2> QED
    BY <1>2, <2>1, OtherConn
<1>3. Live(d)' <=> Live(d)
  BY DEF Live
<1>4. OneRow'
  BY SourceTypes DEF PubInv
<1> QED
  BY <1>1, <1>2, <1>3, <1>4 DEF PubInv, ConnInv

LEMMA SubscribeStep == ASSUME PubInv, NEW d \in Conns, Subscribe(d) PROVE PubInv'
<1>0. /\ Types /\ Fresh /\ thread[d] = "accepted" /\ thread' = [thread EXCEPT ![d] = "create"]
      /\ sub' = [sub EXCEPT ![d] = [NoSub EXCEPT !.pConn = TRUE]]
      /\ UNCHANGED <<blk, del, trans, left, found, res, chan, up, poll, rtbl, n>>
      /\ got' = IF poll = d THEN n ELSE got
  BY DEF Subscribe, PubInv, source, query, replica
<1>8. /\ poll = d => (clean' => Committed /\ rtbl = {})
      /\ poll # d => (clean' => clean)
  <2>1. clean' = IF poll = d THEN Committed /\ rtbl = {} ELSE clean
    BY Zenon DEF Subscribe
  <2>2. poll = d => (clean' => Committed /\ rtbl = {})
    BY <2>1, Zenon
  <2>3. poll # d => (clean' => clean)
    BY <2>1, Zenon
  <2> QED
    BY <2>2, <2>3
<1>1. NoSub \in Subs /\ ~NoSub.bSync /\ NoSub.cud_cache = <<>>
  BY EmptySeq DEF NoSub, Subs
<1>2. /\ [NoSub EXCEPT !.pConn = TRUE] \in Subs /\ [NoSub EXCEPT !.pConn = TRUE].pConn
      /\ ~[NoSub EXCEPT !.pConn = TRUE].bSync /\ [NoSub EXCEPT !.pConn = TRUE].cud_cache = <<>>
  BY <1>1 DEF Subs
<1>3. Types'
  BY <1>0, <1>2 DEF Types, Places, RowTypes
<1>4. thread'[d] = "create" /\ sub'[d].pConn /\ ~sub'[d].bSync /\ sub'[d].cud_cache = <<>>
  BY <1>0, <1>2 DEF Types
<1>5. chan[d] = <<>>
  BY <1>0 DEF Fresh, Subscribed
<1>6. ASSUME Live(d) PROVE Linked(d)' /\ (clean' => Faithful(d)')
  <2>1. n \in Nat /\ Len(<<>>) = 0 /\ n - 0 = n /\ 0 <= n
    BY <1>0 DEF Types
  <2>2. got' = n /\ n' = n /\ chan'[d] = <<>>
    BY <1>0, <1>5, <1>6 DEF Live
  <2>3. Part(<<>>, n, n) /\ Numbered(n, <<>>, n)
    BY <2>1, NumberedNone DEF Part
  <2>4. Linked(d)'
    BY <1>4, <2>1, <2>2, <2>3, LinkedNext
  <2>5. clean' => Fresher(blk') = {} /\ del' = {} /\ rtbl' = {}
    BY <1>0, <1>6, <1>8 DEF Live, Committed, Fresher, New
  <2>6. clean' => Faithful(d)'
    BY <1>4, <2>1, <2>2, <2>5, FaithfulNext DEF Base
  <2> QED
    BY <2>4, <2>6
<1>7. \A c \in Conns : c # d => Kept(c)
  BY <1>0 DEF Types, Kept
<1>e. left'[d] = {} /\ found'[d] = {} /\ res'[d] = <<>>
  BY <1>0 DEF Fresh, PubInv
<1> QED
  BY <1>0, <1>e, <1>3, <1>4, <1>6, <1>7, <1>8, ThreadStep

LEMMA CloseStep == ASSUME PubInv, NEW d \in Conns, CloseClient(d) PROVE PubInv'
<1>0. /\ Types /\ thread[d] \in {"accepted", "read"} /\ d \notin up
      /\ thread' = [thread EXCEPT ![d] = "closed"]
      /\ sub' = [sub EXCEPT ![d].pConn = FALSE]
      /\ UNCHANGED <<blk, del, trans, left, found, res, chan, up, poll, rtbl, n, got, clean>>
  BY DEF CloseClient, PubInv, source, query, replica
<1>1. sub[d] \in Subs /\ sub' = [sub EXCEPT ![d] = [sub[d] EXCEPT !.pConn = FALSE]]
  BY <1>0 DEF Types
<1>2. [sub[d] EXCEPT !.pConn = FALSE] \in Subs
  BY <1>1 DEF Subs
<1>3. Types'
  BY <1>0, <1>1, <1>2 DEF Types, Places, RowTypes
<1>4. thread'[d] = "closed" /\ ~Live(d)
  BY <1>0 DEF Types, Live
<1>5. \A c \in Conns : c # d => Kept(c)
  BY <1>0, <1>1 DEF Types, Kept
<1>e. left'[d] = {} /\ found'[d] = {} /\ res'[d] = <<>>
  BY <1>0 DEF Fresh, PubInv
<1> QED
  BY <1>0, <1>e, <1>3, <1>4, <1>5, ThreadStep

\* The schema goes first, to a replica that has no table.
LEMMA CreateStep == ASSUME PubInv, NEW d \in Conns, SendCreate(d) PROVE PubInv'
<1>0. /\ Types /\ thread[d] = "create" /\ thread' = [thread EXCEPT ![d] = "select"]
      /\ chan' = [chan EXCEPT ![d] = ChanAfterWrite(d, <<Create>>)]
      /\ UNCHANGED <<blk, del, trans, left, found, res, up, poll, rtbl, n, got, clean>>
  BY DEF SendCreate, PubInv, source, query, replica
<1>1. PICK p \in PConnAfterWrite(d) : sub' = [sub EXCEPT ![d].pConn = p]
  BY DEF SendCreate
<1>2. sub[d] \in Subs /\ p \in BOOLEAN /\ sub' = [sub EXCEPT ![d] = [sub[d] EXCEPT !.pConn = p]]
  BY <1>0, <1>1, WrittenFlag DEF Types
<1>3. /\ [sub[d] EXCEPT !.pConn = p] \in Subs /\ sub'[d].pConn = p
      /\ sub'[d].bSync = sub[d].bSync /\ sub'[d].cud_cache = sub[d].cud_cache
  BY <1>0, <1>2 DEF Subs, Types
<1>c. Create.op = "CREATE" /\ Create.num = 0 /\ Create \in Stmts /\ <<Create>> \in Messages
  BY DEF Create, Sql, Stmts, Messages, Cells
<1>4. Types'
  <2>1. ChanAfterWrite(d, <<Create>>) \in Seq(Messages)
    BY <1>0, <1>c, ChanWritten
  <2> QED
    BY <1>0, <1>2, <1>3, <2>1 DEF Types, Places, RowTypes
<1>5. \A c \in Conns : c # d => Kept(c)
  BY <1>0, <1>2 DEF Types, Kept
<1>6. thread'[d] = "select" /\ d \in Subscribed
  BY <1>0 DEF Types, Subscribed
<1>7. ASSUME Live(d) PROVE Linked(d)' /\ (clean' => Faithful(d)')
  <2>1. Linked(d) /\ (clean => Faithful(d))
    BY <1>6, <1>7 DEF PubInv, ConnInv
  <2>2. sub[d].pConn /\ p /\ chan'[d] = Append(chan[d], <<Create>>) /\ chan[d] \in Seq(Messages)
    BY <1>0, <1>1, <1>7, <2>1 DEF Linked, Live, PConnAfterWrite, ChanAfterWrite, Types
  <2> DEFINE b == n - Len(sub[d].cud_cache)
  <2>3. b \in Nat
    BY <1>0, <2>1, ChanTypes DEF Linked, Types
  <2>4. Numbered(got, chan[d], b)
    BY <2>1 DEF Linked
  <2>5. Part(<<Create>>, b, b) /\ b <= b
    BY <1>c, <2>3 DEF Part
  <2> HIDE DEF b
  <2>6. Numbered(got, Append(chan[d], <<Create>>), b)
    BY <1>c, <2>2, <2>3, <2>4, <2>5, NumberedAppend
  <2>7. Linked(d)'
    BY <1>0, <1>3, <1>6, <2>1, <2>2, <2>6, LinkedNext DEF Linked, b
  <2>8. ASSUME clean' PROVE Faithful(d)'
    <3>1. rtbl = {} /\ chan[d] = <<>> /\ Base(tbl, blk, del, sub[d].cud_cache)
      BY <1>0, <2>1, <2>8 DEF Faithful
    <3>2. Applied(Create, {}) = {Blank} /\ {Blank} \in SUBSET Contents
      BY <1>c DEF Applied, Blank, Contents
    <3>3. Leads(rtbl, chan[d], {})
      BY <3>1, LeadsNone
    <3>4. Len(<<Create>>) = 1 /\ <<Create>>[1] = Create
      OBVIOUS
    <3>5. Leads(rtbl, Append(chan[d], <<Create>>), {Blank})
      BY <1>c, <2>2, <3>2, <3>3, <3>4, LeadsAppend
    <3> QED
      BY <1>0, <1>3, <1>6, <2>2, <3>1, <3>5, SameTable, FaithfulNext
  <2> QED
    BY <2>7, <2>8
<1>e. left'[d] = {} /\ found'[d] = {} /\ res'[d] = <<>>
  BY <1>0 DEF Fresh, PubInv
<1> QED
  BY <1>0, <1>e, <1>4, <1>5, <1>6, <1>7, ThreadStep

LEMMA SelectStep == ASSUME PubInv, NEW d \in Conns, SelectAll(d) PROVE PubInv'
<1>0. /\ Types /\ RowTypes /\ OneRow /\ thread[d] = "select"
      /\ UNCHANGED <<blk, del, trans, found, res, sub, chan, up, poll, rtbl, n, got, clean>>
  BY DEF SelectAll, PubInv, Types, source, replica
<1>1. d \in Subscribed /\ left[d] = {} /\ found'[d] = {} /\ res'[d] = <<>>
  BY <1>0 DEF Subscribed, PubInv, Fresh
<1>2. CASE sub[d].pConn
  <2>1. /\ thread' = [thread EXCEPT ![d] = "scan"]
        /\ left' = [left EXCEPT ![d] = IF Live(d) THEN Rows ELSE {}]
    BY <1>2 DEF SelectAll
  <2>2. Types'
    BY <1>0, <2>1 DEF Types, Places, RowTypes
  <2>3. thread'[d] = "scan" /\ (Live(d) => left'[d] = Rows)
    BY <1>0, <2>1 DEF Types
  <2>4. \A c \in Conns : c # d => Kept(c)
    BY <1>0, <2>1 DEF Types, Kept
  <2>5. ASSUME Live(d) PROVE Linked(d)' /\ (clean' => Faithful(d)')
    <3>1. Linked(d) /\ (clean => Faithful(d))
      BY <1>1, <2>5 DEF PubInv, ConnInv
    <3>2. Linked(d)'
      BY <1>0, <2>3, <3>1, LinkedNext DEF Linked
    <3>3. ASSUME clean' PROVE Faithful(d)'
      <4> DEFINE q == sub[d].cud_cache
      <4>1. Leads(rtbl, chan[d], {Blank}) /\ Base(tbl, blk, del, q)
        BY <1>0, <3>1, <3>3 DEF Faithful
      <4>2. Blank \in Contents /\ \A k \in Keys : Blank[k] = None
        BY DEF Blank, Contents
      <4>3. ASSUME Len(q) <= 1 PROVE Sent(tbl, blk, q, Rows, {}, <<>>, Blank)
        <5>1. \A k \in Keys : Needed(tbl, q, k) => \E r \in Rows : blk[r].ctrl = "commit" /\ blk[r].key = k
          <6>1. q \in Seq(Stmts)
            BY <1>0, ChanTypes
          <6> QED
            BY <1>0, <4>1, <4>3, <6>1, BaseShows
        <5>2. 1..Len(<<>>) = {}
          OBVIOUS
        <5> QED
          BY <4>2, <5>1, <5>2 DEF Sent
      <4> QED
        BY <1>0, <1>1, <2>3, <2>5, <4>1, <4>2, <4>3, SameTable, FaithfulNext
    <3> QED
      BY <3>2, <3>3
  <2> QED
    BY <1>0, <2>2, <2>3, <2>4, <2>5, ThreadStep
<1>3. CASE ~sub[d].pConn
  <2>1. UNCHANGED <<thread, left>>
    BY <1>3 DEF SelectAll
  <2>2. Types' /\ \A c \in Conns : Kept(c)
    BY <1>0, <2>1 DEF Types, RowTypes, Kept
  <2>3. ~Live(d)
    BY <1>1, <1>3 DEF PubInv, ConnInv, Linked
  <2> QED
    BY <1>0, <1>1, <2>1, <2>2, <2>3, ThreadStep
<1> QED
  BY <1>2, <1>3

\* Of the SELECT of a working connection, a step that is no send.
LEMMA ScanStep ==
    ASSUME PubInv, NEW d \in Conns, Types', thread[d] = "scan", thread'[d] \in {"scan", "rows"},
           thread'[d] = "rows" => left'[d] = {} /\ found'[d] = {},
           \A c \in Conns : c # d => Kept(c),
           UNCHANGED <<blk, del, trans, sub, chan, up, poll, rtbl, n, got, clean>>,
           \A g \in Contents :
              /\ Len(sub[d].cud_cache) <= 1 /\ Base(tbl, blk, del, sub[d].cud_cache)
              /\ Sent(tbl, blk, sub[d].cud_cache, left[d], found[d], res[d], g)
              => Sent(tbl, blk, sub[d].cud_cache, left'[d], found'[d], res'[d], g)
    PROVE  PubInv'
<1>1. d \in Subscribed
  BY DEF Subscribed
<1>2. ASSUME Live(d) PROVE Linked(d)' /\ (clean' => Faithful(d)')
  <2>1. Linked(d) /\ (clean => Faithful(d))
    BY <1>1, <1>2 DEF PubInv, ConnInv
  <2>2. Linked(d)'
    BY <2>1, LinkedNext DEF Linked
  <2>3. ASSUME clean' PROVE Faithful(d)'
    <3>1. Faithful(d)
      BY <2>1, <2>3
    <3> QED
      BY <3>1, SameTable, FaithfulNext DEF Faithful
  <2> QED
    BY <2>2, <2>3
<1> QED
  BY <1>2, ThreadStep

LEMMA FilterStep == ASSUME PubInv, NEW d \in Conns, NEW r \in Rows, FilterRow(d, r) PROVE PubInv'
<1>0. /\ Types /\ thread[d] = "scan" /\ thread' = thread /\ r \in left[d]
      /\ left' = [left EXCEPT ![d] = left[d] \ {r}]
      /\ found' = IF blk[r].ctrl = "commit" THEN [found EXCEPT ![d] = found[d] \union {r}] ELSE found
      /\ UNCHANGED <<blk, del, trans, res, sub, chan, up, poll, rtbl, n, got, clean>>
  BY DEF FilterRow, Least, PubInv, Types, source, replica
<1>1. /\ left'[d] = left[d] \ {r} /\ res'[d] = res[d]
      /\ found'[d] = IF blk[r].ctrl = "commit" THEN found[d] \union {r} ELSE found[d]
  BY <1>0 DEF Types
<1>2. Types'
  <2>1. left' \in [Conns -> SUBSET Rows]
    BY <1>0 DEF Types
  <2>2. found' \in [Conns -> SUBSET Rows]
    BY <1>0 DEF Types
  <2> QED
    BY <1>0, <2>1, <2>2 DEF Types, RowTypes
<1>3. \A c \in Conns : c # d => Kept(c)
  BY <1>0 DEF Types, Kept
<1>4. ASSUME NEW g, NEW q, Sent(tbl, blk, q, left[d], found[d], res[d], g)
      PROVE  Sent(tbl, blk, q, left'[d], found'[d], res'[d], g)
  <2>1. /\ \A p \in found'[d] : blk[p].ctrl = "commit"
        /\ \A p \in left[d] \union found[d] : blk[p].ctrl = "commit" => p \in left'[d] \union found'[d]
    BY <1>1, <1>4 DEF Sent
  <2> QED
    BY <1>1, <1>4, <2>1 DEF Sent
<1> QED
  BY <1>0, <1>2, <1>3, <1>4, ScanStep

\* A row that nobody freed is copied: it is one of before the change in the cache,
\* or of after it.
LEMMA CopyStep == ASSUME PubInv, NEW d \in Conns, NEW r \in Rows, CopyRow(d, r) PROVE PubInv'
<1>0. /\ Types /\ RowTypes /\ OneRow /\ thread[d] = "scan" /\ thread' = thread /\ r \in found[d]
      /\ found' = [found EXCEPT ![d] = found[d] \ {r}]
      /\ UNCHANGED <<blk, del, trans, left, sub, chan, up, poll, rtbl, n, got, clean>>
  BY DEF CopyRow, Least, PubInv, Types, source, replica
<1>1. PICK k \in Keys, v \in Vals :
         /\ blk[r] # Free => k = blk[r].key /\ v = blk[r].val
         /\ res' = [res EXCEPT ![d] = Append(res[d], <<k, v>>)]
  BY <1>0 DEF CopyRow, Types
<1>2. /\ res[d] \in Seq(Keys \X Vals) /\ Append(res[d], <<k, v>>) \in Seq(Keys \X Vals)
  BY <1>0, ChanTypes
<1>3. left'[d] = left[d] /\ found'[d] = found[d] \ {r} /\ res'[d] = Append(res[d], <<k, v>>)
  BY <1>0, <1>1 DEF Types
<1>4. Types'
  <2>1. found' \in [Conns -> SUBSET Rows]
    BY <1>0 DEF Types
  <2>2. res' \in [Conns -> Seq(Keys \X Vals)]
    BY <1>0, <1>1, <1>2 DEF Types
  <2> QED
    BY <1>0, <2>1, <2>2 DEF Types, RowTypes
<1>5. \A c \in Conns : c # d => Kept(c)
  BY <1>0, <1>1 DEF Types, Kept
<1>6. ASSUME NEW g \in Contents, NEW q, q = sub[d].cud_cache, Len(q) <= 1, Base(tbl, blk, del, q),
             Sent(tbl, blk, q, left[d], found[d], res[d], g)
      PROVE  Sent(tbl, blk, q, left'[d], found'[d], res'[d], g)
  <2>1. blk[r].ctrl = "commit"
    BY <1>0, <1>6 DEF Sent
  <2>2. blk[r] # Free
    BY <2>1, BlockIs
  <2>3. k = blk[r].key /\ v = blk[r].val /\ Fits(tbl, q, k, v)
    <3>1. q \in Seq(Stmts)
      BY <1>0, <1>6, ChanTypes
    <3> QED
      BY <1>0, <1>1, <1>6, <2>1, <2>2, <3>1, BaseShows
  <2> DEFINE R == res[d]
             more == Append(R, <<k, v>>)
  <2>4. /\ Len(R) \in Nat /\ Len(more) = Len(R) + 1 /\ more[Len(R) + 1] = <<k, v>>
        /\ \A i \in 1..Len(R) : more[i] = R[i]
    BY <1>2
  <2>5. /\ \A j \in Keys : g[j] # None => Fits(tbl, q, j, g[j])
        /\ \A i \in 1..Len(R) : Fits(tbl, q, R[i][1], R[i][2])
        /\ \A p \in found[d] : blk[p].ctrl = "commit"
        /\ \A j \in Keys : Needed(tbl, q, j) =>
              \/ g[j] # None
              \/ \E i \in 1..Len(R) : R[i][1] = j
              \/ \E p \in left[d] \union found[d] : blk[p].ctrl = "commit" /\ blk[p].key = j
    BY <1>6 DEF Sent
  <2> HIDE DEF R, more
  <2>6. ASSUME NEW i \in 1..Len(more) PROVE Fits(tbl, q, more[i][1], more[i][2])
    <3>1. CASE i = Len(R) + 1
      <4>1. more[i][1] = k /\ more[i][2] = v
        BY <2>4, <3>1
      <4> QED
        BY <2>3, <4>1
    <3>2. CASE i \in 1..Len(R)
      BY <2>4, <2>5, <3>2
    <3> QED
      BY <2>4, <3>1, <3>2
  <2>7. ASSUME NEW j \in Keys, Needed(tbl, q, j), g[j] = None
        PROVE  \/ \E i \in 1..Len(more) : more[i][1] = j
               \/ \E p \in left'[d] \union found'[d] : blk[p].ctrl = "commit" /\ blk[p].key = j
    <3>1. ASSUME NEW i \in 1..Len(R), R[i][1] = j PROVE \E l \in 1..Len(more) : more[l][1] = j
      <4>1. i \in 1..Len(more) /\ more[i] = R[i]
        BY <2>4
      <4> QED
        BY <3>1, <4>1
    <3>2. ASSUME blk[r].key = j PROVE \E l \in 1..Len(more) : more[l][1] = j
      <4>1. Len(R) + 1 \in 1..Len(more) /\ more[Len(R) + 1][1] = k
        BY <2>4
      <4> QED
        BY <2>3, <3>2, <4>1
    <3>3. \A p \in left[d] \union found[d] : p = r \/ p \in left'[d] \union found'[d]
      BY <1>3
    <3> QED
      BY <2>5, <2>7, <3>1, <3>2, <3>3
  <2>8. \A p \in found'[d] : blk[p].ctrl = "commit"
    BY <1>3, <2>5
  <2>9. res'[d] = more
    BY <1>3 DEF more, R
  <2> QED
    BY <2>5, <2>6, <2>7, <2>8, <2>9 DEF Sent
<1> QED
  BY <1>0, <1>4, <1>5, <1>6, ScanStep

LEMMA SelectEndStep == ASSUME PubInv, NEW d \in Conns, SelectEnd(d) PROVE PubInv'
<1>0. /\ Types /\ thread[d] = "scan" /\ thread' = [thread EXCEPT ![d] = "rows"]
      /\ left[d] = {} /\ found[d] = {}
      /\ UNCHANGED <<blk, del, trans, left, found, res, sub, chan, up, poll, rtbl, n, got, clean>>
  BY DEF SelectEnd, PubInv, source, query, replica
<1>1. Types' /\ thread'[d] = "rows" /\ \A c \in Conns : c # d => Kept(c)
  BY <1>0 DEF Types, Places, RowTypes, Kept
<1> QED
  BY <1>0, <1>1, ScanStep

\* A row of the result becomes an INSERT.
LEMMA RowStep == ASSUME PubInv, NEW d \in Conns, SendRow(d) PROVE PubInv'
<1> DEFINE R == res[d]
           k == Head(R)[1]
           v == Head(R)[2]
           s == Sql("INSERT", k, v, 0)
<1>0. /\ Types /\ thread[d] = "rows" /\ R # <<>> /\ res' = [res EXCEPT ![d] = Tail(R)]
      /\ chan' = [chan EXCEPT ![d] = ChanAfterWrite(d, <<s>>)]
      /\ UNCHANGED <<blk, del, trans, left, found, thread, up, poll, rtbl, n, got, clean>>
  BY DEF SendRow, PubInv, Types, source, replica
<1>1. PICK p \in PConnAfterWrite(d) : sub' = [sub EXCEPT ![d].pConn = p]
  BY DEF SendRow
<1>r. /\ R \in Seq(Keys \X Vals) /\ Len(R) \in Nat \ {0} /\ Tail(R) \in Seq(Keys \X Vals)
      /\ Len(Tail(R)) = Len(R) - 1 /\ k = R[1][1] /\ v = R[1][2] /\ k \in Keys /\ v \in Vals
      /\ \A i \in 1..Len(Tail(R)) : Tail(R)[i] = R[i + 1]
  <2>1. R \in Seq(Keys \X Vals) /\ R # <<>>
    BY <1>0, ChanTypes
  <2>2. /\ Len(R) \in Nat \ {0} /\ Tail(R) \in Seq(Keys \X Vals) /\ Head(R) = R[1] /\ R[1] \in Keys \X Vals
        /\ Len(Tail(R)) = Len(R) - 1
        /\ \A i \in 1..Len(Tail(R)) : Tail(R)[i] = R[i + 1]
    BY <2>1, EmptySeq
  <2> QED
    BY <2>1, <2>2
<1>3. /\ p \in BOOLEAN /\ sub' = [sub EXCEPT ![d] = [sub[d] EXCEPT !.pConn = p]]
      /\ [sub[d] EXCEPT !.pConn = p] \in Subs
  <2>1. p \in BOOLEAN
    BY <1>0, <1>1, WrittenFlag
  <2> QED
    BY <1>0, <1>1, <2>1, SubTypes, EmptySeq
<1>4. /\ sub'[d].pConn = p /\ sub'[d].bSync = sub[d].bSync /\ sub'[d].cud_cache = sub[d].cud_cache
  BY <1>0, <1>3, SubTypes, EmptySeq DEF Types
<1>5. /\ s \in Stmts /\ <<s>> \in Messages /\ s.op = "INSERT" /\ s.key = k /\ s.val = v /\ s.num = 0
  <2>1. k \in Keys \union {None} /\ v \in Cells /\ 0 \in Nat
    BY <1>r DEF Cells
  <2> QED
    BY <2>1, SqlType
<1>6. Types'
  <2>1. ChanAfterWrite(d, <<s>>) \in Seq(Messages)
    BY <1>0, <1>5, ChanWritten
  <2> QED
    BY <1>0, <1>3, <1>r, <2>1 DEF Types, RowTypes
<1>7. \A c \in Conns : c # d => Kept(c)
  BY <1>0, <1>3 DEF Types, Kept
<1>8. d \in Subscribed /\ res'[d] = Tail(R) /\ chan[d] \in Seq(Messages) /\ left[d] = {} /\ found[d] = {}
  BY <1>0 DEF Subscribed, Types, PubInv, Fresh
<1>9. ASSUME Live(d) PROVE Linked(d)' /\ (clean' => Faithful(d)')
  <2> PICK x : x = s
    OBVIOUS
  <2>1. Linked(d) /\ (clean => Faithful(d))
    BY <1>8, <1>9 DEF PubInv, ConnInv
  <2>2. p /\ chan'[d] = Append(chan[d], <<x>>)
    BY <1>0, <1>1, <1>9, <2>1 DEF Linked, Live, PConnAfterWrite, ChanAfterWrite, Types
  <2>x. <<x>> \in Messages /\ x.op = "INSERT" /\ x.key = k /\ x.val = v /\ x.num = 0
    BY <1>5
  <2> HIDE DEF s, k, v
  <2> DEFINE b == n - Len(sub[d].cud_cache)
  <2>3. b \in Nat
    BY <1>0, <2>1, ChanTypes DEF Linked, Types
  <2>4. Numbered(got, chan[d], b)
    BY <2>1 DEF Linked
  <2>5. Part(<<x>>, b, b) /\ b <= b
    BY <2>3, <2>x DEF Part
  <2> HIDE DEF b
  <2>6. Numbered(got, chan'[d], b)
    <3>1. Numbered(got, Append(chan[d], <<x>>), b)
      BY <1>8, <2>3, <2>4, <2>5, <2>x, NumberedAppend
    <3> QED
      BY <2>2, <3>1
  <2>7. Linked(d)'
    BY <1>0, <1>4, <2>1, <2>2, <2>6, LinkedNext DEF Linked, b
  <2>8. ASSUME clean' PROVE Faithful(d)'
    <3> DEFINE q == sub[d].cud_cache
    <3>1. Faithful(d) /\ Base(tbl, blk, del, q)
      BY <1>0, <2>1, <2>8 DEF Faithful
    <3>2. ASSUME Len(q) <= 1
          PROVE  \E g \in Contents : /\ Leads(rtbl, chan'[d], {g})
                                     /\ Sent(tbl, blk, q, left[d], found[d], Tail(R), g)
      <4>1. PICK g \in Contents : /\ Leads(rtbl, chan[d], {g})
                                  /\ Sent(tbl, blk, q, left[d], found[d], R, g)
        BY <1>0, <3>1, <3>2 DEF Faithful
      <4> PICK h : h = IF g[k] = None THEN [g EXCEPT ![k] = v] ELSE g
        OBVIOUS
      <4>2. /\ h \in Contents /\ h[k] # None /\ h[k] \in {v, g[k]}
            /\ g[k] # None => h = g
            /\ \A j \in Keys : j # k => h[j] = g[j]
        BY <1>r, <4>1, PubSubAssumption DEF Contents
      <4>3. Leads(rtbl, chan'[d], {h})
        <5>1. Applied(x, {g}) = {h}
          <6>1. Applied(x, {g}) = {IF (x.op = "INSERT") = (g[x.key] = None)
                                   THEN [g EXCEPT ![x.key] = x.val] ELSE g}
            <7>1. x.op # "CREATE"
              BY <2>x
            <7> QED
              BY <7>1, AppliedOne
          <6>2. CASE g[k] = None
            BY <2>x, <6>1, <6>2
          <6>3. CASE g[k] # None
            BY <2>x, <4>2, <6>1, <6>3
          <6> QED
            BY <6>2, <6>3
        <5>2. Len(<<x>>) = 1 /\ <<x>>[1] = x /\ {h} \in SUBSET Contents
          BY <4>2
        <5>3. Leads(rtbl, Append(chan[d], <<x>>), {h})
          <6>1. chan[d] \in Seq(Messages) /\ Leads(rtbl, chan[d], {g}) /\ <<x>> \in Messages
            BY <1>8, <2>x, <4>1
          <6> QED
            BY <5>1, <5>2, <6>1, LeadsAppend
        <5> QED
          BY <2>2, <5>3
      <4>4. /\ \A j \in Keys : g[j] # None => Fits(tbl, q, j, g[j])
            /\ \A i \in 1..Len(R) : Fits(tbl, q, R[i][1], R[i][2])
            /\ \A j \in Keys : Needed(tbl, q, j) => g[j] # None \/ \E i \in 1..Len(R) : R[i][1] = j
        BY <1>8, <4>1 DEF Sent
      <4>5. ASSUME NEW j \in Keys, h[j] # None PROVE Fits(tbl, q, j, h[j])
        <5>1. Fits(tbl, q, k, v)
          BY <1>r, <4>4
        <5>2. CASE j = k /\ g[k] = None
          BY <4>2, <4>5, <5>1, <5>2
        <5>3. CASE j # k \/ g[k] # None
          <6>1. h[j] = g[j]
            BY <4>2, <5>3
          <6> QED
            BY <4>4, <4>5, <6>1
        <5> QED
          BY <5>2, <5>3
      <4>6. ASSUME NEW i \in 1..Len(Tail(R)) PROVE Fits(tbl, q, Tail(R)[i][1], Tail(R)[i][2])
        <5>1. i + 1 \in 1..Len(R) /\ Tail(R)[i] = R[i + 1]
          BY <1>r
        <5> QED
          BY <4>4, <5>1
      <4>7. ASSUME NEW j \in Keys, Needed(tbl, q, j), h[j] = None
            PROVE  \E i \in 1..Len(Tail(R)) : Tail(R)[i][1] = j
        <5>1. j # k /\ g[j] = None
          BY <4>2, <4>7
        <5>2. PICK i \in 1..Len(R) : R[i][1] = j
          BY <4>4, <4>7, <5>1
        <5>3. i # 1
          BY <1>r, <5>1, <5>2
        <5>4. i - 1 \in 1..Len(Tail(R)) /\ Tail(R)[i - 1] = R[i - 1 + 1] /\ i - 1 + 1 = i
          BY <1>r, <5>3
        <5> QED
          BY <5>2, <5>4
      <4>8. Sent(tbl, blk, q, left[d], found[d], Tail(R), h)
        BY <1>8, <4>5, <4>6, <4>7 DEF Sent
      <4> QED
        BY <4>2, <4>3, <4>8
    <3> QED
      BY <1>0, <1>4, <1>8, <3>1, <3>2, SameTable, FaithfulNext
  <2> QED
    BY <2>7, <2>8
<1>10. left'[d] = {} /\ found'[d] = {}
  BY <1>0, <1>8
<1> QED
  BY <1>0, <1>6, <1>7, <1>9, <1>10, ThreadStep

\* The cache is the last message before those of the statements.
LEMMA FlushStep == ASSUME PubInv, NEW d \in Conns, FlushCache(d) PROVE PubInv'
<1> DEFINE q == sub[d].cud_cache
<1>0. /\ Types /\ thread[d] = "rows" /\ res[d] = <<>> /\ thread' = [thread EXCEPT ![d] = "read"]
      /\ chan' = [chan EXCEPT ![d] = FlushedChan(d)]
      /\ UNCHANGED <<blk, del, trans, left, found, res, up, poll, rtbl, n, got>>
  BY DEF FlushCache, PubInv, source, query, replica
<1>e. left[d] = {} /\ found[d] = {}
  BY <1>0 DEF PubInv, Fresh
<1>c. clean' => clean /\ Len(q) <= 1
  <2>1. clean' = (clean /\ Len(q) <= 1)
    BY Zenon DEF FlushCache
  <2> QED
    BY <2>1, Zenon
<1>1. PICK p \in IF q = <<>> THEN {sub[d].pConn} ELSE PConnAfterWrite(d) :
         sub' = [sub EXCEPT ![d] = [pConn |-> p, bSync |-> TRUE, cud_cache |-> <<>>]]
  BY DEF FlushCache, Synced
<1>2. p \in BOOLEAN /\ d \in Subscribed /\ q \in Seq(Stmts) /\ Len(q) \in Nat /\ chan[d] \in Seq(Messages)
  BY <1>0, <1>1, WrittenFlag, ChanTypes DEF Subscribed
<1>3. /\ [pConn |-> p, bSync |-> TRUE, cud_cache |-> <<>>] \in Subs
      /\ sub'[d].pConn = p /\ sub'[d].bSync /\ sub'[d].cud_cache = <<>>
  BY <1>0, <1>1, <1>2, EmptySeq DEF Subs, Types
<1>4. Types'
  <2>1. FlushedChan(d) \in Seq(Messages)
    <3>1. CASE q = <<>>
      BY <1>2, <3>1 DEF FlushedChan
    <3>2. CASE q # <<>>
      <4>1. q \in Messages
        BY <1>2, <3>2 DEF Messages
      <4> QED
        BY <1>0, <3>2, <4>1, ChanWritten DEF FlushedChan
    <3> QED
      BY <3>1, <3>2
  <2> QED
    BY <1>0, <1>1, <1>3, <2>1 DEF Types, Places, RowTypes
<1>5. \A c \in Conns : c # d => Kept(c)
  BY <1>0, <1>1 DEF Types, Kept
<1>6. thread'[d] = "read"
  BY <1>0 DEF Types
<1>7. ASSUME Live(d) PROVE Linked(d)' /\ (clean' => Faithful(d)')
  <2>1. Linked(d) /\ (clean => Faithful(d))
    BY <1>2, <1>7 DEF PubInv, ConnInv
  <2>2. p /\ chan'[d] = IF q = <<>> THEN chan[d] ELSE Append(chan[d], q)
    BY <1>0, <1>1, <1>7, <2>1 DEF Linked, Live, PConnAfterWrite, ChanAfterWrite, FlushedChan, Types
  <2>3. n \in Nat /\ n - Len(q) \in Nat /\ n - Len(q) <= n
    BY <1>0, <1>2, <2>1 DEF Linked, Types
  <2>4. Numbered(got, chan[d], n - Len(q)) /\ Part(q, n - Len(q), n)
    BY <2>1 DEF Linked
  <2>5. Numbered(got, chan'[d], n)
    <3>1. CASE q = <<>>
      <4>1. n - Len(q) = n
        BY <2>3, <3>1, EmptySeq
      <4> QED
        BY <2>2, <2>4, <3>1, <4>1
    <3>2. CASE q # <<>>
      <4>1. q \in Messages
        BY <1>2, <3>2 DEF Messages
      <4>2. Numbered(got, Append(chan[d], q), n)
        BY <1>2, <2>3, <2>4, <4>1, NumberedAppend
      <4> QED
        BY <2>2, <3>2, <4>2
    <3> QED
      BY <3>1, <3>2
  <2>6. Linked(d)'
    <3>1. Len(<<>>) = 0 /\ n - 0 = n /\ 0 <= n /\ n' = n
      BY <1>0, <2>3
    <3>2. Part(<<>>, n, n)
      BY <2>3, <3>1 DEF Part
    <3> QED
      BY <1>0, <1>3, <1>6, <2>2, <2>5, <3>1, <3>2, LinkedNext
  <2>7. ASSUME clean' PROVE Faithful(d)'
    <3>1. Faithful(d) /\ Len(q) <= 1 /\ tbl \in Contents /\ tbl' = tbl
      BY <1>0, <1>c, <2>1, <2>7, SameTable, Tables DEF Types, TableOf, PubInv
    <3>2. PICK g \in Contents : Leads(rtbl, chan[d], {g}) /\ Sent(tbl, blk, q, {}, {}, <<>>, g)
      BY <1>0, <1>e, <3>1 DEF Faithful
    <3>6. /\ \A k \in Keys : g[k] # None => Fits(tbl, q, k, g[k])
          /\ \A k \in Keys : Needed(tbl, q, k) => g[k] # None
      <4>1. 1..Len(<<>>) = {}
        OBVIOUS
      <4> QED
        BY <3>2, <4>1 DEF Sent
    <3>3. Base(tbl, blk, del, q)
      BY <1>0, <3>1 DEF Faithful
    <3>4. CASE q = <<>>
      <4>1. \A j \in Keys : g[j] = tbl[j]
        <5>1. Len(q) # 1
          BY <3>4
        <5> QED
          BY <3>6, <5>1 DEF Fits, Needed
      <4>2. g = tbl
        BY <3>1, <4>1 DEF Contents
      <4> QED
        BY <1>0, <1>6, <2>2, <3>1, <3>2, <3>4, <4>2, FaithfulNext
    <3>5. CASE q # <<>>
      <4>1. Len(q) = 1
        BY <1>2, <3>1, <3>5, ShortSeq
      <4>2. Change(q[1]) /\ tbl[q[1].key] = q[1].val
        BY <3>3, <4>1 DEF Base
      <4>3. Settles(q[1], g[q[1].key]) /\ \A j \in Keys : j # q[1].key => tbl[j] = g[j]
        <5>1. q[1].key \in Keys
          BY <4>2 DEF Change
        <5>2. ASSUME g[q[1].key] = None PROVE Settles(q[1], None)
          BY <3>6, <4>1, <4>2, <5>1, <5>2 DEF Needed, Settles, Change
        <5>3. ASSUME g[q[1].key] # None PROVE Settles(q[1], g[q[1].key])
          BY <3>6, <4>1, <5>1, <5>3 DEF Fits
        <5>4. \A j \in Keys : j # q[1].key => tbl[j] = g[j]
          BY <3>6, <4>1 DEF Fits, Needed
        <5> QED
          BY <5>2, <5>3, <5>4
      <4>4. g \in Contents /\ tbl \in Contents
        BY <3>1
      <4>5. Applied(q[1], {g}) = {tbl}
        BY ONLY <4>2, <4>3, <4>4, AppliedSettles
      <4>6. Leads(rtbl, Append(chan[d], q), {tbl})
        <5>1. q \in Messages /\ {tbl} \in SUBSET Contents
          BY <1>2, <3>5, <4>4 DEF Messages
        <5> QED
          BY <1>2, <3>2, <4>1, <4>5, <5>1, LeadsAppend
      <4> QED
        BY <1>0, <1>6, <2>2, <3>1, <3>5, <4>6, FaithfulNext
    <3> QED
      BY <3>4, <3>5
  <2> QED
    BY <2>6, <2>7
<1>8. clean' => clean
  BY <1>c
<1> QED
  BY <1>0, <1>e, <1>4, <1>5, <1>6, <1>7, <1>8, ThreadStep

-------------------------------------------------------------------------------
(* The replica, and failures.                                               *)

\* A step after which no subscribed connection is read.
LEMMA NobodyReads ==
    ASSUME Types', OneRow', Fresh', \A c \in Conns : ~(Live(c)' /\ (c \in Subscribed)')
    PROVE  PubInv'
BY DEF PubInv, ConnInv

LEMMA ConnectStep == ASSUME PubInv, NEW d \in Conns, Connect(d) PROVE PubInv'
<1>0. /\ Types /\ Fresh /\ thread[d] = "none" /\ thread' = [thread EXCEPT ![d] = "accepted"] /\ poll' = d
      /\ UNCHANGED <<blk, del, trans, left, found, res, sub, chan, rtbl, n, got>>
  BY DEF Connect, PubInv, source, query
<1>1. Types'
  BY <1>0 DEF Types, Places, RowTypes
<1>o. OneRow'
  BY <1>0, SourceTypes DEF PubInv
<1>2. thread'[d] = "accepted" /\ \A c \in Conns : c # d => thread'[c] = thread[c]
  BY <1>0 DEF Types
<1>3. \A c \in Conns : (c \in Subscribed)' <=> c \in Subscribed
  BY <1>0, <1>2 DEF Subscribed
<1>4. Fresh'
  BY <1>0, <1>2, <1>3 DEF Fresh
<1>5. \A c \in Conns : ~(Live(c)' /\ (c \in Subscribed)')
  BY <1>0, <1>2 DEF Live, Subscribed
<1> QED
  BY <1>1, <1>4, <1>5, <1>o, NobodyReads

LEMMA ReconnectStep == ASSUME PubInv, NEW d \in Conns, Reconnect(d) PROVE PubInv'
<1>0. /\ Types /\ Fresh /\ poll' = 0 /\ got' = 0
      /\ UNCHANGED <<blk, del, trans, left, found, res, thread, sub, chan, rtbl, n>>
  BY DEF Reconnect, PubInv, source, server, query
<1>1. Types' /\ OneRow' /\ Fresh'
  BY <1>0, SourceTypes DEF PubInv, Types, Fresh, Subscribed
<1>2. \A c \in Conns : ~(Live(c)' /\ (c \in Subscribed)')
  BY <1>0 DEF Live, Conns
<1> QED
  BY <1>1, <1>2, NobodyReads

\* Connection d loses messages, and what its subscriber has of others.
LEMMA LosesMessages ==
    ASSUME Types, OneRow, Fresh, NEW d \in Conns, NEW i \in 0..Len(chan[d]), got' \in Nat,
           chan' = [chan EXCEPT ![d] = SubSeq(chan[d], 1, i)],
           Forget(d), UNCHANGED <<blk, del, trans, thread, rtbl, n>>
    PROVE  /\ Types' /\ OneRow' /\ Fresh'
           /\ \A c \in Conns : c # d => Kept(c)
<1>1. /\ sub' = [sub EXCEPT ![d] = [sub[d] EXCEPT !.cud_cache = <<>>]]
      /\ left' = [left EXCEPT ![d] = {}] /\ found' = [found EXCEPT ![d] = {}]
      /\ res' = [res EXCEPT ![d] = <<>>]
  BY SubTypes, EmptySeq DEF Forget
<1>2. [sub[d] EXCEPT !.cud_cache = <<>>] \in Subs /\ [sub[d] EXCEPT !.cud_cache = <<>>].bSync = sub[d].bSync
  BY SubTypes, EmptySeq
<1>3. chan[d] \in Seq(Messages) /\ Len(chan[d]) \in Nat
  BY ChanTypes
<1>4. SubSeq(chan[d], 1, i) \in Seq(Messages)
  BY <1>3
<1>5. chan[d] = <<>> => SubSeq(chan[d], 1, i) = <<>>
  <2>1. chan[d] = <<>> => i = 0
    BY EmptySeq
  <2>2. SubSeq(chan[d], 1, 0) = <<>>
    BY <1>3
  <2> QED
    BY <2>1, <2>2
<1>6. Types'
  <2>1. <<>> \in Seq(Keys \X Vals)
    BY EmptySeq
  <2> QED
    BY <1>1, <1>2, <1>4, <2>1 DEF Types, RowTypes
<1>7. \A c \in Conns : c # d => Kept(c)
  BY <1>1 DEF Types, Kept
<1>8. /\ sub'[d].bSync = sub[d].bSync /\ chan'[d] = SubSeq(chan[d], 1, i)
      /\ left'[d] = {} /\ found'[d] = {} /\ res'[d] = <<>>
  BY <1>1, <1>2 DEF Types
<1>9. Fresh'
  BY <1>5, <1>7, <1>8 DEF Fresh, Subscribed, Kept
<1> QED
  BY <1>6, <1>7, <1>9, SourceTypes

LEMMA ShortReadStep == ASSUME PubInv, NEW d \in Conns, ShortRead(d) PROVE PubInv'
<1>0. /\ Types /\ OneRow /\ Fresh /\ poll' = 0 /\ got' = 0 /\ chan' = [chan EXCEPT ![d] = <<>>]
      /\ Forget(d) /\ UNCHANGED <<blk, del, trans, thread, rtbl, n>>
  BY DEF ShortRead, PubInv, source
<1>1. chan[d] \in Seq(Messages) /\ 0 \in 0..Len(chan[d]) /\ SubSeq(chan[d], 1, 0) = <<>>
  BY <1>0, ChanTypes
<1>2. Types' /\ OneRow' /\ Fresh'
  BY <1>0, <1>1, LosesMessages
<1>3. \A c \in Conns : ~(Live(c)' /\ (c \in Subscribed)')
  BY <1>0 DEF Live, Conns
<1> QED
  BY <1>2, <1>3, NobodyReads

LEMMA BreakStep == ASSUME PubInv, NEW d \in Conns, Break(d) PROVE PubInv'
<1>0. /\ Types /\ OneRow /\ Fresh /\ up' = up \ {d} /\ Forget(d)
      /\ UNCHANGED <<blk, del, trans, thread, poll, rtbl, n, got>> /\ got \in Nat
  BY DEF Break, PubInv, Types, source, replica
<1>c. clean' = clean
  BY Zenon DEF Break
<1>1. PICK i \in 0..Len(chan[d]) : chan' = [chan EXCEPT ![d] = SubSeq(chan[d], 1, i)]
  BY <1>0 DEF Break, Types
<1>2. /\ Types' /\ OneRow' /\ Fresh'
      /\ \A c \in Conns : c # d => Kept(c)
  BY <1>0, <1>1, LosesMessages
<1>3. ASSUME NEW c \in Conns, Live(c)', (c \in Subscribed)' PROVE Linked(c)' /\ (clean' => Faithful(c)')
  <2>1. c # d /\ Live(c) /\ c \in Subscribed
    BY <1>0, <1>3 DEF Live, Subscribed
  <2>2. clean' => clean
    BY <1>c
  <2> QED
    BY <1>0, <1>2, <2>1, <2>2, OtherConn
<1> QED
  BY <1>2, <1>3 DEF PubInv, ConnInv

\* A statement leaves tables.
LEMMA AppliedTypes ==
    ASSUME NEW s \in Stmts, NEW T \in SUBSET Contents
    PROVE  Applied(s, T) \in SUBSET Contents
BY DEF Applied, Stmts, Contents, Cells

\* The replica has the number of what it took, ...
LEMMA LastOfPart ==
    ASSUME NEW m \in Messages, NEW a \in Nat, NEW b \in Nat, Part(m, a, b)
    PROVE  (IF Last(m).num = 0 THEN a ELSE Last(m).num) = b
<1>1. m \in Seq(Stmts) /\ Len(m) \in Nat \ {0} /\ Last(m) = m[Len(m)] /\ DOMAIN m = 1..Len(m)
  BY EmptySeq DEF Messages, Last
<1>2. CASE Len(m) = 1 /\ m[1].num = 0 /\ b = a
  BY <1>1, <1>2
<1>3. CASE b = a + Len(m) /\ \A j \in DOMAIN m : m[j].num = a + j
  <2>1. Len(m) \in DOMAIN m
    BY <1>1
  <2> QED
    BY <1>1, <1>3, <2>1
<1> QED
  BY <1>2, <1>3 DEF Part

LEMMA ShownOne == ASSUME NEW m, Len(m) = 1 PROVE ~(Shown(m) > 1)
<1>1. ~(Len(m) > 1)
  OBVIOUS
<1> QED
  BY <1>1 DEF Shown

\* ... and what the rest of them leads to.
LEMMA PollStep == ASSUME PubInv, NEW d \in Conns, Poll(d) PROVE PubInv'
<1> DEFINE m == Head(chan[d])
<1>0. /\ Types /\ Fresh /\ poll = d /\ chan[d] # <<>> /\ Exec(m)
      /\ chan' = [chan EXCEPT ![d] = Tail(chan[d])]
      /\ got' = IF Last(m).num = 0 THEN got ELSE Last(m).num
      /\ UNCHANGED <<blk, del, trans, left, found, res, sub, thread, up, poll, n, clean>>
  BY DEF Poll, PubInv, source, server, query, Types
<1>1. chan[d] \in Seq(Messages) /\ m \in Messages /\ Tail(chan[d]) \in Seq(Messages)
  BY <1>0, ChanTypes
<1>2. m \in Seq(Stmts) /\ m[1] \in Stmts /\ Last(m).num \in Nat
  <2>1. m \in Seq(Stmts) /\ Len(m) \in Nat \ {0}
    BY <1>1, EmptySeq DEF Messages
  <2>2. m[1] \in Stmts /\ m[Len(m)] \in Stmts /\ Last(m) = m[Len(m)]
    BY <2>1 DEF Last
  <2> QED
    BY <2>1, <2>2 DEF Stmts
<1>3. Applied(m[1], rtbl) \in SUBSET Contents
  BY <1>0, <1>2, AppliedTypes DEF Types
<1>4. rtbl' \subseteq Contents
  BY <1>0, <1>3, ApplyIs DEF Exec, Types
<1>5. Types'
  <2>1. got' \in Nat
    BY <1>0, <1>2 DEF Types
  <2> QED
    BY <1>0, <1>1, <1>4, <2>1 DEF Types, RowTypes
<1>o. OneRow' /\ tbl' = tbl
  BY <1>0, SourceTypes DEF PubInv
<1>6. d \in Subscribed /\ chan'[d] = Tail(chan[d]) /\ \A c \in Conns : c # d => chan'[c] = chan[c]
  BY <1>0 DEF Types, Fresh
<1>7. Fresh'
  BY <1>0, <1>6 DEF Fresh, Subscribed
<1>8. ASSUME NEW c \in Conns, Live(c)', (c \in Subscribed)' PROVE Linked(c)' /\ (clean' => Faithful(c)')
  <2>1. c = d /\ Live(d) /\ Linked(d) /\ (clean => Faithful(d))
    BY <1>0, <1>6, <1>8 DEF Live, PubInv, ConnInv
  <2> DEFINE b == n - Len(sub[d].cud_cache)
  <2>2. Numbered(got, chan[d], b)
    BY <2>1 DEF Linked
  <2> HIDE DEF b
  <2>3. PICK e \in Nat : got \in Nat /\ Part(m, got, e) /\ Numbered(e, Tail(chan[d]), b)
    BY <1>0, <1>1, <2>2, NumberedTail
  <2>4. got' = e
    BY <1>0, <1>1, <2>3, LastOfPart
  <2>5. Linked(d)'
    BY <1>0, <1>6, <2>1, <2>3, <2>4, LinkedNext DEF Linked, b
  <2>6. ASSUME clean' PROVE Faithful(d)'
    <3>1. Faithful(d)
      BY <1>0, <2>1, <2>6
    <3>2. ASSUME NEW U, Leads(rtbl, chan[d], U) PROVE Leads(rtbl', chan'[d], U)
      <4>1. Len(m) = 1 /\ Leads(Applied(m[1], rtbl), Tail(chan[d]), U)
        BY <1>0, <1>1, <3>2, LeadsTail
      <4>2. rtbl' = Applied(m[1], rtbl)
        <5>1. ~(Shown(m) > 1)
          BY <4>1, ShownOne
        <5>2. rtbl' = Apply(m[1])
          BY <1>0, <5>1 DEF Exec
        <5> QED
          BY <5>2, ApplyIs
      <4> QED
        BY <1>6, <4>1, <4>2
    <3> QED
      BY <1>0, <1>o, <3>1, <3>2, FaithfulNext DEF Faithful
  <2> QED
    BY <2>1, <2>5, <2>6
<1> QED
  BY <1>5, <1>7, <1>8, <1>o DEF PubInv, ConnInv

-------------------------------------------------------------------------------
(* The invariant, and what it is for.                                       *)

LEMMA InitPub == ASSUME Init PROVE PubInv
<1>1. NoSub \in Subs /\ ~NoSub.bSync
  BY EmptySeq DEF NoSub, Subs
<1>5. RowTypes /\ OneRow
  <2>1. blk \in [Rows -> Blocks] /\ del = {} /\ \A r \in Rows : blk[r].ctrl # "trans"
    BY DEF Init
  <2>2. \A q, r \in Rows : blk[q].ctrl # "free" /\ blk[q].key = blk[r].key => q = r
    BY BlockIs DEF Init
  <2>3. \A q, r \in Rows :
           blk[q].ctrl = "commit" /\ blk[r].ctrl = "commit" /\ blk[q].key = blk[r].key => q = r
    BY <2>2
  <2> QED
    BY <2>1, <2>2, <2>3 DEF RowTypes, OneRow
<1>2. Types
  BY <1>1, <1>5, EmptySeq DEF Init, Types, Places
<1>3. Fresh
  BY <1>1 DEF Init, Fresh
<1>4. \A c \in Conns : ~Live(c)
  BY DEF Init, Live
<1> QED
  BY <1>2, <1>3, <1>4, <1>5 DEF PubInv, ConnInv

LEMMA StepPub == ASSUME PubInv, [Next]_vars PROVE PubInv'
<1>1. CASE \E k \in Keys, v \in Vals : Insert(k, v) \/ Update(k, v)
  <2>1. PICK k \in Keys, v \in Vals : Insert(k, v) \/ Update(k, v)
    BY <1>1
  <2>2. v \in Cells
    BY DEF Cells
  <2>3. CASE Insert(k, v)
    BY <2>2, <2>3, WriteStep DEF Insert
  <2>4. CASE Update(k, v)
    BY <2>2, <2>4, WriteStep DEF Update
  <2> QED
    BY <2>1, <2>3, <2>4
<1>2. CASE \E k \in Keys : Delete(k)
  <2>1. PICK k \in Keys : Delete(k)
    BY <1>2
  <2>2. None \in Cells
    BY DEF Cells
  <2> QED
    BY <2>1, <2>2, WriteStep DEF Delete
<1>3. CASE Begin \/ Commit \/ CommitEnd \/ Rollback
  BY <1>3, TransStep, RollbackStep
<1>6. CASE \E r \in Rows : CommitNew(r) \/ CommitDel(r)
  BY <1>6, CommitNewStep, CommitDelStep
<1>4. CASE \E c \in Conns : Thread(c) \/ Replica(c) \/ ShortRead(c) \/ Break(c)
  <2>1. PICK c \in Conns : Thread(c) \/ Replica(c) \/ ShortRead(c) \/ Break(c)
    BY <1>4
  <2>2. CASE Thread(c)
    BY <2>2, SubscribeStep, CreateStep, SelectStep, FilterStep, CopyStep, SelectEndStep, RowStep,
       FlushStep, CloseStep DEF Thread
  <2>3. CASE Replica(c)
    BY <2>3, ConnectStep, PollStep, ReconnectStep DEF Replica
  <2> QED
    BY <2>1, <2>2, <2>3, ShortReadStep, BreakStep
<1>5. CASE UNCHANGED vars
  <2>1. /\ UNCHANGED <<blk, del, trans, left, found, res, sub, thread, chan, up, poll, rtbl, n, got>>
        /\ Types /\ OneRow /\ Fresh
    BY <1>5 DEF vars, source, server, query, replica, PubInv
  <2>2. clean' => clean
    BY <1>5, Zenon DEF vars
  <2>3. Types' /\ OneRow' /\ Fresh' /\ \A c \in Conns : Kept(c)
    BY <2>1, SourceTypes DEF Types, Fresh, Subscribed, Kept
  <2>4. ASSUME NEW c \in Conns, Live(c)', (c \in Subscribed)' PROVE Linked(c)' /\ (clean' => Faithful(c)')
    <3>1. Live(c) /\ c \in Subscribed
      BY <2>1, <2>4 DEF Live, Subscribed
    <3> QED
      BY <2>1, <2>2, <2>3, <3>1, OtherConn
  <2> QED
    BY <2>3, <2>4 DEF PubInv, ConnInv
<1> QED
  BY <1>1, <1>2, <1>3, <1>4, <1>5, <1>6 DEF Next

LEMMA PubInvariant == Spec => []PubInv
<1>1. Init => PubInv
  BY InitPub
<1>2. PubInv /\ [Next]_vars => PubInv'
  BY StepPub
<1> QED
  BY <1>1, <1>2, PTL DEF Spec

\* While a subscriber's connection works, the changes of the table that it has not
\* read are all under way, once each and in their order (xdb_subscribe_send2,
\* xdb_initial_sync): no matter how the statements, the snapshot and the flush of
\* cud_cache interleave.
THEOREM PubSubStream == Spec => []StreamComplete
<1>1. PubInv => StreamComplete
  <2> SUFFICES ASSUME PubInv, NEW c \in Subscribed, Live(c)
               PROVE  /\ {NumAt(c, p) : p \in Changes(c)} = (got + 1)..n
                      /\ \A p, q \in Changes(c) : Before(p, q) => NumAt(c, p) < NumAt(c, q)
    BY DEF StreamComplete
  <2> DEFINE q == sub[c].cud_cache
  <2>1. Types /\ c \in Conns /\ Linked(c)
    BY DEF PubInv, ConnInv, Subscribed
  <2>2. chan[c] \in Seq(Messages) /\ q \in Seq(Stmts) /\ Len(q) \in Nat /\ n \in Nat /\ got \in Nat
    BY <2>1, ChanTypes DEF Types
  <2>3. chan[c] \in Seq(Seq(Stmts))
    BY <2>2 DEF Messages
  <2>4. Stream(c) = Append(chan[c], q) /\ Stream(c) \in Seq(Seq(Stmts))
    BY <2>2, <2>3 DEF Stream
  <2>5. /\ Len(q) <= n /\ Part(q, n - Len(q), n) /\ Numbered(got, chan[c], n - Len(q))
        /\ n - Len(q) <= n
    BY <2>1, <2>2 DEF Linked
  <2>6. Numbered(got, Append(chan[c], q), n)
    BY <2>2, <2>3, <2>5, NumberedAppend
  <2> QED
    BY <2>1, <2>2, <2>4, <2>6, NumbersOnce
<1> QED
  BY <1>1, PubInvariant, PTL

\* A replica that has always kept track has the rows of the source when it has read
\* everything and the source has committed everything (xdb_initial_sync,
\* xdb_sql_select, xdb_trans_tbl_commit): whatever statements came between the steps
\* of the snapshot's SELECT and of the commits that walk beside it, but for a walk
\* that frees an old version the SELECT has found and not copied, or has still to
\* come to when it has passed by the new one.
THEOREM PubSubConverges == Spec => []Converges
<1>1. PubInv => Converges
  <2> SUFFICES ASSUME PubInv, NEW c \in Conns, Live(c), clean, sub[c].bSync, chan[c] = <<>>, Committed
               PROVE  rtbl = {tbl}
    BY DEF Converges
  <2>1. c \in Subscribed
    BY DEF PubInv, Fresh
  <2>2. Linked(c) /\ Faithful(c)
    BY <2>1 DEF PubInv, ConnInv
  <2>3. Leads(rtbl, <<>>, {tbl})
    BY <2>2 DEF Linked, Faithful
  <2> QED
    BY <2>3, LeadsNowhere
<1> QED
  BY <1>1, PubInvariant, PTL

===============================================================================
