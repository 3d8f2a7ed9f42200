---------------------------- MODULE XdbIndexProofs ----------------------------
(***************************************************************************)
(* Proofs about hash indexes (core/xdb_hash.c, core/xdb_index.c), for any  *)
(* number of rows, indexes, keys, slots and repairs: a query meets the     *)
(* rows of a key once each and no other, the links of a removal are those  *)
(* of a query, the counters agree with the chains, keys of a unique index  *)
(* stay unique.                                                            *)
(***************************************************************************)
EXTENDS XdbIndex, FiniteSetTheorems, SequenceTheorems, WellFoundedInduction, TLAPS

-------------------------------------------------------------------------------
(* A hash index that is whole.  home[r] says which list node r is in: -1 - s *)
(* for the chain of slot s, t for the siblings of t.  Along a list the ranks *)
(* fall, so it ends; lim is above all of them.                               *)

HashNode(B) == [next : B \union {0}, prev : Int, sibling : Int, hash : Nat]
HashType(B, x, c) ==
    x \in [slot : [0 .. c - 1 -> B \union {0}], node : [B -> HashNode(B)],
           slots : Int, tops : Int, rows : Int]

\* What leads to a list, and what its first member has in prev.
First(x, h) == IF h < 0 THEN x.slot[-1 - h] ELSE x.node[h].sibling
Mark(h) == IF h < 0 THEN h ELSE 0

\* Node r, which is in a list with members in L.
Linked(x, c, L, home, rank, r) ==
    LET n == x.node[r]
    IN  /\ n.next # 0 => /\ n.next \in L /\ home[n.next] = home[r] /\ rank[n.next] < rank[r]
                         /\ x.node[n.next].prev = r
        /\ \/ n.prev \in L /\ x.node[n.prev].next = r
           \/ First(x, home[r]) = r /\ n.prev = Mark(home[r])
        /\ IF home[r] < 0 THEN -1 - home[r] \in 0 .. c - 1
           ELSE n.sibling = IF n.prev = 0 THEN home[r] ELSE -1

\* Row r of the index, in a list or not.
Owning(x, U, L, key, home, r) ==
    LET n == x.node[r]
    IN  /\ IF home[r] < 0
           THEN n.sibling # 0 => n.sibling \in L /\ home[n.sibling] = r /\ x.node[n.sibling].prev = 0
           ELSE home[r] \in U /\ home[home[r]] < 0 /\ key[home[r]] = key[r]
        /\ n.hash = Hash[key[r]]

\* The slots of an index whose lists have the members L.
Slotted(x, c, L, home) ==
    /\ \A s \in 0 .. c - 1 : x.slot[s] # 0 =>
           x.slot[s] \in L /\ home[x.slot[s]] = -1 - s /\ x.node[x.slot[s]].prev = -1 - s
    /\ x.slots = Cardinality({s \in 0 .. c - 1 : x.slot[s] # 0})

Tops(U, home) == {r \in U : home[r] < 0}

\* The rows U are in the index under key, those of L in lists.
Shape(B, x, c, U, L, key, home, rank, lim) ==
    /\ HashType(B, x, c) /\ c \in Nat \ {0} /\ B \subseteq Nat \ {0}
    /\ L \subseteq U /\ U \subseteq B
    /\ home \in [U -> Int] /\ rank \in [U -> Nat] /\ lim \in Nat
    /\ \A r \in U : rank[r] < lim
    /\ \A r \in L : Linked(x, c, L, home, rank, r)
    /\ \A r \in U : Owning(x, U, L, key, home, r)
    /\ Slotted(x, c, L, home)
    /\ \A q, r \in Tops(U, home) : key[q] = key[r] => q = r

Counted(x, U, home) == x.rows = Cardinality(U) /\ x.tops = Cardinality(Tops(U, home))
Placed(c, U, key, home) == \A r \in Tops(U, home) : home[r] = -1 - (Hash[key[r]] % c)

Whole(B, x, U, key) ==
    \E c \in Nat \ {0}, home \in [U -> Int], rank \in [U -> Nat], lim \in Nat :
        Shape(B, x, c, U, U, key, home, rank, lim) /\ Counted(x, U, home) /\ Placed(c, U, key, home)

-------------------------------------------------------------------------------
(* Chains.                                                                  *)

\* A set of numbers has a least one.
LEMMA LeastNumber ==
    ASSUME NEW S, S \subseteq Nat, S # {}
    PROVE  \E m \in S : \A k \in S : m <= k
<1>1. PICK m \in S : \A k \in S : <<k, m>> \notin OpToRel(<, Nat)
  BY NatLessThanWellFounded, WFMin, Zenon
<1>2. ASSUME NEW k \in S PROVE ~(k < m)
  <2>1. k \in Nat /\ m \in Nat
    OBVIOUS
  <2> QED
    BY <1>1, <2>1 DEF OpToRel
<1>3. ASSUME NEW k \in S PROVE m <= k
  <2>1. k \in Nat /\ m \in Nat /\ ~(k < m)
    BY ONLY <1>2, S \subseteq Nat
  <2> QED
    BY ONLY <2>1
<1> QED
  BY ONLY <1>3

\* The way along next from node r, told N nodes far.
Way(N, x, r, w) ==
    [n \in 1 .. N |-> IF n = 1 THEN r ELSE IF w[n - 1] = 0 THEN 0 ELSE x.node[w[n - 1]].next]
Met(N, w) == {n \in 1 .. N : w[n] # 0}

Room == Cardinality(DOMAIN row) + 1
LEMMA ChainDef ==
    \A x, r :
        Chain(x, r) = [m \in 1 .. Cardinality(Met(Room, CHOOSE w : w = Way(Room, x, r, w)))
                          |-> (CHOOSE w : w = Way(Room, x, r, w))[m]]
BY Zenon DEF Chain, Way, Met, Room

LEMMA WayIs ==
    ASSUME NEW x, NEW r, NEW N \in Nat
    PROVE  \E w : w = Way(N, x, r, w)
<1> DEFINE Bad == {m \in 0 .. N : ~\E w : w = Way(m, x, r, w)}
<1>1. SUFFICES ASSUME Bad # {} PROVE FALSE
  <2>1. N \in 0 .. N
    OBVIOUS
  <2> QED
    BY <1>1, <2>1
<1>2. PICK m \in Bad : \A k \in Bad : m <= k
  <2>1. Bad \subseteq Nat
    OBVIOUS
  <2> HIDE DEF Bad
  <2> QED
    BY <1>1, <2>1, LeastNumber
<1>3. m \in 0 .. N /\ ~\E w : w = Way(m, x, r, w)
  BY <1>2
<1>4. m # 0
  <2>1. \A w : Way(0, x, r, w) = [n \in 1 .. 0 |-> 0]
    BY DEF Way
  <2> QED
    BY <1>3, <2>1
<1>5. m - 1 \in 0 .. N /\ m - 1 \notin Bad
  BY <1>2, <1>3, <1>4
<1>6. PICK v : v = Way(m - 1, x, r, v)
  BY <1>5
<1> DEFINE e == IF m = 1 THEN r ELSE IF v[m - 1] = 0 THEN 0 ELSE x.node[v[m - 1]].next
           w == [n \in 1 .. m |-> IF n = m THEN e ELSE v[n]]
<1>7. ASSUME NEW n \in 1 .. m
      PROVE  w[n] = IF n = 1 THEN r ELSE IF w[n - 1] = 0 THEN 0 ELSE x.node[w[n - 1]].next
  <2>1. n # 1 => n - 1 \in 1 .. m /\ n - 1 # m /\ w[n - 1] = v[n - 1]
    BY <1>3
  <2>2. CASE n = m
    <3>1. w[n] = e
      BY <2>2
    <3> HIDE DEF w
    <3> QED
      BY <2>1, <2>2, <3>1
  <2>3. CASE n # m
    <3>1. w[n] = v[n] /\ n \in 1 .. (m - 1)
      BY <2>3, <1>3
    <3>2. v[n] = IF n = 1 THEN r ELSE IF v[n - 1] = 0 THEN 0 ELSE x.node[v[n - 1]].next
      BY <1>6, <3>1 DEF Way
    <3> HIDE DEF w
    <3> QED
      BY <2>1, <3>1, <3>2
  <2> QED
    BY <2>2, <2>3
<1>8. w = Way(m, x, r, w)
  <2>1. w = [n \in 1 .. m |-> w[n]]
    OBVIOUS
  <2> HIDE DEF w
  <2> QED
    BY <1>7, <2>1 DEF Way
<1> QED
  BY <1>3, <1>8

\* A set M of nodes in which next leads from node r to each member, by falling
\* ranks; and the sequence of its members, as next leads to them.
Strung(x, M, r, rank, lim) ==
    /\ lim \in Nat
    /\ 0 \notin M /\ IF r = 0 THEN M = {} ELSE r \in M
    /\ \A q \in M : /\ rank[q] \in Nat /\ rank[q] < lim
                    /\ x.node[q].next # 0 => x.node[q].next \in M /\ rank[x.node[q].next] < rank[q]
                    /\ q = r \/ \E p \in M : x.node[p].next = q
Visits(x, M, r, seq) ==
    \E k \in Nat :
        /\ seq \in [1 .. k -> M]
        /\ \A m, n \in 1 .. k : seq[m] = seq[n] => m = n
        /\ \A q \in M : \E n \in 1 .. k : seq[n] = q
        /\ \A n \in 1 .. k : seq[n] = IF n = 1 THEN r ELSE x.node[seq[n - 1]].next

\* What the way meets are members, of falling rank, and then nothing.
LEMMA WayFalls ==
    ASSUME NEW x, NEW M, NEW r, NEW rank, NEW lim, Strung(x, M, r, rank, lim),
           NEW N \in Nat \ {0}, NEW w, w = Way(N, x, r, w)
    PROVE  /\ \A n \in 1 .. N : w[n] \in M \union {0}
           /\ \A m, n \in 1 .. N : m < n /\ w[n] # 0 => w[m] # 0 /\ rank[w[n]] < rank[w[m]]
<1>1. \A n \in 1 .. N :
          w[n] = IF n = 1 THEN r ELSE IF w[n - 1] = 0 THEN 0 ELSE x.node[w[n - 1]].next
  BY DEF Way
<1>2. \A n \in 1 .. N : w[n] \in M \union {0}
  <2> DEFINE Bad == {n \in 1 .. N : w[n] \notin M \union {0}}
  <2>1. SUFFICES ASSUME Bad # {} PROVE FALSE
    OBVIOUS
  <2>2. PICK m \in Bad : \A k \in Bad : m <= k
    <3>1. Bad \subseteq Nat
      OBVIOUS
    <3> HIDE DEF Bad
    <3> QED
      BY <2>1, <3>1, LeastNumber
  <2>3. m \in 1 .. N /\ w[m] \notin M \union {0}
    BY <2>2
  <2>4. m # 1
    BY <1>1, <2>3 DEF Strung
  <2>5. m - 1 \in 1 .. N /\ m - 1 \notin Bad
    BY <2>2, <2>3, <2>4
  <2>6. w[m - 1] \in M \union {0}
    BY <2>5
  <2>7. w[m] = IF w[m - 1] = 0 THEN 0 ELSE x.node[w[m - 1]].next
    BY <1>1, <2>3, <2>4
  <2> QED
    BY <2>3, <2>6, <2>7 DEF Strung
<1>3. ASSUME NEW m \in 1 .. N, NEW n \in 1 .. N, m < n, w[n] # 0
      PROVE  w[m] # 0 /\ rank[w[n]] < rank[w[m]]
  <2> DEFINE Bad == {k \in 1 .. N : m < k /\ w[k] # 0 /\ ~(w[m] # 0 /\ rank[w[k]] < rank[w[m]])}
  <2>1. SUFFICES ASSUME Bad # {} PROVE FALSE
    BY <1>3
  <2>2. PICK k \in Bad : \A j \in Bad : k <= j
    <3>1. Bad \subseteq Nat
      OBVIOUS
    <3> HIDE DEF Bad
    <3> QED
      BY <2>1, <3>1, LeastNumber
  <2>3. k \in 1 .. N /\ m < k /\ w[k] # 0 /\ ~(w[m] # 0 /\ rank[w[k]] < rank[w[m]])
    BY <2>2
  <2>4. k # 1 /\ k - 1 \in 1 .. N /\ k - 1 \notin Bad
    BY <2>2, <2>3
  <2>5. w[k - 1] # 0 /\ w[k] = x.node[w[k - 1]].next
    BY <1>1, <2>3, <2>4
  <2>6. w[k - 1] \in M /\ w[m] \in M \union {0}
    BY <1>2, <2>4, <2>5
  <2>7. w[k] \in M /\ rank[w[k]] < rank[w[k - 1]] /\ rank[w[k - 1]] \in Nat /\ rank[w[k]] \in Nat
    BY <2>3, <2>5, <2>6 DEF Strung
  <2>8. CASE k - 1 = m
    BY <2>3, <2>5, <2>7, <2>8
  <2>9. CASE k - 1 # m
    <3>1. m < k - 1
      BY <2>3, <2>9
    <3>2. w[m] # 0 /\ rank[w[k - 1]] < rank[w[m]]
      BY <2>4, <2>5, <3>1
    <3>3. rank[w[m]] \in Nat
      BY <2>6, <3>2 DEF Strung
    <3> QED
      BY <2>3, <2>7, <3>2, <3>3
  <2> QED
    BY <2>8, <2>9
<1> QED
  BY <1>2, <1>3

\* Chain is the sequence of the members.
LEMMA ChainVisits ==
    ASSUME NEW x, NEW M, NEW r, NEW rank, NEW lim, Strung(x, M, r, rank, lim),
           IsFiniteSet(DOMAIN row), M \subseteq DOMAIN row
    PROVE  Visits(x, M, r, Chain(x, r))
<1> DEFINE D == DOMAIN row
           N == Room
           w == CHOOSE v : v = Way(N, x, r, v)
<1>1. N \in Nat \ {0} /\ Cardinality(D) \in Nat /\ N = Cardinality(D) + 1
  BY FS_CardinalityType DEF Room
<1>2. w = Way(N, x, r, w)
  BY <1>1, WayIs
<1>3. Chain(x, r) = [m \in 1 .. Cardinality(Met(N, w)) |-> w[m]]
  BY ChainDef
<1> HIDE DEF w, N
<1>4. /\ \A n \in 1 .. N : w[n] \in M \union {0}
      /\ \A m, n \in 1 .. N : m < n /\ w[n] # 0 => w[m] # 0 /\ rank[w[n]] < rank[w[m]]
  BY <1>1, <1>2, WayFalls
<1>5. \A n \in 1 .. N :
          w[n] = IF n = 1 THEN r ELSE IF w[n - 1] = 0 THEN 0 ELSE x.node[w[n - 1]].next
  BY <1>2 DEF Way
<1>6. \A m, n \in 1 .. N : w[m] = w[n] /\ w[m] # 0 => m = n
  <2>1. ASSUME NEW m \in 1 .. N, NEW n \in 1 .. N, m < n, w[m] = w[n], w[m] # 0
        PROVE  FALSE
    BY <1>4, <2>1 DEF Strung
  <2> QED
    BY <1>1, <2>1
<1>7. \E n \in 1 .. N : w[n] = 0
  <2>1. SUFFICES ASSUME \A n \in 1 .. N : w[n] # 0 PROVE FALSE
    OBVIOUS
  <2>2. IsFiniteSet(1 .. N) /\ Cardinality(1 .. N) = N
    BY <1>1, FS_Interval
  <2> DEFINE v == [n \in 1 .. N |-> w[n]]
  <2>3. v \in [1 .. N -> D]
    BY <1>4, <2>1
  <2>4. \E m, n \in 1 .. N : m # n /\ v[m] = v[n]
    <3> HIDE DEF v, D
    <3>1. Cardinality(D) < Cardinality(1 .. N)
      BY <1>1, <2>2
    <3> QED
      BY <1>1, <2>2, <2>3, <3>1, FS_PigeonHole DEF D
  <2> QED
    BY <1>6, <2>1, <2>4
<1>8. PICK z \in 1 .. N : w[z] = 0 /\ \A n \in 1 .. N : w[n] = 0 => z <= n
  <2> DEFINE S == {n \in 1 .. N : w[n] = 0}
  <2>1. S \subseteq Nat /\ S # {}
    BY <1>7
  <2>2. \E m \in S : \A k \in S : m <= k
    <3> HIDE DEF S
    <3> QED
      BY <2>1, LeastNumber
  <2> QED
    BY <2>2
<1> DEFINE k == z - 1
<1>9. k \in Nat /\ \A n \in 1 .. k : n \in 1 .. N /\ w[n] # 0
  BY <1>1, <1>8
<1>10. Met(N, w) = 1 .. k
  <2>1. ASSUME NEW n \in 1 .. N, w[n] # 0 PROVE n \in 1 .. k
    <3>1. ~(z < n)
      BY <1>4, <1>8, <2>1
    <3> QED
      BY <1>1, <1>8, <2>1, <3>1
  <2> QED
    BY <1>9, <2>1 DEF Met
<1>11. Cardinality(Met(N, w)) = k
  BY <1>9, <1>10, FS_Interval
<1> DEFINE ch == [m \in 1 .. k |-> w[m]]
<1>12. Chain(x, r) = ch /\ \A m \in 1 .. k : ch[m] = w[m] /\ ch[m] \in M /\ ch[m] # 0
  BY <1>3, <1>4, <1>9, <1>11
<1>13. ch \in [1 .. k -> M]
  BY <1>12
<1> HIDE DEF ch
<1>14. \A n \in 1 .. k : ch[n] = IF n = 1 THEN r ELSE x.node[ch[n - 1]].next
  <2> TAKE n \in 1 .. k
  <2>1. n # 1 => n - 1 \in 1 .. k
    BY <1>9
  <2> QED
    BY <1>5, <1>9, <1>12, <2>1
<1>15. \A m, n \in 1 .. k : ch[m] = ch[n] => m = n
  BY <1>6, <1>9, <1>12
<1>16. \A q \in M : \E n \in 1 .. k : ch[n] = q
  <2> DEFINE Missed == {q \in M : \A n \in 1 .. k : ch[n] # q}
  <2>1. SUFFICES ASSUME Missed # {} PROVE FALSE
    OBVIOUS
  <2>2. M # {} /\ r # 0
    BY <2>1 DEF Strung
  <2>3. k # 0 /\ 1 \in 1 .. k /\ ch[1] = r
    <3>1. w[1] = r
      BY <1>1, <1>5
    <3>2. z # 1
      BY <1>8, <2>2, <3>1
    <3> QED
      BY <1>8, <1>12, <3>1, <3>2
  <2> DEFINE Gaps == {lim - rank[q] : q \in Missed}
  <2>4. lim \in Nat /\ \A q \in M : rank[q] \in Nat /\ rank[q] < lim
    BY DEF Strung
  <2>5. ASSUME NEW q \in Missed
        PROVE  \E p \in Missed : rank[q] < rank[p]
    <3>1. q \in M /\ q # r
      BY <2>3
    <3>2. PICK p \in M : x.node[p].next = q
      BY <3>1 DEF Strung
    <3>3. rank[q] < rank[p]
      BY <3>1, <3>2 DEF Strung
    <3>4. ASSUME NEW n \in 1 .. k, ch[n] = p PROVE FALSE
      <4>1. n + 1 \in 1 .. N /\ w[n + 1] = q
        <5>1. n \in 1 .. N /\ n + 1 \in 1 .. N /\ n + 1 # 1 /\ (n + 1) - 1 = n
          BY <1>1, <1>8, <1>9
        <5>2. w[n] = p /\ p # 0
          BY <1>12, <3>4
        <5> QED
          BY <1>5, <3>2, <5>1, <5>2
      <4>2. q # 0
        BY <3>1 DEF Strung
      <4>3. n + 1 \in 1 .. k
        <5>1. n + 1 # z
          BY <1>8, <4>1, <4>2
        <5> QED
          BY <1>8, <1>9, <5>1
      <4> QED
        BY <1>12, <4>1, <4>3
    <3> QED
      BY <3>3, <3>4
  <2>6. Gaps \subseteq Nat /\ Gaps # {}
    BY <2>1, <2>4
  <2>7. PICK g \in Gaps : \A h \in Gaps : g <= h
    <3> HIDE DEF Gaps
    <3> QED
      BY <2>6, LeastNumber
  <2>8. PICK q \in Missed : g = lim - rank[q]
    BY <2>7
  <2>9. PICK p \in Missed : rank[q] < rank[p]
    BY <2>5
  <2>10. g <= lim - rank[p]
    BY <2>7
  <2>11. lim \in Nat /\ rank[q] \in Nat /\ rank[p] \in Nat
    BY <2>4
  <2> QED
    BY ONLY <2>8, <2>9, <2>10, <2>11
<1>17. Visits(x, M, r, ch)
  <2>1. k \in Nat
    BY <1>9
  <2> HIDE DEF k
  <2> QED
    BY <2>1, <1>13, <1>14, <1>15, <1>16 DEF Visits
<1> QED
  BY <1>12, <1>17

-------------------------------------------------------------------------------
(* Queries.                                                                 *)

\* The members of the list at h.
Members(U, home, h) == {r \in U : home[r] = h}
IsHead(c, U, home, h) == \/ h \in Int /\ h < 0 /\ -1 - h \in 0 .. c - 1
                         \/ h \in Tops(U, home)

LEMMA ListStrung ==
    ASSUME NEW B, NEW x, NEW c, NEW U, NEW key, NEW home, NEW rank, NEW lim,
           Shape(B, x, c, U, U, key, home, rank, lim),
           NEW h, IsHead(c, U, home, h)
    PROVE  Strung(x, Members(U, home, h), First(x, h), rank, lim)
<1> DEFINE M == Members(U, home, h)
<1>1. /\ B \subseteq Nat \ {0} /\ U \subseteq B /\ lim \in Nat
      /\ home \in [U -> Int] /\ rank \in [U -> Nat] /\ \A r \in U : rank[r] < lim
      /\ \A r \in U : Linked(x, c, U, home, rank, r)
      /\ \A r \in U : Owning(x, U, U, key, home, r)
      /\ Slotted(x, c, U, home)
  BY DEF Shape
<1>2. 0 \notin M /\ \A q \in M : rank[q] \in Nat /\ rank[q] < lim
  BY <1>1 DEF Members
<1>3. ASSUME NEW q \in M, x.node[q].next # 0
      PROVE  x.node[q].next \in M /\ rank[x.node[q].next] < rank[q]
  BY <1>1, <1>3 DEF Members, Linked
<1>4. ASSUME NEW q \in M PROVE q = First(x, h) \/ \E p \in M : x.node[p].next = q
  <2>1. q \in U /\ home[q] = h /\ q # 0
    BY <1>1 DEF Members
  <2>2. CASE First(x, home[q]) = q
    BY <2>1, <2>2
  <2>3. CASE x.node[q].prev \in U /\ x.node[x.node[q].prev].next = q
    <3>1. home[q] = home[x.node[q].prev]
      BY <1>1, <2>1, <2>3 DEF Linked
    <3> QED
      BY <2>1, <2>3, <3>1 DEF Members
  <2> QED
    BY <1>1, <2>1, <2>2, <2>3 DEF Linked
<1>5. First(x, h) # 0 => First(x, h) \in M
  <2>1. CASE h \in Int /\ h < 0 /\ -1 - h \in 0 .. c - 1
    <3>1. First(x, h) = x.slot[-1 - h] /\ -1 - (-1 - h) = h
      BY <2>1 DEF First
    <3> QED
      BY <1>1, <2>1, <3>1 DEF Slotted, Members
  <2>2. CASE h \in Tops(U, home)
    <3>1. h \in U /\ home[h] < 0 /\ h \in Nat
      BY <1>1, <2>2 DEF Tops
    <3>2. First(x, h) = x.node[h].sibling
      BY <3>1 DEF First
    <3> QED
      BY <1>1, <3>1, <3>2 DEF Owning, Members
  <2> QED
    BY <2>1, <2>2 DEF IsHead
<1>6. First(x, h) = 0 => M = {}
  <2>1. SUFFICES ASSUME First(x, h) = 0, NEW q0 \in M PROVE FALSE
    OBVIOUS
  <2> DEFINE Gaps == {lim - rank[q] : q \in M}
  <2>2. Gaps \subseteq Nat /\ Gaps # {}
    BY <1>1, <1>2
  <2>3. PICK g \in Gaps : \A k \in Gaps : g <= k
    <3> HIDE DEF Gaps
    <3> QED
      BY <2>2, LeastNumber
  <2>4. PICK q \in M : g = lim - rank[q]
    BY <2>3
  <2>5. PICK p \in M : x.node[p].next = q
    BY <1>2, <1>4, <2>1
  <2>6. rank[q] < rank[p]
    BY <1>2, <1>3, <2>5
  <2>7. g <= lim - rank[p]
    BY <2>3
  <2>8. lim \in Nat /\ rank[q] \in Nat /\ rank[p] \in Nat
    BY <1>1, <1>2
  <2> QED
    BY ONLY <2>4, <2>6, <2>7, <2>8
<1> QED
  BY <1>1, <1>2, <1>3, <1>4, <1>5, <1>6 DEF Strung

\* The block ids of the table; what an index has under index id i.
Blocks == DOMAIN row
Keyed(i, U) == [r \in U |-> row[r][i]]

\* The list at a head, as Chain tells it.
LEMMA ListVisits ==
    ASSUME NEW x, NEW c, NEW U, NEW key, NEW home, NEW rank, NEW lim,
           Shape(Blocks, x, c, U, U, key, home, rank, lim), IsFiniteSet(Blocks),
           NEW h, IsHead(c, U, home, h)
    PROVE  Visits(x, Members(U, home, h), First(x, h), Chain(x, First(x, h)))
<1>1. Strung(x, Members(U, home, h), First(x, h), rank, lim)
  BY ListStrung
<1>2. Members(U, home, h) \subseteq DOMAIN row
  BY DEF Shape, Members, Blocks
<1> QED
  BY <1>1, <1>2, ChainVisits DEF Blocks

\* The first element of a sequence that is in S.
LEMMA FirstOfIs ==
    ASSUME NEW k \in Nat, NEW seq, DOMAIN seq = 1 .. k, NEW S
    PROVE  \/ FirstOf(seq, S) = 0 /\ \A n \in 1 .. k : seq[n] \notin S
           \/ \E n \in 1 .. k : FirstOf(seq, S) = seq[n] /\ seq[n] \in S
<1> DEFINE at == {n \in DOMAIN seq : seq[n] \in S}
<1>1. CASE at = {}
  BY <1>1 DEF FirstOf
<1>2. CASE at # {}
  <2>1. at \subseteq Nat
    OBVIOUS
  <2>2. \E m \in at : \A n \in at : m <= n
    <3> HIDE DEF at
    <3> QED
      BY <1>2, <2>1, LeastNumber
  <2>3. Min(at) \in at
    <3> HIDE DEF at
    <3> QED
      BY <2>2 DEF Min
  <2>4. FirstOf(seq, S) = seq[Min(at)]
    BY <1>2 DEF FirstOf
  <2> QED
    BY <2>3, <2>4
<1> QED
  BY <1>1, <1>2

\* The top node of a key is found, if there is one.
TopFound(x, i, U, home, k) ==
    \/ TopOf(x, i, k) = 0 /\ \A t \in Tops(U, home) : row[t][i] # k
    \/ TopOf(x, i, k) \in Tops(U, home) /\ row[TopOf(x, i, k)][i] = k

LEMMA TopIs ==
    ASSUME NEW i, NEW x, NEW c \in Nat \ {0}, NEW U, NEW home, NEW rank, NEW lim, NEW k,
           Shape(Blocks, x, c, U, U, Keyed(i, U), home, rank, lim), IsFiniteSet(Blocks),
           Placed(c, U, Keyed(i, U), home), U \subseteq Used, Hash[k] \in Nat
    PROVE  TopFound(x, i, U, home, k)
<1> DEFINE s == Hash[k] % c
           h == -1 - s
           M == Members(U, home, h)
           ch == Chain(x, SlotFor(x, k))
           S == {q \in DOMAIN row : x.node[q].hash = Hash[k] /\ KeyOf(i, q) = k}
<1>1. s \in 0 .. c - 1 /\ h \in Int /\ h < 0 /\ -1 - h = s
  OBVIOUS
<1>2. Cap(x) = c
  <2>1. DOMAIN x.slot = 0 .. c - 1
    BY DEF Shape, HashType
  <2> QED
    BY <2>1, FS_Interval DEF Cap
<1>3. First(x, h) = SlotFor(x, k)
  BY <1>1, <1>2 DEF First, SlotFor
<1>4. Visits(x, M, First(x, h), ch)
  <2>1. IsHead(c, U, home, h)
    BY <1>1 DEF IsHead
  <2> HIDE DEF h
  <2> QED
    BY <1>3, <2>1, ListVisits
<1>5. TopOf(x, i, k) = FirstOf(ch, S)
  BY DEF TopOf
<1>6. \A r \in U : r \in DOMAIN row /\ row[r] # Free /\ KeyOf(i, r) = row[r][i] /\ Keyed(i, U)[r] = row[r][i]
  BY DEF Used, KeyOf, Keyed
<1>7. \A r \in U : x.node[r].hash = Hash[row[r][i]]
  BY <1>6 DEF Shape, Owning
<1> HIDE DEF ch, S, h
<1>8. PICK n0 \in Nat :
          /\ ch \in [1 .. n0 -> M]
          /\ \A q \in M : \E n \in 1 .. n0 : ch[n] = q
  BY <1>4 DEF Visits
<1>9. \/ FirstOf(ch, S) = 0 /\ \A n \in 1 .. n0 : ch[n] \notin S
      \/ \E n \in 1 .. n0 : FirstOf(ch, S) = ch[n] /\ ch[n] \in S
  BY <1>8, FirstOfIs
<1>10. \A q \in M : q \in Tops(U, home)
  BY <1>1 DEF Members, Tops
<1>11. ASSUME NEW t \in Tops(U, home), row[t][i] = k PROVE t \in M /\ t \in S
  <2>1. t \in U /\ home[t] = -1 - (Hash[Keyed(i, U)[t]] % c)
    BY DEF Tops, Placed
  <2>2. home[t] = h
    BY <1>6, <1>11, <2>1 DEF h
  <2> QED
    BY <1>6, <1>7, <1>11, <2>1, <2>2 DEF Members, S
<1>12. \A q \in M : q \in S => row[q][i] = k
  BY <1>6 DEF Members, S
<1> QED
  BY <1>5, <1>8, <1>9, <1>10, <1>11, <1>12 DEF TopFound

\* A query of a hash index visits the rows of the key, each once.
LEMMA QueryIs ==
    ASSUME NEW i, i \notin trees, NEW x, NEW U, NEW k,
           Whole(Blocks, x, U, Keyed(i, U)), IsFiniteSet(Blocks), U \subseteq Used, Hash[k] \in Nat
    PROVE  /\ IsInjective(Query(x, i, k))
           /\ ToSet(Query(x, i, k)) = {r \in U : row[r][i] = k}
<1> DEFINE key == Keyed(i, U)
<1>0. PICK c \in Nat \ {0}, home \in [U -> Int], rank \in [U -> Nat], lim \in Nat :
          Shape(Blocks, x, c, U, U, key, home, rank, lim) /\ Placed(c, U, key, home)
  BY DEF Whole
<1>1. /\ Blocks \subseteq Nat \ {0} /\ U \subseteq Blocks
      /\ \A r \in U : Owning(x, U, U, key, home, r)
      /\ \A q, r \in Tops(U, home) : key[q] = key[r] => q = r
  BY <1>0 DEF Shape
<1>2. \A r \in U : key[r] = row[r][i]
  BY DEF Keyed
<1>3. \A r \in U : home[r] < 0 \/ (home[r] \in Tops(U, home) /\ row[home[r]][i] = row[r][i])
  BY <1>1, <1>2 DEF Owning, Tops
<1> DEFINE t == TopOf(x, i, k)
           q == Query(x, i, k)
<1>4. \/ t = 0 /\ \A u \in Tops(U, home) : row[u][i] # k
      \/ t \in Tops(U, home) /\ row[t][i] = k
  <2>1. Shape(Blocks, x, c, U, U, Keyed(i, U), home, rank, lim) /\ Placed(c, U, Keyed(i, U), home)
    BY <1>0
  <2>2. TopFound(x, i, U, home, k)
    BY <2>1, TopIs
  <2> QED
    BY <2>2 DEF TopFound
<1> HIDE DEF key
<1>5. q = IF t = 0 THEN <<>> ELSE <<t>> \o Siblings(x, t)
  BY DEF Query
<1>6. CASE t = 0
  <2>1. q = <<>>
    BY <1>5, <1>6
  <2>2. \A u \in Tops(U, home) : row[u][i] # k
    BY <1>1, <1>4, <1>6 DEF Tops
  <2>3. {r \in U : row[r][i] = k} = {}
    BY <1>3, <2>2 DEF Tops
  <2>4. IsInjective(<<>>) /\ ToSet(<<>>) = {}
    BY DEF IsInjective, ToSet
  <2> HIDE DEF q
  <2> QED
    BY <2>1, <2>3, <2>4 DEF q
<1>7. CASE t # 0
  <2>1. t \in Tops(U, home) /\ row[t][i] = k /\ t \in U /\ home[t] < 0 /\ t \in Nat
    BY <1>1, <1>4, <1>7 DEF Tops
  <2> DEFINE M == Members(U, home, t)
             sib == Siblings(x, t)
  <2>2. Visits(x, M, First(x, t), sib)
    <3>1. First(x, t) = x.node[t].sibling /\ IsHead(c, U, home, t)
      BY <2>1 DEF First, IsHead
    <3>2. sib = Chain(x, First(x, t))
      BY <3>1 DEF Siblings
    <3> QED
      BY <1>0, <3>1, <3>2, ListVisits
  <2> HIDE DEF sib, t
  <2>3. PICK n \in Nat :
            /\ sib \in [1 .. n -> M]
            /\ \A a, b \in 1 .. n : sib[a] = sib[b] => a = b
            /\ \A r \in M : \E a \in 1 .. n : sib[a] = r
    BY <2>2 DEF Visits
  <2>4. t \notin M /\ M \subseteq U
    BY <2>1 DEF Members
  <2>5. {r \in U : row[r][i] = k} = M \union {t}
    <3>1. ASSUME NEW r \in U, row[r][i] = k PROVE r \in M \union {t}
      <4>1. CASE home[r] < 0
        <5>1. r \in Tops(U, home) /\ key[r] = key[t]
          BY <1>2, <2>1, <3>1, <4>1 DEF Tops
        <5> QED
          BY <1>1, <2>1, <5>1
      <4>2. CASE ~(home[r] < 0)
        <5>1. home[r] \in Tops(U, home) /\ row[home[r]][i] = k /\ home[r] \in U
          BY <1>3, <3>1, <4>2 DEF Tops
        <5>2. key[home[r]] = key[t]
          BY <1>2, <2>1, <5>1
        <5>3. home[r] = t
          BY <1>1, <2>1, <5>1, <5>2
        <5> QED
          BY <5>3 DEF Members
      <4> QED
        BY <4>1, <4>2
    <3>2. ASSUME NEW r \in M PROVE row[r][i] = k /\ r \in U
      <4>1. r \in U /\ home[r] = t /\ ~(home[r] < 0)
        BY <2>1 DEF Members
      <4> QED
        BY <1>3, <2>1, <4>1
    <3> QED
      BY <2>1, <3>1, <3>2
  <2>6. /\ DOMAIN q = 1 .. (n + 1) /\ q[1] = t
        /\ \A a \in 1 .. n : q[a + 1] = sib[a]
    <3>1. sib \in Seq(M) /\ Len(sib) = n /\ <<t>> \in Seq(U) /\ Len(<<t>>) = 1
      BY <2>1, <2>3
    <3>2. sib \in Seq(U)
      BY <2>3, <2>4
    <3>3. q = <<t>> \o sib
      BY <1>5, <1>7 DEF sib
    <3> HIDE DEF q
    <3>4. Len(q) = 1 + n /\ q \in Seq(U)
      BY <3>1, <3>2, <3>3
    <3>5. \A a \in 1 .. 1 + n : q[a] = IF a <= 1 THEN t ELSE sib[a - 1]
      BY <3>1, <3>2, <3>3
    <3>6. \A a \in 1 .. n : a + 1 \in 1 .. 1 + n /\ ~(a + 1 <= 1) /\ (a + 1) - 1 = a
      OBVIOUS
    <3>7. DOMAIN q = 1 .. (n + 1) /\ 1 \in 1 .. 1 + n
      BY <3>4, LenProperties
    <3> QED
      BY <3>5, <3>6, <3>7
  <2> HIDE DEF q
  <2>7. \A a \in 1 .. (n + 1) : a = 1 \/ (a - 1 \in 1 .. n /\ q[a] = sib[a - 1])
    <3> TAKE a \in 1 .. (n + 1)
    <3>1. a = 1 \/ (a - 1 \in 1 .. n /\ (a - 1) + 1 = a)
      OBVIOUS
    <3> QED
      BY <2>6, <3>1
  <2>8. IsInjective(q)
    <3>1. ASSUME NEW a \in 1 .. (n + 1), NEW b \in 1 .. (n + 1), q[a] = q[b] PROVE a = b
      <4>1. a # 1 => q[a] \in M
        BY <2>3, <2>7
      <4>2. b # 1 => q[b] \in M
        BY <2>3, <2>7
      <4>3. a # 1 /\ b # 1 => a - 1 = b - 1
        BY <2>3, <2>7, <3>1
      <4> QED
        BY <2>4, <2>6, <3>1, <4>1, <4>2, <4>3
    <3> QED
      BY <2>6, <3>1 DEF IsInjective
  <2>9. ToSet(q) = M \union {t}
    <3>1. \A a \in 1 .. (n + 1) : q[a] \in M \union {t}
      BY <2>3, <2>6, <2>7
    <3>2. \A r \in M : \E a \in 1 .. (n + 1) : q[a] = r
      <4> TAKE r \in M
      <4>1. PICK a \in 1 .. n : sib[a] = r
        BY <2>3
      <4>2. a + 1 \in 1 .. (n + 1)
        OBVIOUS
      <4> QED
        BY <2>6, <4>1, <4>2
    <3>3. 1 \in 1 .. (n + 1)
      OBVIOUS
    <3> QED
      BY <2>6, <3>1, <3>2, <3>3 DEF ToSet
  <2> QED
    BY <2>5, <2>8, <2>9 DEF q
<1> QED
  BY <1>6, <1>7

-------------------------------------------------------------------------------
(* What a whole index is good for, beside queries.                          *)

LEMMA LinksAre ==
    ASSUME NEW x, NEW U, NEW key, Whole(Blocks, x, U, key), IsFiniteSet(Blocks)
    PROVE  HashLinks(x)
<1>0. PICK c \in Nat \ {0}, home \in [U -> Int], rank \in [U -> Nat], lim \in Nat :
          Shape(Blocks, x, c, U, U, key, home, rank, lim)
  BY DEF Whole
<1>1. /\ Blocks \subseteq Nat \ {0} /\ U \subseteq Blocks /\ DOMAIN x.slot = 0 .. c - 1
      /\ \A r \in U : Linked(x, c, U, home, rank, r) /\ Owning(x, U, U, key, home, r)
      /\ Slotted(x, c, U, home)
  BY <1>0 DEF Shape, HashType
<1>r. \A r \in U : r \in Nat /\ ~(r < 0)
  <2>1. U \subseteq Nat
    BY <1>1
  <2> QED
    BY <2>1
\* the nodes of one list, with the mark of its head in the first
<1>2. ASSUME NEW h, IsHead(c, U, home, h), NEW ch, ch = Chain(x, First(x, h)),
             NEW n \in DOMAIN ch
      PROVE  /\ ch[n] \in U /\ home[ch[n]] = h /\ ch[n] # 0
             /\ IF n = 1 THEN ch[n] = First(x, h) /\ x.node[ch[n]].prev = Mark(h)
                ELSE ch[n - 1] # 0 /\ x.node[ch[n]].prev = ch[n - 1]
  <2>1. Visits(x, Members(U, home, h), First(x, h), ch)
    BY <1>0, <1>2, ListVisits
  <2>2. PICK k \in Nat :
            /\ ch \in [1 .. k -> Members(U, home, h)]
            /\ \A m \in 1 .. k : ch[m] = IF m = 1 THEN First(x, h) ELSE x.node[ch[m - 1]].next
    BY <2>1 DEF Visits
  <2>3. n \in 1 .. k /\ (n # 1 => n - 1 \in 1 .. k)
    BY <1>2, <2>2
  <2>4. \A m \in 1 .. k : ch[m] \in U /\ home[ch[m]] = h /\ ch[m] # 0
    BY <1>1, <2>2 DEF Members
  <2>5. CASE n = 1
    <3>1. ch[n] = First(x, h)
      BY <2>2, <2>3, <2>5
    <3>2. First(x, h) # 0 => x.node[First(x, h)].prev = Mark(h)
      <4>1. CASE h \in Int /\ h < 0 /\ -1 - h \in 0 .. c - 1
        <5>1. First(x, h) = x.slot[-1 - h] /\ -1 - (-1 - h) = h
          BY <4>1 DEF First
        <5> QED
          BY <1>1, <4>1, <5>1 DEF Slotted, Mark
      <4>2. CASE h \in Tops(U, home)
        <5>1. h \in U /\ home[h] < 0 /\ ~(h < 0)
          BY <1>r, <4>2 DEF Tops
        <5>2. First(x, h) = x.node[h].sibling
          BY <5>1 DEF First
        <5> QED
          BY <1>1, <5>1, <5>2 DEF Owning, Mark
      <4> QED
        BY <1>2, <4>1, <4>2 DEF IsHead
    <3> QED
      BY <2>3, <2>4, <2>5, <3>1, <3>2
  <2>6. CASE n # 1
    <3>1. ch[n] = x.node[ch[n - 1]].next
      BY <2>2, <2>3, <2>6
    <3> QED
      BY <1>1, <2>3, <2>4, <2>6, <3>1 DEF Linked
  <2> QED
    BY <2>5, <2>6
<1>3. SUFFICES ASSUME NEW s \in DOMAIN x.slot, NEW n \in DOMAIN Chain(x, x.slot[s])
      PROVE  LET tops == Chain(x, x.slot[s])
                 sib == Siblings(x, tops[n])
             IN  /\ x.node[tops[n]].prev = IF n = 1 THEN SlotMark(s) ELSE tops[n - 1]
                 /\ \A m \in DOMAIN sib :
                        /\ x.node[sib[m]].prev = IF m = 1 THEN 0 ELSE sib[m - 1]
                        /\ x.node[sib[m]].sibling = IF m = 1 THEN tops[n] ELSE SibMark
  BY Zenon DEF HashLinks
<1> DEFINE tops == Chain(x, x.slot[s])
           sib == Siblings(x, tops[n])
           h == -1 - s
<1>4. s \in 0 .. c - 1 /\ h \in Int /\ h < 0 /\ -1 - h = s
  BY <1>1, <1>3
<1>5. IsHead(c, U, home, h) /\ First(x, h) = x.slot[s] /\ Mark(h) = SlotMark(s)
  BY <1>4 DEF IsHead, First, Mark, SlotMark
<1>6. /\ tops[n] \in U /\ home[tops[n]] = h
      /\ x.node[tops[n]].prev = IF n = 1 THEN SlotMark(s) ELSE tops[n - 1]
  <2>1. tops = Chain(x, First(x, h)) /\ n \in DOMAIN tops
    BY <1>5
  <2> HIDE DEF h, tops
  <2> QED
    BY <1>2, <1>5, <2>1
<1> DEFINE t == tops[n]
<1>7. IsHead(c, U, home, t) /\ First(x, t) = x.node[t].sibling /\ Mark(t) = 0
  <2>1. t \in U /\ home[t] < 0 /\ ~(t < 0)
    BY <1>r, <1>4, <1>6
  <2> QED
    BY <2>1 DEF IsHead, First, Mark, Tops
<1>8. sib = Chain(x, First(x, t))
  BY <1>7 DEF Siblings
<1> HIDE DEF t, h, sib, tops
<1>9. ASSUME NEW m \in DOMAIN sib
      PROVE  /\ x.node[sib[m]].prev = IF m = 1 THEN 0 ELSE sib[m - 1]
             /\ x.node[sib[m]].sibling = IF m = 1 THEN t ELSE SibMark
  <2>1. /\ sib[m] \in U /\ home[sib[m]] = t
        /\ IF m = 1 THEN x.node[sib[m]].prev = 0
           ELSE sib[m - 1] # 0 /\ x.node[sib[m]].prev = sib[m - 1]
    BY <1>2, <1>7, <1>8
  <2>2. ~(t < 0)
    BY <1>r, <1>6 DEF t
  <2>3. x.node[sib[m]].sibling = IF x.node[sib[m]].prev = 0 THEN t ELSE -1
    BY <1>1, <2>1, <2>2 DEF Linked
  <2> QED
    BY <2>1, <2>3 DEF SibMark, SlotMark
<1> QED
  BY <1>6, <1>9 DEF t, tops, sib

LEMMA CountsAre ==
    ASSUME NEW i, NEW x, NEW U, Whole(Blocks, x, U, Keyed(i, U)), IsFiniteSet(Blocks)
    PROVE  /\ x.rows = Cardinality(U)
           /\ x.tops = Cardinality({row[r][i] : r \in U})
           /\ x.slots = Cardinality({s \in DOMAIN x.slot : x.slot[s] # 0})
<1>0. PICK c \in Nat \ {0}, home \in [U -> Int], rank \in [U -> Nat], lim \in Nat :
          Shape(Blocks, x, c, U, U, Keyed(i, U), home, rank, lim) /\ Counted(x, U, home)
  BY DEF Whole
<1>1. /\ U \subseteq Blocks /\ DOMAIN x.slot = 0 .. c - 1
      /\ \A r \in U : Owning(x, U, U, Keyed(i, U), home, r)
      /\ \A q, r \in Tops(U, home) : Keyed(i, U)[q] = Keyed(i, U)[r] => q = r
      /\ x.slots = Cardinality({s \in 0 .. c - 1 : x.slot[s] # 0})
  BY <1>0 DEF Shape, HashType, Slotted
<1>2. \A r \in U : Keyed(i, U)[r] = row[r][i]
  BY DEF Keyed
<1> DEFINE T == Tops(U, home)
           K == {row[r][i] : r \in U}
           f == [t \in T |-> row[t][i]]
<1>3. \A r \in U : r \in T \/ (home[r] \in T /\ row[home[r]][i] = row[r][i])
  BY <1>1, <1>2 DEF Owning, Tops
<1>4. T \subseteq U /\ IsFiniteSet(T)
  <2>1. IsFiniteSet(U)
    BY <1>1, FS_Subset
  <2> QED
    BY <2>1, FS_Subset DEF Tops
<1>5. f \in [T -> K]
  BY <1>4
<1>6. \A q, r \in T : f[q] = f[r] => q = r
  BY <1>1, <1>2, <1>4
<1>7. \A k \in K : \E t \in T : f[t] = k
  BY <1>3
<1>8. f \in Bijection(T, K)
  <2> HIDE DEF f, T, K
  <2> QED
    BY <1>5, <1>6, <1>7 DEF Bijection, Injection, Surjection, IsInjective
<1>9. Cardinality(K) = Cardinality(T)
  <2>1. ExistsBijection(T, K)
    BY <1>8 DEF ExistsBijection
  <2> HIDE DEF T, K
  <2> QED
    BY <1>4, <2>1, FS_Bijection
<1> QED
  BY <1>0, <1>1, <1>9 DEF Counted

-------------------------------------------------------------------------------
(* A node out of its list and into another one.                             *)

\* y has the counters and the node r of x, and its nodes' hash and siblings.
Beside(B, y, x) ==
    /\ y.tops = x.tops /\ y.rows = x.rows
    /\ \A q \in B : y.node[q].sibling = x.node[q].sibling /\ y.node[q].hash = x.node[q].hash

LEMMA UnlinkGives ==
    ASSUME NEW B, NEW x, NEW c, NEW U, NEW key, NEW home, NEW rank, NEW lim,
           Shape(B, x, c, U, U, key, home, rank, lim), NEW r \in U, x.node[r].prev # 0
    PROVE  /\ Shape(B, Unlink(x, r), c, U, U \ {r}, key, home, rank, lim)
           /\ Beside(B, Unlink(x, r), x)
<1> DEFINE n == x.node[r]
           y == Unlink(x, r)
           L == U \ {r}
<1>1. /\ B \subseteq Nat \ {0} /\ U \subseteq B /\ c \in Nat \ {0} /\ lim \in Nat
      /\ home \in [U -> Int] /\ rank \in [U -> Nat] /\ \A q \in U : rank[q] < lim
      /\ \A q \in U : Linked(x, c, U, home, rank, q)
      /\ \A q \in U : Owning(x, U, U, key, home, q)
      /\ Slotted(x, c, U, home)
      /\ \A p, q \in Tops(U, home) : key[p] = key[q] => p = q
  BY DEF Shape
<1>r. \A q \in U : rank[q] \in Nat /\ ~(rank[q] < rank[q])
  BY <1>1
<1>2. /\ x \in [slot : [0 .. c - 1 -> B \union {0}], node : [B -> HashNode(B)],
                slots : Int, tops : Int, rows : Int]
      /\ \A q \in B : x.node[q] \in HashNode(B)
      /\ \A q \in B : q \in Nat /\ q # 0 /\ q > 0
      /\ r \in B
  BY <1>1 DEF Shape, HashType
<1>u. \A q \in U : q \in B /\ q \in Nat /\ q # 0 /\ q > 0 /\ ~(q < 0)
  BY <1>1, <1>2
<1>3. n.next \in B \union {0} /\ n.prev \in Int
  BY <1>2 DEF HashNode
<1>4. /\ n.next # 0 => n.next \in L /\ home[n.next] = home[r] /\ rank[n.next] < rank[r]
                       /\ x.node[n.next].prev = r
      /\ n.prev > 0 => n.prev \in L /\ x.node[n.prev].next = r /\ home[n.prev] = home[r]
                       /\ rank[r] < rank[n.prev]
      /\ n.prev < 0 => home[r] = n.prev /\ -1 - n.prev \in 0 .. c - 1 /\ x.slot[-1 - n.prev] = r
  <2>1. Linked(x, c, U, home, rank, r)
    BY <1>1
  <2>2. n.next # 0 => n.next \in U /\ home[n.next] = home[r] /\ rank[n.next] < rank[r]
                       /\ x.node[n.next].prev = r
    BY <2>1 DEF Linked
  <2>3. n.next # 0 => n.next # r
    BY <1>r, <2>2
  <2>4. n.prev \in U => n.prev > 0 /\ ~(n.prev < 0)
    BY <1>u
  <2>5. n.prev \notin U => n.prev < 0 /\ home[r] = n.prev /\ First(x, home[r]) = r
    BY <1>1, <2>1 DEF Linked, Mark
  <2>6. n.prev \in U => x.node[n.prev].next = r
    BY <1>2, <2>1, <2>4 DEF Linked, Mark
  <2>7. n.prev \in U => home[n.prev] = home[r] /\ rank[r] < rank[n.prev]
    <3>1. ASSUME n.prev \in U PROVE Linked(x, c, U, home, rank, n.prev)
      BY <1>1, <3>1
    <3> QED
      BY <1>2, <2>6, <3>1 DEF Linked
  <2>8. n.prev \in U => n.prev # r
    BY <1>r, <2>7
  <2>9. n.prev < 0 => -1 - n.prev \in 0 .. c - 1 /\ x.slot[-1 - n.prev] = r
    BY <2>1, <2>4, <2>5 DEF Linked, First
  <2> QED
    BY <1>3, <2>2, <2>3, <2>4, <2>5, <2>6, <2>7, <2>8, <2>9
<1>5. /\ HashType(B, y, c)
      /\ y.tops = x.tops /\ y.rows = x.rows
      /\ y.slot = IF n.prev < 0 THEN [x.slot EXCEPT ![-1 - n.prev] = n.next] ELSE x.slot
      /\ y.slots = IF n.prev < 0 /\ n.next = 0 THEN x.slots - 1 ELSE x.slots
      /\ \A q \in B :
            /\ y.node[q].next = IF n.prev > 0 /\ q = n.prev THEN n.next ELSE x.node[q].next
            /\ y.node[q].prev = IF n.next # 0 /\ q = n.next THEN n.prev ELSE x.node[q].prev
            /\ y.node[q].sibling = x.node[q].sibling /\ y.node[q].hash = x.node[q].hash
  <2> DEFINE v == IF n.next = 0 THEN x ELSE [x EXCEPT !.node[n.next].prev = n.prev]
  <2>1. /\ HashType(B, v, c) /\ v.tops = x.tops /\ v.rows = x.rows /\ v.slot = x.slot /\ v.slots = x.slots
        /\ \A q \in B : v.node[q] = IF n.next # 0 /\ q = n.next THEN [x.node[q] EXCEPT !.prev = n.prev]
                                     ELSE x.node[q]
    <3>1. CASE n.next = 0
      BY <1>2, <3>1 DEF HashType
    <3>2. CASE n.next # 0
      <4>1. n.next \in B /\ [x.node[n.next] EXCEPT !.prev = n.prev] \in HashNode(B)
        BY <1>2, <1>3, <3>2 DEF HashNode
      <4>2. v = [x EXCEPT !.node = [x.node EXCEPT ![n.next] = [x.node[n.next] EXCEPT !.prev = n.prev]]]
        BY <1>2, <3>2
      <4> HIDE DEF v
      <4> QED
        BY <1>2, <3>2, <4>1, <4>2 DEF HashType
    <3> QED
      BY <3>1, <3>2
  <2>2. \A q \in B : v.node[q] \in HashNode(B)
    BY <2>1 DEF HashType
  <2>3. \A q \in B :
            /\ v.node[q].next = x.node[q].next
            /\ v.node[q].prev = IF n.next # 0 /\ q = n.next THEN n.prev ELSE x.node[q].prev
            /\ v.node[q].sibling = x.node[q].sibling /\ v.node[q].hash = x.node[q].hash
    <3>1. SUFFICES ASSUME NEW q \in B
                   PROVE  /\ v.node[q].next = x.node[q].next
                          /\ v.node[q].prev = IF n.next # 0 /\ q = n.next THEN n.prev ELSE x.node[q].prev
                          /\ v.node[q].sibling = x.node[q].sibling /\ v.node[q].hash = x.node[q].hash
      BY Zenon
    <3>2. x.node[q] \in HashNode(B)
      BY <1>2
    <3>3. CASE n.next # 0 /\ q = n.next
      <4>1. v.node[q] = [x.node[q] EXCEPT !.prev = n.prev]
        BY ONLY <2>1, <3>3, q \in B
      <4> QED
        BY ONLY <3>2, <3>3, <4>1 DEF HashNode
    <3>4. CASE ~(n.next # 0 /\ q = n.next)
      <4>1. v.node[q] = x.node[q]
        BY ONLY <2>1, <3>4, q \in B
      <4> QED
        BY ONLY <3>4, <4>1
    <3> QED
      BY <3>3, <3>4
  <2>4. y = IF n.prev > 0 THEN [v EXCEPT !.node[n.prev].next = n.next]
            ELSE IF n.prev < 0
            THEN [v EXCEPT !.slot[SlotOf(n.prev)] = n.next,
                           !.slots = IF n.next = 0 THEN @ - 1 ELSE @]
            ELSE v
    BY DEF Unlink
  <2> HIDE DEF v, y
  <2>5. CASE n.prev > 0
    <3>1. n.prev \in B /\ [v.node[n.prev] EXCEPT !.next = n.next] \in HashNode(B) /\ ~(n.prev < 0)
      BY <1>1, <1>3, <1>4, <2>2, <2>5 DEF HashNode
    <3>2. y = [v EXCEPT !.node = [v.node EXCEPT ![n.prev] = [v.node[n.prev] EXCEPT !.next = n.next]]]
      BY <2>1, <2>4, <2>5 DEF HashType
    <3>3. /\ HashType(B, y, c) /\ y.tops = v.tops /\ y.rows = v.rows /\ y.slot = v.slot /\ y.slots = v.slots
          /\ \A q \in B : y.node[q] = IF q = n.prev THEN [v.node[q] EXCEPT !.next = n.next] ELSE v.node[q]
      BY <2>1, <3>1, <3>2 DEF HashType
    <3>4. \A q \in B :
              /\ y.node[q].next = IF q = n.prev THEN n.next ELSE v.node[q].next
              /\ y.node[q].prev = v.node[q].prev
              /\ y.node[q].sibling = v.node[q].sibling /\ y.node[q].hash = v.node[q].hash
      BY <2>2, <3>3 DEF HashNode
    <3> QED
      BY <2>1, <2>3, <2>5, <3>1, <3>3, <3>4
  <2>6. CASE n.prev < 0
    <3>1. SlotOf(n.prev) = -1 - n.prev /\ -1 - n.prev \in 0 .. c - 1 /\ ~(n.prev > 0)
      BY <1>3, <1>4, <2>6 DEF SlotOf
    <3>2. y = [v EXCEPT !.slot = [v.slot EXCEPT ![-1 - n.prev] = n.next],
                        !.slots = IF n.next = 0 THEN v.slots - 1 ELSE v.slots]
      BY <2>1, <2>4, <2>6, <3>1 DEF HashType
    <3>3. /\ y.tops = v.tops /\ y.rows = v.rows /\ y.node = v.node
          /\ y.slot = [v.slot EXCEPT ![-1 - n.prev] = n.next]
          /\ y.slots = IF n.next = 0 THEN v.slots - 1 ELSE v.slots
      BY <2>1, <3>2 DEF HashType
    <3>4. /\ [v.slot EXCEPT ![-1 - n.prev] = n.next] \in [0 .. c - 1 -> B \union {0}]
          /\ (IF n.next = 0 THEN v.slots - 1 ELSE v.slots) \in Int
      <4>1. v.slot \in [0 .. c - 1 -> B \union {0}] /\ v.slots \in Int
        BY <2>1 DEF HashType
      <4>2. (IF n.next = 0 THEN v.slots - 1 ELSE v.slots) \in Int
        BY ONLY <4>1
      <4> QED
        BY <1>3, <4>1, <4>2
    <3>5. HashType(B, y, c)
      <4> DEFINE S == [v.slot EXCEPT ![-1 - n.prev] = n.next]
                 k == IF n.next = 0 THEN v.slots - 1 ELSE v.slots
      <4>1. y = [v EXCEPT !.slot = S, !.slots = k]
        BY <3>2
      <4>2. S \in [0 .. c - 1 -> B \union {0}] /\ k \in Int
        BY <3>4
      <4>3. v.node \in [B -> HashNode(B)] /\ v.tops \in Int /\ v.rows \in Int
        BY <2>1 DEF HashType
      <4> HIDE DEF S, k
      <4>4. y = [slot |-> S, node |-> v.node, slots |-> k, tops |-> v.tops, rows |-> v.rows]
        BY <2>1, <4>1 DEF HashType
      <4> QED
        BY <4>2, <4>3, <4>4 DEF HashType
    <3> QED
      BY <2>1, <2>3, <2>6, <3>1, <3>3, <3>5
  <2>7. n.prev > 0 \/ n.prev < 0
    BY <1>3
  <2> QED
    BY <2>5, <2>6, <2>7
<1> HIDE DEF y
\* who leads to r is its neighbour, or its slot
<1>n. ASSUME NEW q \in U PROVE x.node[q].next = r => q = n.prev
  BY <1>1, <1>u DEF Linked
<1>p. ASSUME NEW q \in U PROVE x.node[q].prev = r => q = n.next
  BY <1>1, <1>u DEF Linked, Mark
<1>s. ASSUME NEW s \in 0 .. c - 1 PROVE x.slot[s] = r => n.prev < 0 /\ s = -1 - n.prev
  BY <1>1, <1>u DEF Slotted
<1>o. ASSUME NEW q \in U, home[q] < 0 PROVE x.node[q].sibling # r
  BY <1>1, <1>u, <1>o DEF Owning
<1>6. ASSUME NEW q \in L PROVE Linked(y, c, L, home, rank, q)
  <2>1. Linked(x, c, U, home, rank, q) /\ q \in U /\ q \in B
    BY <1>1
  <2>2. y.node[q].next # 0 =>
            /\ y.node[q].next \in L /\ home[y.node[q].next] = home[q]
            /\ rank[y.node[q].next] < rank[q] /\ y.node[y.node[q].next].prev = q
    <3>1. CASE n.prev > 0 /\ q = n.prev
      <4>1. y.node[q].next = n.next
        BY <1>5, <2>1, <3>1
      <4>2. ASSUME n.next # 0 PROVE y.node[n.next].prev = q
        BY <1>4, <1>5, <1>u, <3>1, <4>2
      <4>3. ASSUME n.next # 0 PROVE rank[n.next] < rank[q]
        <5>1. rank[n.next] < rank[r] /\ rank[r] < rank[q]
          BY <1>4, <3>1, <4>3
        <5>2. rank[n.next] \in Nat /\ rank[r] \in Nat /\ rank[q] \in Nat
          BY <1>4, <1>r, <2>1, <4>3
        <5> QED
          BY ONLY <5>1, <5>2
      <4> QED
        BY <1>4, <3>1, <4>1, <4>2, <4>3
    <3>2. CASE ~(n.prev > 0 /\ q = n.prev)
      <4>1. y.node[q].next = x.node[q].next
        BY <1>5, <2>1, <3>2
      <4>2. ASSUME x.node[q].next # 0 PROVE x.node[q].next \in L
        <5>1. x.node[q].next \in U
          BY <2>1, <4>2 DEF Linked
        <5>2. x.node[q].next # r
          BY <1>n, <1>u, <2>1, <3>2
        <5> QED
          BY <5>1, <5>2
      <4>3. ASSUME x.node[q].next # 0, n.next # 0 PROVE x.node[q].next # n.next
        BY <1>4, <2>1, <4>3 DEF Linked
      <4> QED
        BY <1>5, <1>u, <2>1, <4>1, <4>2, <4>3 DEF Linked
    <3> QED
      BY <3>1, <3>2
  <2>3. \/ y.node[q].prev \in L /\ y.node[y.node[q].prev].next = q
        \/ First(y, home[q]) = q /\ y.node[q].prev = Mark(home[q])
    <3>1. CASE q = n.next
      <4>1. n.next # 0 /\ y.node[q].prev = n.prev /\ home[q] = home[r]
        BY <1>4, <1>5, <1>u, <2>1, <3>1
      <4>2. ASSUME n.prev > 0 PROVE n.prev \in L /\ y.node[n.prev].next = q
        BY <1>4, <1>5, <1>u, <3>1, <4>2
      <4>3. ASSUME n.prev < 0 PROVE First(y, home[q]) = q /\ n.prev = Mark(home[q])
        <5>1. home[q] = n.prev /\ -1 - n.prev \in 0 .. c - 1
          BY <1>4, <4>1, <4>3
        <5>2. y.slot[-1 - n.prev] = n.next
          <6>1. y.slot = [x.slot EXCEPT ![-1 - n.prev] = n.next] /\ -1 - n.prev \in DOMAIN x.slot
            BY <1>2, <1>5, <4>3, <5>1
          <6> QED
            BY <6>1
        <5> QED
          BY <3>1, <4>3, <5>1, <5>2 DEF First, Mark
      <4>4. n.prev > 0 \/ n.prev < 0
        BY <1>3
      <4> QED
        BY <4>1, <4>2, <4>3, <4>4
    <3>2. CASE q # n.next
      <4>1. y.node[q].prev = x.node[q].prev
        BY <1>5, <2>1, <3>2
      <4> DEFINE p == x.node[q].prev
      <4>2. CASE p \in U /\ x.node[p].next = q
        <5>1. p # r
          BY <1>p, <2>1, <3>2
        <5>2. p # n.prev \/ ~(n.prev > 0)
          BY <1>4, <4>2
        <5>3. p \in B /\ y.node[p].next = x.node[p].next
          BY <1>5, <1>u, <4>2, <5>2
        <5> QED
          BY <4>1, <4>2, <5>1, <5>3
      <4>3. CASE First(x, home[q]) = q /\ p = Mark(home[q])
        <5>1. CASE home[q] < 0
          <6>1. x.slot[-1 - home[q]] = q /\ -1 - home[q] \in 0 .. c - 1
            BY <2>1, <4>3, <5>1 DEF First, Linked
          <6>2. n.prev < 0 => -1 - n.prev \in 0 .. c - 1 /\ x.slot[-1 - n.prev] = r
            BY <1>4
          <6>3. y.slot[-1 - home[q]] = x.slot[-1 - home[q]]
            <7>1. n.prev < 0 => -1 - n.prev # -1 - home[q]
              BY <6>1, <6>2
            <7>2. DOMAIN x.slot = 0 .. c - 1
              BY <1>2
            <7> QED
              BY <1>5, <6>1, <7>1, <7>2
          <6> QED
            BY <4>1, <4>3, <5>1, <6>1, <6>3 DEF First
        <5>2. CASE ~(home[q] < 0)
          <6>1. home[q] \in U
            BY <1>1, <2>1, <5>2 DEF Owning
          <6>2. y.node[home[q]].sibling = x.node[home[q]].sibling
            BY <1>5, <1>u, <6>1
          <6> QED
            BY <4>1, <4>3, <5>2, <6>2 DEF First
        <5> QED
          BY <5>1, <5>2
      <4> QED
        BY <2>1, <4>2, <4>3 DEF Linked
    <3> QED
      BY <3>1, <3>2
  <2>4. IF home[q] < 0 THEN -1 - home[q] \in 0 .. c - 1
        ELSE y.node[q].sibling = IF y.node[q].prev = 0 THEN home[q] ELSE -1
    <3>1. y.node[q].sibling = x.node[q].sibling
      BY <1>5, <2>1
    <3>2. y.node[q].prev = 0 <=> x.node[q].prev = 0
      <4>1. CASE q = n.next
        <5>1. x.node[q].prev = r /\ y.node[q].prev = n.prev
          BY <1>4, <1>5, <1>u, <2>1, <4>1
        <5> QED
          BY <1>2, <5>1
      <4>2. CASE q # n.next
        BY <1>5, <2>1, <4>2
      <4> QED
        BY <4>1, <4>2
    <3> QED
      BY <2>1, <3>1, <3>2 DEF Linked
  <2> QED
    BY <2>2, <2>3, <2>4 DEF Linked
<1>7. ASSUME NEW q \in U PROVE Owning(y, U, L, key, home, q)
  <2>1. Owning(x, U, U, key, home, q) /\ q \in B
    BY <1>1
  <2>2. y.node[q].sibling = x.node[q].sibling /\ y.node[q].hash = x.node[q].hash
    BY <1>5, <2>1
  <2> DEFINE s == x.node[q].sibling
  <2>3. ASSUME home[q] < 0, s # 0 PROVE s \in L /\ home[s] = q /\ y.node[s].prev = 0
    <3>1. s \in U /\ home[s] = q /\ x.node[s].prev = 0
      BY <2>1, <2>3 DEF Owning
    <3>2. s # n.next
      BY <1>2, <1>4, <2>3, <3>1
    <3>3. y.node[s].prev = x.node[s].prev
      BY <1>5, <1>u, <3>1, <3>2
    <3> QED
      BY <3>1, <3>3
  <2> HIDE DEF s
  <2> QED
    BY <2>1, <2>2, <2>3 DEF Owning, s
<1>8. Slotted(y, c, L, home)
  <2>0. DOMAIN x.slot = 0 .. c - 1
    BY <1>2
  <2>1. ASSUME NEW s \in 0 .. c - 1, y.slot[s] # 0
        PROVE  y.slot[s] \in L /\ home[y.slot[s]] = -1 - s /\ y.node[y.slot[s]].prev = -1 - s
    <3>1. CASE n.prev < 0 /\ s = -1 - n.prev
      <4>1. y.slot[s] = n.next
        BY <1>5, <2>0, <3>1
      <4>2. -1 - s = n.prev
        BY <1>3, <3>1
      <4>3. n.next # 0 /\ n.next \in L /\ home[n.next] = home[r] /\ home[r] = n.prev
        BY <1>4, <2>1, <3>1, <4>1
      <4>4. y.node[n.next].prev = n.prev
        BY <1>5, <1>u, <4>3
      <4> QED
        BY <4>1, <4>2, <4>3, <4>4
    <3>2. CASE ~(n.prev < 0 /\ s = -1 - n.prev)
      <4>1. y.slot[s] = x.slot[s]
        <5>1. n.prev < 0 => s # -1 - n.prev
          BY <3>2
        <5> QED
          BY <1>5, <2>0, <5>1
      <4>2. x.slot[s] \in U /\ home[x.slot[s]] = -1 - s /\ x.node[x.slot[s]].prev = -1 - s
        BY <1>1, <2>1, <4>1 DEF Slotted
      <4>3. x.slot[s] # r
        BY <1>s, <3>2
      <4>4. x.slot[s] # n.next
        <5>1. -1 - s # r
          BY <1>2
        <5> QED
          BY <1>4, <1>u, <4>2, <5>1
      <4>5. y.node[x.slot[s]].prev = x.node[x.slot[s]].prev
        BY <1>5, <1>u, <4>2, <4>4
      <4> QED
        BY <4>1, <4>2, <4>3, <4>5
    <3> QED
      BY <3>1, <3>2
  <2>2. y.slots = Cardinality({s \in 0 .. c - 1 : y.slot[s] # 0})
    <3> DEFINE Y == {s \in 0 .. c - 1 : y.slot[s] # 0}
               X == {s \in 0 .. c - 1 : x.slot[s] # 0}
    <3>1. x.slots = Cardinality(X) /\ IsFiniteSet(X)
      <4>1. IsFiniteSet(0 .. c - 1)
        BY <1>1, FS_Interval
      <4>2. IsFiniteSet(X)
        BY <4>1, FS_Subset
      <4> QED
        BY <1>1, <4>2 DEF Slotted
    <3>2. CASE n.prev < 0 /\ n.next = 0
      <4> DEFINE t == -1 - n.prev
      <4>1. t \in 0 .. c - 1 /\ x.slot[t] # 0
        BY <1>2, <1>4, <3>2
      <4>2. y.slot = [x.slot EXCEPT ![t] = 0]
        BY <1>5, <3>2
      <4> HIDE DEF t
      <4>3. Y = X \ {t} /\ t \in X
        BY <2>0, <4>1, <4>2
      <4>4. Cardinality(Y) = Cardinality(X) - 1
        <5> HIDE DEF X, Y
        <5> QED
          BY <3>1, <4>3, FS_RemoveElement
      <4> QED
        BY <1>5, <3>1, <3>2, <4>4
    <3>3. CASE n.prev < 0 /\ n.next # 0
      <4> DEFINE t == -1 - n.prev
      <4>1. t \in 0 .. c - 1 /\ x.slot[t] # 0
        BY <1>2, <1>4, <3>3
      <4>2. y.slot = [x.slot EXCEPT ![t] = n.next]
        BY <1>5, <3>3
      <4> HIDE DEF t
      <4>3. Y = X
        BY <2>0, <3>3, <4>1, <4>2
      <4> QED
        BY <1>5, <3>1, <3>3, <4>3
    <3>4. CASE ~(n.prev < 0)
      BY <1>5, <3>1, <3>4
    <3> QED
      BY <3>2, <3>3, <3>4
  <2> QED
    BY <2>1, <2>2 DEF Slotted
<1>9. Beside(B, y, x)
  BY <1>5 DEF Beside
<1>10. Shape(B, y, c, U, L, key, home, rank, lim)
  BY <1>1, <1>5, <1>6, <1>7, <1>8 DEF Shape
<1> QED
  BY <1>9, <1>10 DEF y

\* y is x, except for node r.
WithNode(B, c, x, y, r, next, prev, sibling, hash) ==
    /\ HashType(B, y, c)
    /\ y.slot = x.slot /\ y.slots = x.slots /\ y.tops = x.tops /\ y.rows = x.rows
    /\ y.node[r] = [next |-> next, prev |-> prev, sibling |-> sibling, hash |-> hash]
    /\ \A q \in B : q # r => y.node[q] = x.node[q]

LEMMA SetNode ==
    ASSUME NEW B, NEW c, NEW x, HashType(B, x, c), NEW r \in B,
           NEW a \in B \union {0}, NEW p \in Int, NEW s \in Int, NEW h \in Nat
    PROVE  WithNode(B, c, x, [x EXCEPT !.node[r] = [next |-> a, prev |-> p, sibling |-> s, hash |-> h]],
                    r, a, p, s, h)
<1> DEFINE m == [next |-> a, prev |-> p, sibling |-> s, hash |-> h]
           f == [x.node EXCEPT ![r] = m]
           y == [x EXCEPT !.node = f]
<1>1. m \in HashNode(B)
  BY DEF HashNode
<1>2. /\ x.slot \in [0 .. c - 1 -> B \union {0}] /\ x.node \in [B -> HashNode(B)]
      /\ x.slots \in Int /\ x.tops \in Int /\ x.rows \in Int
  BY DEF HashType
<1>3. f \in [B -> HashNode(B)] /\ f[r] = m /\ \A q \in B : q # r => f[q] = x.node[q]
  <2> HIDE DEF m
  <2> QED
    BY <1>1, <1>2
<1> HIDE DEF f
<1>4. y = [slot |-> x.slot, node |-> f, slots |-> x.slots, tops |-> x.tops, rows |-> x.rows]
  BY DEF HashType
<1>5. HashType(B, y, c) /\ y.slot = x.slot /\ y.slots = x.slots /\ y.tops = x.tops /\ y.rows = x.rows
      /\ y.node = f
  BY <1>2, <1>3, <1>4 DEF HashType
<1>6. [x EXCEPT !.node[r] = m] = y
  BY DEF f
<1> QED
  BY <1>3, <1>5, <1>6 DEF WithNode

LEMMA SetFields ==
    ASSUME NEW B, NEW c, NEW x, HashType(B, x, c), NEW r \in B,
           NEW a \in B \union {0}, NEW p \in Int, NEW s \in Int
    PROVE  LET n == x.node[r]
           IN  /\ WithNode(B, c, x, [x EXCEPT !.node[r].next = a], r, a, n.prev, n.sibling, n.hash)
               /\ WithNode(B, c, x, [x EXCEPT !.node[r].prev = p], r, n.next, p, n.sibling, n.hash)
               /\ WithNode(B, c, x, [x EXCEPT !.node[r].sibling = s], r, n.next, n.prev, s, n.hash)
               /\ WithNode(B, c, x, [x EXCEPT !.node[r] = [@ EXCEPT !.prev = p, !.sibling = s]],
                           r, n.next, p, s, n.hash)
<1> DEFINE n == x.node[r]
<1>1. n \in HashNode(B)
  BY DEF HashType
<1>2. n.next \in B \union {0} /\ n.prev \in Int /\ n.sibling \in Int /\ n.hash \in Nat
  BY <1>1 DEF HashNode
<1> DEFINE m1 == [next |-> a, prev |-> n.prev, sibling |-> n.sibling, hash |-> n.hash]
           m2 == [next |-> n.next, prev |-> p, sibling |-> n.sibling, hash |-> n.hash]
           m3 == [next |-> n.next, prev |-> n.prev, sibling |-> s, hash |-> n.hash]
           m4 == [next |-> n.next, prev |-> p, sibling |-> s, hash |-> n.hash]
<1>3. /\ [n EXCEPT !.next = a] = m1
      /\ [n EXCEPT !.prev = p] = m2
      /\ [n EXCEPT !.sibling = s] = m3
      /\ [n EXCEPT !.prev = p, !.sibling = s] = m4
  <2> DEFINE o == [n EXCEPT !.prev = p]
  <2> HIDE DEF n
  <2>1. o \in [next : B \union {0}, prev : Int, sibling : Int, hash : Nat] /\ o = m2
    BY <1>1 DEF HashNode
  <2>2. [n EXCEPT !.next = a] = m1
    BY <1>1 DEF HashNode
  <2>3. [n EXCEPT !.sibling = s] = m3
    BY <1>1 DEF HashNode
  <2>4. [n EXCEPT !.prev = p, !.sibling = s] = [o EXCEPT !.sibling = s]
    BY <1>1 DEF HashNode
  <2> HIDE DEF o
  <2>5. [o EXCEPT !.sibling = s] = [next |-> o.next, prev |-> o.prev, sibling |-> s, hash |-> o.hash]
    BY <2>1
  <2>6. o.next = n.next /\ o.prev = p /\ o.hash = n.hash
    BY <2>1
  <2> QED
    BY <2>1, <2>2, <2>3, <2>4, <2>5, <2>6, Zenon DEF o
<1>4. /\ [x EXCEPT !.node[r].next = a] = [x EXCEPT !.node[r] = [n EXCEPT !.next = a]]
      /\ [x EXCEPT !.node[r].prev = p] = [x EXCEPT !.node[r] = [n EXCEPT !.prev = p]]
      /\ [x EXCEPT !.node[r].sibling = s] = [x EXCEPT !.node[r] = [n EXCEPT !.sibling = s]]
  OBVIOUS
<1>5. /\ WithNode(B, c, x, [x EXCEPT !.node[r] = m1], r, a, n.prev, n.sibling, n.hash)
      /\ WithNode(B, c, x, [x EXCEPT !.node[r] = m2], r, n.next, p, n.sibling, n.hash)
      /\ WithNode(B, c, x, [x EXCEPT !.node[r] = m3], r, n.next, n.prev, s, n.hash)
      /\ WithNode(B, c, x, [x EXCEPT !.node[r] = m4], r, n.next, p, s, n.hash)
  <2> HIDE DEF n
  <2> QED
    BY <1>2, SetNode
<1> HIDE DEF n, m1, m2, m3, m4
<1>6. /\ WithNode(B, c, x, [x EXCEPT !.node[r].next = a], r, a, n.prev, n.sibling, n.hash)
      /\ WithNode(B, c, x, [x EXCEPT !.node[r].prev = p], r, n.next, p, n.sibling, n.hash)
      /\ WithNode(B, c, x, [x EXCEPT !.node[r].sibling = s], r, n.next, n.prev, s, n.hash)
      /\ WithNode(B, c, x, [x EXCEPT !.node[r] = [n EXCEPT !.prev = p, !.sibling = s]],
                  r, n.next, p, s, n.hash)
  BY <1>3, <1>4, <1>5, Zenon
<1> QED
  BY <1>6, Zenon DEF n

\* y is x, except for slot s and the number of slots in use.
WithSlot(B, c, x, y, s, r, slots) ==
    /\ HashType(B, y, c)
    /\ y.node = x.node /\ y.tops = x.tops /\ y.rows = x.rows
    /\ y.slots = slots
    /\ y.slot[s] = r
    /\ \A t \in 0 .. c - 1 : t # s => y.slot[t] = x.slot[t]

LEMMA SetSlot ==
    ASSUME NEW B, NEW c, NEW x, HashType(B, x, c), NEW s \in 0 .. c - 1,
           NEW r \in B \union {0}, NEW k \in Int
    PROVE  /\ WithSlot(B, c, x, [x EXCEPT !.slot[s] = r], s, r, x.slots)
           /\ WithSlot(B, c, x, [x EXCEPT !.slot[s] = r, !.slots = k], s, r, k)
<1> DEFINE S == [x.slot EXCEPT ![s] = r]
           y == [x EXCEPT !.slot[s] = r]
           z == [x EXCEPT !.slot[s] = r, !.slots = k]
<1>1. /\ x.slot \in [0 .. c - 1 -> B \union {0}] /\ x.node \in [B -> HashNode(B)]
      /\ x.slots \in Int /\ x.tops \in Int /\ x.rows \in Int
  BY DEF HashType
<1>2. S \in [0 .. c - 1 -> B \union {0}] /\ S[s] = r /\ \A t \in 0 .. c - 1 : t # s => S[t] = x.slot[t]
  BY <1>1
<1>3. y = [x EXCEPT !.slot = S] /\ z = [x EXCEPT !.slot = S, !.slots = k]
  OBVIOUS
<1> HIDE DEF S, y, z
<1>4. /\ y = [slot |-> S, node |-> x.node, slots |-> x.slots, tops |-> x.tops, rows |-> x.rows]
      /\ z = [slot |-> S, node |-> x.node, slots |-> k, tops |-> x.tops, rows |-> x.rows]
  BY <1>3 DEF HashType
<1>5. HashType(B, y, c) /\ HashType(B, z, c)
  BY <1>1, <1>2, <1>4 DEF HashType
<1>6. WithSlot(B, c, x, y, s, r, x.slots)
  BY <1>2, <1>4, <1>5 DEF WithSlot
<1>7. WithSlot(B, c, x, z, s, r, k)
  BY <1>2, <1>4, <1>5 DEF WithSlot
<1> QED
  BY <1>6, <1>7 DEF y, z

\* y is x, with node r in front of the list of slot s.
Pushed(B, c, x, y, s, r) ==
    LET first == x.slot[s]
    IN  /\ HashType(B, y, c)
        /\ y.tops = x.tops /\ y.rows = x.rows
        /\ y.slots = IF first = 0 THEN x.slots + 1 ELSE x.slots
        /\ y.slot[s] = r
        /\ \A t \in 0 .. c - 1 : t # s => y.slot[t] = x.slot[t]
        /\ \A q \in B :
              /\ y.node[q].next = IF q = r THEN first ELSE x.node[q].next
              /\ y.node[q].prev = IF q = r THEN -1 - s ELSE IF q = first THEN r ELSE x.node[q].prev
              /\ y.node[q].sibling = x.node[q].sibling /\ y.node[q].hash = x.node[q].hash

LEMMA PushEffect ==
    ASSUME NEW B, NEW x, NEW c \in Nat \ {0}, NEW L, HashType(B, x, c), L \subseteq B, B \subseteq Nat \ {0},
           NEW r \in B \ L, NEW s \in 0 .. c - 1, x.slot[s] # 0 => x.slot[s] \in L
    PROVE  Pushed(B, c, x, Push(x, s, r), s, r)
<1> DEFINE first == x.slot[s]
           y == Push(x, s, r)
           u == [x EXCEPT !.slot[s] = r]
           v == [u EXCEPT !.node[r].next = first]
           m == -1 - s
           w == [v EXCEPT !.node[r].prev = m]
<1>1. r \in Int /\ m \in Int /\ first \in B \union {0} /\ r \in B \union {0} /\ r # first /\ x.slots \in Int
      /\ x.slots + 1 \in Int /\ 0 \notin B
  <2>1. x.slot \in [0 .. c - 1 -> B \union {0}] /\ x.slots \in Int
    BY DEF HashType
  <2>2. first \in B \union {0} /\ r # first
    BY <2>1
  <2> HIDE DEF first
  <2>3. s \in Int
    <3>1. c \in Int
      OBVIOUS
    <3> QED
      BY ONLY <3>1, s \in 0 .. c - 1
  <2>4. r \in Int
    BY ONLY r \in B \ L, B \subseteq Nat \ {0}
  <2> QED
    BY <2>1, <2>2, <2>3, <2>4
<1>2. WithSlot(B, c, x, u, s, r, x.slots)
  BY <1>1, SetSlot
<1> HIDE DEF u, first, m
<1>3. WithNode(B, c, u, v, r, first, u.node[r].prev, u.node[r].sibling, u.node[r].hash)
  BY <1>1, <1>2, SetFields DEF WithSlot
<1> HIDE DEF v
<1>4. WithNode(B, c, v, w, r, v.node[r].next, m, v.node[r].sibling, v.node[r].hash)
  <2>1. v.node[r].next = first /\ HashType(B, v, c)
    BY <1>3 DEF WithNode
  <2>2. v.node[r].next \in B \union {0} /\ m \in Int
    BY <1>1, <2>1
  <2> QED
    BY <1>1, <2>1, <2>2, SetFields
<1>5. y = IF first = 0 THEN [w EXCEPT !.slots = @ + 1] ELSE [w EXCEPT !.node[first].prev = r]
  <2> DEFINE z == [x EXCEPT !.slot[s] = r, !.node[r].next = first, !.node[r].prev = SlotMark(s)]
  <2>1. z = w
    BY DEF u, v, m, SlotMark
  <2>2. y = IF first = 0 THEN [z EXCEPT !.slots = @ + 1] ELSE [z EXCEPT !.node[first].prev = r]
    BY DEF Push, first
  <2> HIDE DEF w, y, z
  <2> QED
    BY <2>1, <2>2
<1> HIDE DEF w, y
<1>6. /\ HashType(B, w, c) /\ w.tops = x.tops /\ w.rows = x.rows /\ w.slots = x.slots /\ w.slot[s] = r
      /\ \A t \in 0 .. c - 1 : t # s => w.slot[t] = x.slot[t]
      /\ \A q \in B :
            /\ w.node[q].next = IF q = r THEN first ELSE x.node[q].next
            /\ w.node[q].prev = IF q = r THEN m ELSE x.node[q].prev
            /\ w.node[q].sibling = x.node[q].sibling /\ w.node[q].hash = x.node[q].hash
  BY <1>1, <1>2, <1>3, <1>4 DEF WithNode, WithSlot
<1>7. CASE first = 0
  <2>1. y = [w EXCEPT !.slots = @ + 1]
    BY <1>5, <1>7
  <2>2. w.slots + 1 \in Int
    BY <1>1, <1>6
  <2>3. /\ HashType(B, y, c) /\ y.tops = w.tops /\ y.rows = w.rows /\ y.slots = w.slots + 1 /\ y.slot = w.slot
        /\ y.node = w.node
    BY <1>6, <2>1, <2>2 DEF HashType
  <2> QED
    BY <1>1, <1>6, <1>7, <2>3 DEF first, y, m, Pushed
<1>8. CASE first # 0
  <2>1. y = [w EXCEPT !.node[first].prev = r]
    BY <1>5, <1>8
  <2>2. WithNode(B, c, w, y, first, w.node[first].next, r, w.node[first].sibling, w.node[first].hash)
    BY <1>1, <1>6, <1>8, <2>1, SetFields
  <2>3. /\ HashType(B, y, c) /\ y.tops = x.tops /\ y.rows = x.rows /\ y.slots = x.slots /\ y.slot = w.slot
        /\ \A q \in B :
              /\ y.node[q].next = w.node[q].next
              /\ y.node[q].prev = IF q = first THEN r ELSE w.node[q].prev
              /\ y.node[q].sibling = w.node[q].sibling /\ y.node[q].hash = w.node[q].hash
    BY <1>1, <1>6, <2>2 DEF WithNode
  <2> QED
    BY <1>1, <1>6, <1>8, <2>3 DEF first, y, m, Pushed
<1> QED
  BY <1>7, <1>8

LEMMA PushGives ==
    ASSUME NEW B, NEW x, NEW c, NEW U, NEW key, NEW home, NEW rank, NEW lim, NEW r \in U,
           Shape(B, x, c, U, U \ {r}, key, home, rank, lim), home[r] < 0, NEW s \in 0 .. c - 1
    PROVE  /\ Shape(B, Push(x, s, r), c, U, U, key, [home EXCEPT ![r] = -1 - s],
                    [rank EXCEPT ![r] = lim], lim + 1)
           /\ Beside(B, Push(x, s, r), x)
<1> DEFINE L == U \ {r}
           y == Push(x, s, r)
           hom2 == [home EXCEPT ![r] = -1 - s]
           ran2 == [rank EXCEPT ![r] = lim]
           first == x.slot[s]
<1>1. /\ B \subseteq Nat \ {0} /\ U \subseteq B /\ c \in Nat \ {0} /\ lim \in Nat
      /\ home \in [U -> Int] /\ rank \in [U -> Nat] /\ \A q \in U : rank[q] < lim
      /\ \A q \in L : Linked(x, c, L, home, rank, q)
      /\ \A q \in U : Owning(x, U, L, key, home, q)
      /\ Slotted(x, c, L, home)
      /\ \A p, q \in Tops(U, home) : key[p] = key[q] => p = q
      /\ HashType(B, x, c)
  BY DEF Shape
<1>u. \A q \in U : q \in B /\ q \in Nat /\ q # 0 /\ q > 0 /\ ~(q < 0)
  BY <1>1
<1>2. /\ first # 0 => first \in L /\ home[first] = -1 - s /\ x.node[first].prev = -1 - s
      /\ -1 - s < 0 /\ -1 - s \in Int /\ s \in Int
  BY <1>1 DEF Slotted
<1>3. /\ HashType(B, y, c)
      /\ y.tops = x.tops /\ y.rows = x.rows
      /\ y.slots = IF first = 0 THEN x.slots + 1 ELSE x.slots
      /\ y.slot[s] = r
      /\ \A t \in 0 .. c - 1 : t # s => y.slot[t] = x.slot[t]
      /\ \A q \in B :
            /\ y.node[q].next = IF q = r THEN first ELSE x.node[q].next
            /\ y.node[q].prev = IF q = r THEN -1 - s ELSE IF q = first THEN r ELSE x.node[q].prev
            /\ y.node[q].sibling = x.node[q].sibling /\ y.node[q].hash = x.node[q].hash
  <2>1. L \subseteq B /\ r \in B \ L /\ (x.slot[s] # 0 => x.slot[s] \in L)
    BY <1>1, <1>2
  <2> HIDE DEF L
  <2>2. Pushed(B, c, x, y, s, r)
    BY <1>1, <2>1, PushEffect
  <2> QED
    BY <2>2 DEF Pushed
<1>4. /\ hom2 \in [U -> Int] /\ ran2 \in [U -> Nat] /\ lim + 1 \in Nat
      /\ hom2[r] = -1 - s /\ ran2[r] = lim
      /\ \A q \in L : hom2[q] = home[q] /\ ran2[q] = rank[q]
      /\ \A q \in U : ran2[q] < lim + 1
      /\ \A q \in U : hom2[q] < 0 <=> home[q] < 0
  BY <1>1, <1>2
<1> HIDE DEF y, hom2, ran2, first
<1>5. ASSUME NEW q \in U PROVE Linked(y, c, U, hom2, ran2, q)
  <2>1. CASE q = r
    <3>1. y.node[r].next = first /\ y.node[r].prev = -1 - s
      BY <1>3, <1>u
    <3>2. ASSUME first # 0
          PROVE  first \in U /\ hom2[first] = hom2[r] /\ ran2[first] < ran2[r] /\ y.node[first].prev = r
      BY <1>1, <1>2, <1>3, <1>4, <1>u, <3>2
    <3>3. First(y, hom2[r]) = r /\ Mark(hom2[r]) = -1 - s /\ hom2[r] < 0 /\ -1 - hom2[r] \in 0 .. c - 1
      <4>1. -1 - (-1 - s) = s
        BY <1>2
      <4> QED
        BY <1>2, <1>3, <1>4, <4>1 DEF First, Mark
    <3> QED
      BY <2>1, <3>1, <3>2, <3>3 DEF Linked
  <2>2. CASE q # r
    <3>1. Linked(x, c, L, home, rank, q) /\ q \in L /\ hom2[q] = home[q] /\ ran2[q] = rank[q] /\ q \in B
      BY <1>1, <1>4, <2>2
    <3>2. y.node[q].next = x.node[q].next /\ y.node[q].sibling = x.node[q].sibling
      BY <1>3, <2>2, <3>1
    <3>3. y.node[q].next # 0 =>
              /\ y.node[q].next \in U /\ hom2[y.node[q].next] = hom2[q]
              /\ ran2[y.node[q].next] < ran2[q] /\ y.node[y.node[q].next].prev = q
      <4> DEFINE z == x.node[q].next
      <4>1. SUFFICES ASSUME z # 0
                     PROVE  /\ z \in U /\ hom2[z] = hom2[q] /\ ran2[z] < ran2[q]
                            /\ y.node[z].prev = q
        BY <3>2
      <4>2. z \in L /\ home[z] = home[q] /\ rank[z] < rank[q] /\ x.node[z].prev = q
        BY <3>1, <4>1 DEF Linked
      <4>3. z # first
        BY <1>2, <1>u, <3>1, <4>2
      <4>4. y.node[z].prev = q
        BY <1>3, <1>u, <4>2, <4>3
      <4> QED
        BY <1>4, <3>1, <4>2, <4>4
    <3>4. \/ y.node[q].prev \in U /\ y.node[y.node[q].prev].next = q
          \/ First(y, hom2[q]) = q /\ y.node[q].prev = Mark(hom2[q])
      <4>1. CASE q = first
        BY <1>3, <1>u, <2>2, <3>1, <4>1
      <4>2. CASE q # first
        <5> DEFINE p == x.node[q].prev
        <5>1. y.node[q].prev = p
          BY <1>3, <2>2, <3>1, <4>2
        <5>2. CASE p \in L /\ x.node[p].next = q
          BY <1>3, <1>u, <5>1, <5>2
        <5>3. CASE First(x, home[q]) = q /\ p = Mark(home[q])
          <6>1. CASE home[q] < 0
            <7>1. x.slot[-1 - home[q]] = q /\ -1 - home[q] \in 0 .. c - 1
              BY <3>1, <5>3, <6>1 DEF First, Linked
            <7>2. y.slot[-1 - home[q]] = q
              BY <1>3, <4>2, <7>1 DEF first
            <7> QED
              BY <3>1, <5>1, <5>3, <6>1, <7>2 DEF First
          <6>2. CASE ~(home[q] < 0)
            <7>1. home[q] \in U
              BY <1>1, <6>2 DEF Owning
            <7>2. y.node[home[q]].sibling = x.node[home[q]].sibling
              BY <1>3, <1>u, <7>1
            <7> QED
              BY <3>1, <5>1, <5>3, <6>2, <7>2 DEF First
          <6> QED
            BY <6>1, <6>2
        <5> QED
          BY <3>1, <5>2, <5>3 DEF Linked
      <4> QED
        BY <4>1, <4>2
    <3>5. IF hom2[q] < 0 THEN -1 - hom2[q] \in 0 .. c - 1
          ELSE y.node[q].sibling = IF y.node[q].prev = 0 THEN hom2[q] ELSE -1
      <4>1. ASSUME ~(home[q] < 0) PROVE y.node[q].prev = x.node[q].prev
        <5>1. q # first
          BY <1>2, <1>u, <3>1, <4>1
        <5> QED
          BY <1>3, <2>2, <3>1, <5>1
      <4> QED
        BY <3>1, <3>2, <4>1 DEF Linked
    <3> QED
      BY <3>3, <3>4, <3>5 DEF Linked
  <2> QED
    BY <2>1, <2>2
<1>6. ASSUME NEW q \in U PROVE Owning(y, U, U, key, hom2, q)
  <2>1. Owning(x, U, L, key, home, q) /\ q \in B
    BY <1>1
  <2>2. y.node[q].sibling = x.node[q].sibling /\ y.node[q].hash = x.node[q].hash
    BY <1>3, <2>1
  <2> DEFINE z == x.node[q].sibling
  <2>3. ASSUME home[q] < 0, z # 0 PROVE z \in U /\ hom2[z] = q /\ y.node[z].prev = 0
    <3>1. z \in L /\ home[z] = q /\ x.node[z].prev = 0
      BY <2>1, <2>3 DEF Owning
    <3>2. z # first
      BY <1>2, <1>u, <3>1
    <3>3. y.node[z].prev = x.node[z].prev
      BY <1>3, <1>u, <3>1, <3>2
    <3> QED
      BY <1>4, <3>1, <3>3
  <2>4. ASSUME ~(home[q] < 0) PROVE hom2[q] = home[q] /\ home[q] \in U /\ hom2[home[q]] < 0 /\ key[home[q]] = key[q]
    BY <1>4, <2>1, <2>4 DEF Owning
  <2> HIDE DEF z
  <2>5. x.node[q].hash = Hash[key[q]]
    BY <2>1 DEF Owning
  <2>6. hom2[q] < 0 <=> home[q] < 0
    BY <1>4
  <2> QED
    BY <2>2, <2>3, <2>4, <2>5, <2>6 DEF Owning, z
<1>7. Slotted(y, c, U, hom2)
  <2>1. ASSUME NEW t \in 0 .. c - 1, y.slot[t] # 0
        PROVE  y.slot[t] \in U /\ hom2[y.slot[t]] = -1 - t /\ y.node[y.slot[t]].prev = -1 - t
    <3>1. CASE t = s
      BY <1>3, <1>4, <1>u, <3>1
    <3>2. CASE t # s
      <4> DEFINE q == x.slot[t]
      <4>1. y.slot[t] = q
        BY <1>3, <3>2
      <4>2. q \in L /\ home[q] = -1 - t /\ x.node[q].prev = -1 - t
        BY <1>1, <2>1, <4>1 DEF Slotted
      <4>3. q # first
        <5>1. -1 - t # -1 - s
          BY <1>1, <3>2
        <5>2. q # 0
          BY <1>u, <4>2
        <5> QED
          BY <1>2, <4>2, <5>1, <5>2
      <4>4. y.node[q].prev = x.node[q].prev
        BY <1>3, <1>u, <4>2, <4>3
      <4> QED
        BY <1>4, <4>1, <4>2, <4>4
    <3> QED
      BY <3>1, <3>2
  <2>2. y.slots = Cardinality({t \in 0 .. c - 1 : y.slot[t] # 0})
    <3> DEFINE Y == {t \in 0 .. c - 1 : y.slot[t] # 0}
               X == {t \in 0 .. c - 1 : x.slot[t] # 0}
    <3>1. IsFiniteSet(X) /\ x.slots = Cardinality(X)
      <4>1. IsFiniteSet(0 .. c - 1)
        BY <1>1, FS_Interval
      <4>2. IsFiniteSet(X)
        BY <4>1, FS_Subset
      <4> QED
        BY <1>1, <4>2 DEF Slotted
    <3>2. Y = X \union {s} /\ (first = 0 <=> s \notin X)
      BY <1>3, <1>u DEF first
    <3>3. s \in X => Y = X
      BY <3>2
    <3>4. s \notin X => Cardinality(Y) = Cardinality(X) + 1
      <4> HIDE DEF X, Y
      <4> QED
        BY <3>1, <3>2, FS_AddElement
    <3> HIDE DEF X
    <3> QED
      BY <1>3, <3>1, <3>2, <3>3, <3>4
  <2> QED
    BY <2>1, <2>2 DEF Slotted
<1>8. Tops(U, hom2) = Tops(U, home)
  BY <1>4 DEF Tops
<1>9. Shape(B, y, c, U, U, key, hom2, ran2, lim + 1)
  BY <1>1, <1>3, <1>4, <1>5, <1>6, <1>7, <1>8 DEF Shape
<1>10. Beside(B, y, x)
  BY <1>3 DEF Beside
<1> QED
  BY <1>9, <1>10 DEF y, hom2, ran2

-------------------------------------------------------------------------------
(* An insertion.                                                            *)

\* Only the slots and the nodes of the rows matter.
LEMMA ShapeKept ==
    ASSUME NEW B, NEW x, NEW c, NEW U, NEW L, NEW key, NEW home, NEW rank, NEW lim,
           Shape(B, x, c, U, L, key, home, rank, lim),
           NEW y, HashType(B, y, c), y.slot = x.slot, y.slots = x.slots,
           \A q \in U : y.node[q] = x.node[q]
    PROVE  Shape(B, y, c, U, L, key, home, rank, lim)
<1>1. /\ B \subseteq Nat \ {0} /\ U \subseteq B /\ c \in Nat \ {0} /\ lim \in Nat /\ L \subseteq U
      /\ home \in [U -> Int] /\ rank \in [U -> Nat] /\ \A q \in U : rank[q] < lim
      /\ \A q \in L : Linked(x, c, L, home, rank, q)
      /\ \A q \in U : Owning(x, U, L, key, home, q)
      /\ Slotted(x, c, L, home)
      /\ \A p, q \in Tops(U, home) : key[p] = key[q] => p = q
  BY DEF Shape
<1>2. ASSUME NEW q \in L PROVE Linked(y, c, L, home, rank, q)
  <2>1. Linked(x, c, L, home, rank, q) /\ q \in U /\ Owning(x, U, L, key, home, q)
    BY <1>1
  <2>2. First(y, home[q]) = First(x, home[q])
    <3>1. ~(home[q] < 0) => home[q] \in U
      BY <2>1 DEF Owning
    <3> QED
      BY <3>1 DEF First
  <2>3. /\ y.node[q] = x.node[q]
        /\ x.node[q].next # 0 => y.node[x.node[q].next] = x.node[x.node[q].next]
        /\ x.node[q].prev \in L => y.node[x.node[q].prev] = x.node[x.node[q].prev]
    BY <1>1, <2>1 DEF Linked
  <2> QED
    BY <2>1, <2>2, <2>3 DEF Linked
<1>3. ASSUME NEW q \in U PROVE Owning(y, U, L, key, home, q)
  <2>1. Owning(x, U, L, key, home, q)
    BY <1>1
  <2>2. /\ y.node[q] = x.node[q]
        /\ x.node[q].sibling \in L => y.node[x.node[q].sibling] = x.node[x.node[q].sibling]
    BY <1>1
  <2> QED
    BY <2>1, <2>2 DEF Owning
<1>4. Slotted(y, c, L, home)
  BY <1>1 DEF Slotted
<1> QED
  BY <1>1, <1>2, <1>3, <1>4 DEF Shape

\* What a set of keys becomes when row r comes with key k.
With(key, U, r, k) == [q \in U \union {r} |-> IF q = r THEN k ELSE key[q]]

\* A new top node, not yet in a slot.
LEMMA FloatGives ==
    ASSUME NEW B, NEW x, NEW c, NEW U, NEW key, NEW home, NEW rank, NEW lim,
           Shape(B, x, c, U, U, key, home, rank, lim), NEW r \in B \ U, NEW k,
           \A t \in Tops(U, home) : key[t] # k,
           NEW y, HashType(B, y, c), y.slot = x.slot, y.slots = x.slots,
           \A q \in U : y.node[q] = x.node[q],
           y.node[r].sibling = 0, y.node[r].hash = Hash[k]
    PROVE  Shape(B, y, c, U \union {r}, U, With(key, U, r, k), [q \in U \union {r} |-> IF q = r THEN -1 ELSE home[q]],
                 [q \in U \union {r} |-> IF q = r THEN lim ELSE rank[q]], lim + 1)
<1> DEFINE V == U \union {r}
           key2 == With(key, U, r, k)
           hom2 == [q \in V |-> IF q = r THEN -1 ELSE home[q]]
           ran2 == [q \in V |-> IF q = r THEN lim ELSE rank[q]]
<1>0. Shape(B, y, c, U, U, key, home, rank, lim)
  BY ShapeKept
<1>1. /\ B \subseteq Nat \ {0} /\ U \subseteq B /\ c \in Nat \ {0} /\ lim \in Nat
      /\ home \in [U -> Int] /\ rank \in [U -> Nat] /\ \A q \in U : rank[q] < lim
      /\ \A q \in U : Linked(y, c, U, home, rank, q)
      /\ \A q \in U : Owning(y, U, U, key, home, q)
      /\ Slotted(y, c, U, home)
      /\ \A p, q \in Tops(U, home) : key[p] = key[q] => p = q
  BY <1>0 DEF Shape
<1>2. /\ hom2 \in [V -> Int] /\ ran2 \in [V -> Nat] /\ lim + 1 \in Nat /\ V \subseteq B
      /\ hom2[r] = -1 /\ ran2[r] = lim /\ key2[r] = k
      /\ \A q \in U : hom2[q] = home[q] /\ ran2[q] = rank[q] /\ key2[q] = key[q]
      /\ \A q \in V : ran2[q] < lim + 1
  BY <1>1 DEF With
<1> HIDE DEF hom2, ran2, key2
<1>3. ASSUME NEW q \in U PROVE Linked(y, c, U, hom2, ran2, q)
  <2>1. Linked(y, c, U, home, rank, q)
    BY <1>1
  <2> QED
    BY <1>2, <2>1 DEF Linked
<1>4. ASSUME NEW q \in V PROVE Owning(y, V, U, key2, hom2, q)
  <2>1. CASE q = r
    BY <1>2, <2>1 DEF Owning
  <2>2. CASE q # r
    <3>1. Owning(y, U, U, key, home, q) /\ q \in U
      BY <1>1, <2>2
    <3> QED
      BY <1>2, <3>1 DEF Owning
  <2> QED
    BY <2>1, <2>2
<1>5. Slotted(y, c, U, hom2)
  <2>1. \A s \in 0 .. c - 1 : y.slot[s] # 0 =>
            y.slot[s] \in U /\ hom2[y.slot[s]] = -1 - s /\ y.node[y.slot[s]].prev = -1 - s
    <3>1. \A s \in 0 .. c - 1 : y.slot[s] # 0 =>
              y.slot[s] \in U /\ home[y.slot[s]] = -1 - s /\ y.node[y.slot[s]].prev = -1 - s
      BY <1>1 DEF Slotted
    <3>2. \A q \in U : hom2[q] = home[q]
      BY <1>2
    <3> QED
      BY ONLY <3>1, <3>2
  <2>2. y.slots = Cardinality({s \in 0 .. c - 1 : y.slot[s] # 0})
    BY <1>1 DEF Slotted
  <2> QED
    BY ONLY <2>1, <2>2, Zenon DEF Slotted
<1>6. Tops(V, hom2) = Tops(U, home) \union {r}
  BY <1>2 DEF Tops
<1>7. \A p, q \in Tops(V, hom2) : key2[p] = key2[q] => p = q
  <2>1. \A q \in Tops(U, home) : q \in U /\ key2[q] = key[q] /\ key[q] # k
    BY <1>2 DEF Tops
  <2> QED
    BY <1>1, <1>2, <1>6, <2>1
<1>8. Shape(B, y, c, V, U, key2, hom2, ran2, lim + 1)
  BY <1>1, <1>2, <1>3, <1>4, <1>5, <1>7 DEF Shape
<1> QED
  BY <1>8 DEF V, key2, hom2, ran2

LEMMA CapIs ==
    ASSUME NEW B, NEW x, NEW c \in Nat, HashType(B, x, c)
    PROVE  Cap(x) = c
<1>1. DOMAIN x.slot = 0 .. c - 1
  BY DEF HashType
<1>2. Cardinality(0 .. c - 1) = c
  <2>1. 0 <= c - 1 \/ c = 0
    OBVIOUS
  <2>2. 0 \in Int /\ c - 1 \in Int
    OBVIOUS
  <2>3. Cardinality(0 .. c - 1) = IF 0 > c - 1 THEN 0 ELSE (c - 1) - 0 + 1
    BY <2>2, FS_Interval
  <2> QED
    BY <2>1, <2>3
<1> QED
  BY <1>1, <1>2 DEF Cap

\* Only the counters differ.
Recount(x, a, b) == [x EXCEPT !.tops = a, !.rows = b]

LEMMA CountersKept ==
    ASSUME NEW B, NEW x, NEW c, NEW U, NEW L, NEW key, NEW home, NEW rank, NEW lim,
           Shape(B, x, c, U, L, key, home, rank, lim),
           NEW a \in Int, NEW b \in Int
    PROVE  LET y == Recount(x, a, b)
           IN  Shape(B, y, c, U, L, key, home, rank, lim) /\ y.tops = a /\ y.rows = b /\ y.node = x.node
<1> DEFINE y == Recount(x, a, b)
           z == [x EXCEPT !.tops = a]
<1>1. /\ x.slot \in [0 .. c - 1 -> B \union {0}] /\ x.node \in [B -> HashNode(B)]
      /\ x.slots \in Int /\ x.tops \in Int /\ x.rows \in Int
      /\ z = [slot |-> x.slot, node |-> x.node, slots |-> x.slots, tops |-> a, rows |-> x.rows]
  <2>1. HashType(B, x, c)
    BY DEF Shape
  <2> QED
    BY ONLY <2>1 DEF HashType
<1>2. y = [z EXCEPT !.rows = b]
  BY DEF Recount
<1> HIDE DEF y, z
<1>3. y = [slot |-> x.slot, node |-> x.node, slots |-> x.slots, tops |-> a, rows |-> b]
  BY <1>1, <1>2
<1>4. HashType(B, y, c) /\ y.slot = x.slot /\ y.slots = x.slots /\ y.node = x.node /\ y.tops = a /\ y.rows = b
  BY <1>1, <1>3 DEF HashType
<1>5. Shape(B, y, c, U, L, key, home, rank, lim)
  BY <1>4, ShapeKept
<1> QED
  BY <1>4, <1>5 DEF y

\* An insertion as a top node.
LEMMA AddTopGives ==
    ASSUME NEW B, NEW x, NEW c, NEW U, NEW key, NEW home, NEW rank, NEW lim,
           Shape(B, x, c, U, U, key, home, rank, lim), Counted(x, U, home), Placed(c, U, key, home),
           IsFiniteSet(B), NEW r \in B \ U, NEW k, Hash[k] \in Nat,
           \A t \in Tops(U, home) : key[t] # k
    PROVE  Whole(B, [AddTop(x, k, r) EXCEPT !.rows = @ + 1], U \union {r}, With(key, U, r, k))
<1> DEFINE V == U \union {r}
           key2 == With(key, U, r, k)
           s == Hash[k] % c
           m == [x.node[r] EXCEPT !.hash = Hash[k], !.sibling = 0]
           y == [x EXCEPT !.node[r] = m, !.tops = x.tops + 1]
           z == Push(y, s, r)
           w == [z EXCEPT !.rows = z.rows + 1]
           hom1 == [q \in V |-> IF q = r THEN -1 ELSE home[q]]
           ran1 == [q \in V |-> IF q = r THEN lim ELSE rank[q]]
           hom2 == [hom1 EXCEPT ![r] = -1 - s]
           ran2 == [ran1 EXCEPT ![r] = lim + 1]
<1>1. /\ B \subseteq Nat \ {0} /\ U \subseteq B /\ c \in Nat \ {0} /\ lim \in Nat
      /\ home \in [U -> Int] /\ HashType(B, x, c) /\ r \in B /\ r \notin U /\ V \subseteq B /\ r \in V
      /\ U = V \ {r}
  BY DEF Shape
<1>2. /\ x.slot \in [0 .. c - 1 -> B \union {0}] /\ x.node \in [B -> HashNode(B)]
      /\ x.slots \in Int /\ x.tops \in Int /\ x.rows \in Int
  BY <1>1 DEF HashType
<1>3. HashType(B, y, c) /\ y.slot = x.slot /\ y.slots = x.slots /\ (\A q \in U : y.node[q] = x.node[q])
      /\ y.node[r].sibling = 0 /\ y.node[r].hash = Hash[k] /\ y.tops = x.tops + 1 /\ y.rows = x.rows
  <2> DEFINE f == [x.node EXCEPT ![r] = m]
  <2>1. m \in HashNode(B) /\ m.sibling = 0 /\ m.hash = Hash[k]
    <3>1. x.node[r] \in HashNode(B)
      BY <1>1, <1>2
    <3> DEFINE m1 == [x.node[r] EXCEPT !.hash = Hash[k]]
    <3>2. m1 \in HashNode(B) /\ m1.hash = Hash[k]
      BY <3>1 DEF HashNode
    <3>3. m = [m1 EXCEPT !.sibling = 0]
      OBVIOUS
    <3> HIDE DEF m1, m
    <3>4. 0 \in Int
      OBVIOUS
    <3> QED
      BY <3>2, <3>3, <3>4 DEF HashNode
  <2> HIDE DEF m
  <2>2. f \in [B -> HashNode(B)] /\ f[r] = m /\ \A q \in U : f[q] = x.node[q]
    BY <1>1, <1>2, <2>1
  <2>3. y = [x EXCEPT !.node = f, !.tops = x.tops + 1]
    BY DEF y
  <2>4. x.tops + 1 \in Int
    BY <1>2
  <2> HIDE DEF f, y
  <2>5. y = [slot |-> x.slot, node |-> f, slots |-> x.slots, tops |-> x.tops + 1, rows |-> x.rows]
    BY <1>1, <2>3 DEF HashType
  <2> QED
    BY <1>2, <2>1, <2>2, <2>4, <2>5 DEF HashType
<1>4. AddTop(x, k, r) = z
  <2>1. Cap(x) = c
    BY <1>1, CapIs
  <2> QED
    BY <2>1 DEF AddTop
<1> HIDE DEF y, m, z
<1>5. Shape(B, y, c, V, U, key2, hom1, ran1, lim + 1)
  <2> HIDE DEF key2
  <2> QED
    BY <1>3, FloatGives DEF key2
<1>6. s \in 0 .. c - 1 /\ s \in Int /\ -1 - s < 0
  BY <1>1
<1> HIDE DEF s
<1>7. hom1[r] < 0 /\ \A q \in U : hom1[q] = home[q]
  BY <1>1
<1>8. /\ Shape(B, z, c, V, V, key2, hom2, ran2, lim + 1 + 1)
      /\ Beside(B, z, y)
  <2>1. Shape(B, y, c, V, V \ {r}, key2, hom1, ran1, lim + 1)
    BY <1>1, <1>5
  <2> HIDE DEF V, key2, hom1, ran1
  <2> QED
    BY <1>1, <1>6, <1>7, <2>1, PushGives DEF z
<1>9. z.tops = x.tops + 1 /\ z.rows = x.rows
  BY <1>3, <1>8 DEF Beside
<1>10. hom2 \in [V -> Int] /\ ran2 \in [V -> Nat] /\ lim + 1 + 1 \in Nat
  BY <1>8 DEF Shape
<1>11. hom2[r] = -1 - s /\ \A q \in U : hom2[q] = home[q]
  BY <1>1, <1>7
<1>12. Tops(V, hom2) = Tops(U, home) \union {r} /\ r \notin Tops(U, home)
  <2> HIDE DEF hom2
  <2> QED
    BY <1>1, <1>6, <1>11 DEF Tops
<1>13. key2[r] = k /\ \A q \in U : key2[q] = key[q]
  BY <1>1 DEF With
<1> HIDE DEF key2, hom1, ran1, hom2, ran2
<1>14. Placed(c, V, key2, hom2)
  BY <1>11, <1>12, <1>13 DEF Placed, Tops, s
<1>15. w.node = z.node /\ Shape(B, w, c, V, V, key2, hom2, ran2, lim + 1 + 1)
       /\ w.tops = x.tops + 1 /\ w.rows = x.rows + 1
  <2>1. z.tops \in Int /\ z.rows + 1 \in Int
    BY <1>2, <1>9
  <2>2. w = Recount(z, z.tops, z.rows + 1)
    <3>1. HashType(B, z, c)
      BY <1>8 DEF Shape
    <3> QED
      BY <3>1 DEF HashType, Recount
  <2> HIDE DEF w
  <2>3. /\ Shape(B, w, c, V, V, key2, hom2, ran2, lim + 1 + 1) /\ w.tops = z.tops
        /\ w.rows = z.rows + 1 /\ w.node = z.node
    <3> DEFINE g == lim + 1 + 1  a == z.tops  b == z.rows + 1  v == Recount(z, a, b)
    <3>1. Shape(B, z, c, V, V, key2, hom2, ran2, g) /\ a \in Int /\ b \in Int
      BY <1>8, <2>1
    <3> HIDE DEF V, g, a, b
    <3>2. Shape(B, v, c, V, V, key2, hom2, ran2, g) /\ v.tops = a /\ v.rows = b /\ v.node = z.node
      BY <3>1, CountersKept
    <3> QED
      BY <2>2, <3>2 DEF g, a, b
  <2> QED
    BY <1>9, <2>3
<1>16. Counted(w, V, hom2)
  <2>1. IsFiniteSet(U) /\ IsFiniteSet(Tops(U, home))
    <3>1. Tops(U, home) \subseteq B
      BY <1>1 DEF Tops
    <3> QED
      BY <1>1, <3>1, FS_Subset
  <2>2. Cardinality(V) = Cardinality(U) + 1
    BY <1>1, <2>1, FS_AddElement
  <2>3. Cardinality(Tops(V, hom2)) = Cardinality(Tops(U, home)) + 1
    BY <1>12, <2>1, FS_AddElement
  <2> HIDE DEF w
  <2> QED
    BY <1>15, <2>2, <2>3 DEF Counted
<1>17. Whole(B, w, V, key2)
  <2> HIDE DEF w, V
  <2> QED
    BY <1>1, <1>10, <1>14, <1>15, <1>16 DEF Whole
<1>18. w = [AddTop(x, k, r) EXCEPT !.rows = @ + 1]
  BY <1>4
<1> HIDE DEF w
<1> QED
  BY <1>17, <1>18 DEF key2

\* y is x, with node r in front of the siblings of node t.
SiblingAdded(B, c, x, y, t, r) ==
    LET first == x.node[t].sibling
    IN  /\ HashType(B, y, c)
        /\ y.slot = x.slot /\ y.slots = x.slots /\ y.tops = x.tops /\ y.rows = x.rows
        /\ y.node[r] = [next |-> first, prev |-> 0, sibling |-> t, hash |-> x.node[t].hash]
        /\ \A q \in B \ {r} :
              /\ y.node[q].next = x.node[q].next /\ y.node[q].hash = x.node[q].hash
              /\ y.node[q].prev = IF q = first THEN r ELSE x.node[q].prev
              /\ y.node[q].sibling = IF q = first THEN -1 ELSE IF q = t THEN r ELSE x.node[q].sibling

LEMMA AddSiblingEffect ==
    ASSUME NEW B, NEW x, NEW c \in Nat \ {0}, HashType(B, x, c), B \subseteq Nat \ {0},
           NEW t \in B, NEW r \in B, r # t, x.node[t].sibling \in (B \ {t, r}) \union {0}
    PROVE  SiblingAdded(B, c, x, AddSibling(x, t, r), t, r)
<1> DEFINE first == x.node[t].sibling
           h == x.node[t].hash
           y == AddSibling(x, t, r)
           m == [next |-> first, prev |-> 0, sibling |-> t, hash |-> h]
           u == [x EXCEPT !.node[t].sibling = r]
           v == [u EXCEPT !.node[r] = m]
           w == [v EXCEPT !.node[first] = [@ EXCEPT !.prev = r, !.sibling = -1]]
<1>1. /\ r \in Int /\ t \in Int /\ -1 \in Int /\ 0 \in Int /\ 0 \notin B /\ r # first /\ t # first
      /\ first \in B \union {0} /\ h \in Nat
  <2>1. x.node[t] \in HashNode(B)
    BY DEF HashType
  <2>2. h \in Nat
    BY <2>1 DEF HashNode
  <2>3. r \in Int /\ t \in Int
    BY ONLY r \in B, t \in B, B \subseteq Nat \ {0}
  <2> QED
    BY <2>2, <2>3
<1> HIDE DEF first, h
<1>2. WithNode(B, c, x, u, t, x.node[t].next, x.node[t].prev, r, x.node[t].hash)
  BY <1>1, SetFields
<1> HIDE DEF u
<1>3. WithNode(B, c, u, v, r, first, 0, t, h)
  <2>1. HashType(B, u, c)
    BY <1>2 DEF WithNode
  <2> QED
    BY <1>1, <2>1, SetNode
<1>4. y = IF first = 0 THEN v ELSE w
  <2> DEFINE z == [x EXCEPT !.node[t].sibling = r, !.node[r] = m]
  <2>1. z = v
    BY DEF u
  <2>2. y = IF first = 0 THEN z ELSE [z EXCEPT !.node[first] = [@ EXCEPT !.prev = r, !.sibling = -1]]
    BY DEF AddSibling, first, h, SibMark, SlotMark
  <2> HIDE DEF v, y, z
  <2> QED
    BY <2>1, <2>2
<1> HIDE DEF v, w, y
<1>5. /\ HashType(B, v, c) /\ v.slot = x.slot /\ v.slots = x.slots /\ v.tops = x.tops /\ v.rows = x.rows
      /\ v.node[r] = m
      /\ \A q \in B \ {r} :
            /\ v.node[q].next = x.node[q].next /\ v.node[q].hash = x.node[q].hash
            /\ v.node[q].prev = x.node[q].prev
            /\ v.node[q].sibling = IF q = t THEN r ELSE x.node[q].sibling
  <2>1. \A q \in B \ {r} :
            /\ u.node[q].next = x.node[q].next /\ u.node[q].hash = x.node[q].hash
            /\ u.node[q].prev = x.node[q].prev
            /\ u.node[q].sibling = IF q = t THEN r ELSE x.node[q].sibling
    <3> TAKE q \in B \ {r}
    <3>1. CASE q = t
      BY <1>2, <3>1 DEF WithNode
    <3>2. CASE q # t
      BY <1>2, <3>2 DEF WithNode
    <3> QED
      BY <3>1, <3>2
  <2>2. \A q \in B \ {r} : v.node[q] = u.node[q]
    BY <1>3 DEF WithNode
  <2> QED
    BY <1>2, <1>3, <2>1, <2>2 DEF WithNode, h
<1>6. ASSUME first = 0 PROVE SiblingAdded(B, c, x, y, t, r)
  <2>1. \A q \in B \ {r} : q # first
    BY <1>1, <1>6
  <2> QED
    BY <1>4, <1>5, <1>6, <2>1 DEF SiblingAdded, first, h
<1>7. ASSUME first # 0 PROVE SiblingAdded(B, c, x, y, t, r)
  <2>1. WithNode(B, c, v, w, first, v.node[first].next, r, -1, v.node[first].hash)
    BY <1>1, <1>5, <1>7, SetFields DEF w
  <2>2. /\ HashType(B, w, c) /\ w.slot = x.slot /\ w.slots = x.slots /\ w.tops = x.tops /\ w.rows = x.rows
        /\ w.node[r] = m
        /\ \A q \in B \ {r} :
              /\ w.node[q].next = v.node[q].next /\ w.node[q].hash = v.node[q].hash
              /\ w.node[q].prev = IF q = first THEN r ELSE v.node[q].prev
              /\ w.node[q].sibling = IF q = first THEN -1 ELSE v.node[q].sibling
    <3>1. /\ HashType(B, w, c) /\ w.slot = x.slot /\ w.slots = x.slots /\ w.tops = x.tops /\ w.rows = x.rows
          /\ w.node[r] = m
      BY <1>1, <1>5, <2>1 DEF WithNode
    <3>2. ASSUME NEW q \in B \ {r}
          PROVE  /\ w.node[q].next = v.node[q].next /\ w.node[q].hash = v.node[q].hash
                 /\ w.node[q].prev = IF q = first THEN r ELSE v.node[q].prev
                 /\ w.node[q].sibling = IF q = first THEN -1 ELSE v.node[q].sibling
      <4>1. CASE q = first
        BY <2>1, <4>1 DEF WithNode
      <4>2. CASE q # first
        BY <2>1, <4>2 DEF WithNode
      <4> QED
        BY <4>1, <4>2
    <3> QED
      BY <3>1, <3>2
  <2>3. \A q \in B \ {r} :
              /\ w.node[q].next = x.node[q].next /\ w.node[q].hash = x.node[q].hash
              /\ w.node[q].prev = IF q = first THEN r ELSE x.node[q].prev
              /\ w.node[q].sibling = IF q = first THEN -1 ELSE IF q = t THEN r ELSE x.node[q].sibling
    BY <1>5, <2>2
  <2> QED
    BY <1>4, <1>7, <2>2, <2>3 DEF SiblingAdded, first, h
<1> QED
  BY <1>6, <1>7 DEF y

\* An insertion below a top node.
LEMMA AddSiblingShape ==
    ASSUME NEW B, NEW x, NEW c, NEW U, NEW key, NEW home, NEW rank, NEW lim,
           Shape(B, x, c, U, U, key, home, rank, lim),
           NEW r \in B \ U, NEW t \in Tops(U, home)
    PROVE  LET V == U \union {r}
               y == AddSibling(x, t, r)
           IN  /\ Shape(B, y, c, V, V, With(key, U, r, key[t]),
                        [q \in V |-> IF q = r THEN t ELSE home[q]],
                        [q \in V |-> IF q = r THEN lim ELSE rank[q]], lim + 1)
               /\ y.tops = x.tops /\ y.rows = x.rows
<1> DEFINE V == U \union {r}
           y == AddSibling(x, t, r)
           key2 == With(key, U, r, key[t])
           hom2 == [q \in V |-> IF q = r THEN t ELSE home[q]]
           ran2 == [q \in V |-> IF q = r THEN lim ELSE rank[q]]
           first == x.node[t].sibling
<1>1. /\ B \subseteq Nat \ {0} /\ U \subseteq B /\ c \in Nat \ {0} /\ lim \in Nat
      /\ home \in [U -> Int] /\ rank \in [U -> Nat] /\ \A q \in U : rank[q] < lim
      /\ \A q \in U : Linked(x, c, U, home, rank, q)
      /\ \A q \in U : Owning(x, U, U, key, home, q)
      /\ Slotted(x, c, U, home)
      /\ \A p, q \in Tops(U, home) : key[p] = key[q] => p = q
      /\ HashType(B, x, c)
  BY DEF Shape
<1>u. \A q \in B : q \in Nat /\ q # 0 /\ q > 0 /\ ~(q < 0)
  BY <1>1
<1>v. \A q \in U : q \in B /\ q # r /\ q \in Nat /\ q # 0 /\ q > 0 /\ ~(q < 0)
  BY <1>1, <1>u
<1>2. /\ t \in U /\ t \in B /\ home[t] < 0 /\ r \in B /\ r \notin U
      /\ first # 0 => first \in U /\ home[first] = t /\ x.node[first].prev = 0 /\ first # t /\ first # r
  <2>1. t \in U /\ home[t] < 0 /\ Owning(x, U, U, key, home, t)
    BY <1>1 DEF Tops
  <2> QED
    BY <1>v, <2>1 DEF Owning
<1>3. SiblingAdded(B, c, x, y, t, r)
  <2>1. first \in (B \ {t, r}) \union {0} /\ r # t
    BY <1>1, <1>2
  <2> QED
    BY <1>1, <1>2, <2>1, AddSiblingEffect
<1> HIDE DEF y, first
<1>4. /\ HashType(B, y, c)
      /\ y.slot = x.slot /\ y.slots = x.slots /\ y.tops = x.tops /\ y.rows = x.rows
      /\ y.node[r].next = first /\ y.node[r].prev = 0 /\ y.node[r].sibling = t
      /\ y.node[r].hash = x.node[t].hash
      /\ \A q \in U :
            /\ y.node[q].next = x.node[q].next /\ y.node[q].hash = x.node[q].hash
            /\ y.node[q].prev = IF q = first THEN r ELSE x.node[q].prev
            /\ y.node[q].sibling = IF q = first THEN -1 ELSE IF q = t THEN r ELSE x.node[q].sibling
  BY <1>3, <1>v DEF SiblingAdded, first
<1>5. /\ hom2 \in [V -> Int] /\ ran2 \in [V -> Nat] /\ lim + 1 \in Nat /\ V \subseteq B
      /\ hom2[r] = t /\ ran2[r] = lim /\ key2[r] = key[t]
      /\ \A q \in U : hom2[q] = home[q] /\ ran2[q] = rank[q] /\ key2[q] = key[q] /\ q \in V
      /\ \A q \in V : ran2[q] < lim + 1
      /\ r \in V
  <2>1. t \in Int
    BY <1>2, <1>u
  <2> QED
    BY <1>1, <1>2, <2>1 DEF With
<1> HIDE DEF hom2, ran2, key2
<1>6. ASSUME NEW q \in V PROVE Linked(y, c, V, hom2, ran2, q)
  <2>1. CASE q = r
    <3>1. ASSUME first # 0
          PROVE  first \in V /\ hom2[first] = hom2[r] /\ ran2[first] < ran2[r] /\ y.node[first].prev = r
      BY <1>1, <1>2, <1>4, <1>5, <3>1
    <3>2. First(y, hom2[r]) = r /\ Mark(hom2[r]) = 0 /\ ~(hom2[r] < 0)
      <4>1. y.node[t].sibling = r
        BY <1>2, <1>4, <1>v
      <4> QED
        BY <1>2, <1>5, <1>u, <4>1 DEF First, Mark
    <3> QED
      BY <1>4, <1>5, <2>1, <3>1, <3>2 DEF Linked
  <2>2. CASE q # r
    <3>1. Linked(x, c, U, home, rank, q) /\ q \in U /\ hom2[q] = home[q] /\ ran2[q] = rank[q]
      BY <1>1, <1>5, <2>2
    <3>2. y.node[q].next = x.node[q].next
      BY <1>4, <3>1
    <3>3. y.node[q].next # 0 =>
              /\ y.node[q].next \in V /\ hom2[y.node[q].next] = hom2[q]
              /\ ran2[y.node[q].next] < ran2[q] /\ y.node[y.node[q].next].prev = q
      <4> DEFINE z == x.node[q].next
      <4>1. SUFFICES ASSUME z # 0
                     PROVE  /\ z \in V /\ hom2[z] = hom2[q] /\ ran2[z] < ran2[q]
                            /\ y.node[z].prev = q
        BY <3>2
      <4>2. z \in U /\ home[z] = home[q] /\ rank[z] < rank[q] /\ x.node[z].prev = q
        BY <3>1, <4>1 DEF Linked
      <4>3. z # first
        BY <1>2, <1>v, <3>1, <4>2
      <4>4. y.node[z].prev = q
        BY <1>4, <4>2, <4>3
      <4> QED
        BY <1>5, <3>1, <4>2, <4>4
    <3>4. \/ y.node[q].prev \in V /\ y.node[y.node[q].prev].next = q
          \/ First(y, hom2[q]) = q /\ y.node[q].prev = Mark(hom2[q])
      <4>1. CASE q = first
        BY <1>4, <1>5, <3>1, <4>1
      <4>2. CASE q # first
        <5> DEFINE p == x.node[q].prev
        <5>1. y.node[q].prev = p
          BY <1>4, <3>1, <4>2
        <5>2. CASE p \in U /\ x.node[p].next = q
          BY <1>4, <1>5, <5>1, <5>2
        <5>3. CASE First(x, home[q]) = q /\ p = Mark(home[q])
          <6>1. CASE home[q] < 0
            BY <1>4, <3>1, <5>1, <5>3, <6>1 DEF First
          <6>2. CASE ~(home[q] < 0)
            <7> DEFINE g == home[q]
            <7>1. g \in U /\ home[g] < 0
              BY <1>1, <3>1, <6>2 DEF Owning
            <7>2. g # t
              BY <4>2, <5>3, <6>2 DEF First, first
            <7>3. g # first
              BY <1>2, <1>v, <7>1
            <7>4. y.node[g].sibling = x.node[g].sibling
              BY <1>4, <7>1, <7>2, <7>3
            <7> QED
              BY <3>1, <5>1, <5>3, <6>2, <7>4 DEF First
          <6> QED
            BY <6>1, <6>2
        <5> QED
          BY <3>1, <5>2, <5>3 DEF Linked
      <4> QED
        BY <4>1, <4>2
    <3>5. IF hom2[q] < 0 THEN -1 - hom2[q] \in 0 .. c - 1
          ELSE y.node[q].sibling = IF y.node[q].prev = 0 THEN hom2[q] ELSE -1
      <4>1. CASE home[q] < 0
        BY <3>1, <4>1 DEF Linked
      <4>2. CASE ~(home[q] < 0) /\ q = first
        <5>1. y.node[q].sibling = -1 /\ y.node[q].prev # 0
          BY <1>2, <1>4, <1>u, <3>1, <4>2
        <5> QED
          BY <3>1, <4>2, <5>1
      <4>3. CASE ~(home[q] < 0) /\ q # first
        <5>1. y.node[q].sibling = x.node[q].sibling /\ y.node[q].prev = x.node[q].prev
          BY <1>2, <1>4, <3>1, <4>3
        <5> QED
          BY <3>1, <4>3, <5>1 DEF Linked
      <4> QED
        BY <4>1, <4>2, <4>3
    <3> QED
      BY <3>3, <3>4, <3>5 DEF Linked
  <2> QED
    BY <2>1, <2>2
<1>7. ASSUME NEW q \in V PROVE Owning(y, V, V, key2, hom2, q)
  <2>1. CASE q = r
    <3>1. x.node[t].hash = Hash[key[t]]
      BY <1>1, <1>2 DEF Owning
    <3>2. ~(t < 0) /\ hom2[t] < 0 /\ key2[t] = key[t]
      BY <1>2, <1>5, <1>u
    <3> QED
      BY <1>2, <1>4, <1>5, <2>1, <3>1, <3>2 DEF Owning
  <2>2. CASE q = t
    <3>1. y.node[t].sibling = r /\ y.node[t].hash = x.node[t].hash
      BY <1>2, <1>4, <1>v
    <3>2. x.node[t].hash = Hash[key[t]]
      BY <1>1, <1>2 DEF Owning
    <3> QED
      BY <1>2, <1>4, <1>5, <2>2, <3>1, <3>2 DEF Owning
  <2>3. CASE q # r /\ q # t
    <3>1. Owning(x, U, U, key, home, q) /\ q \in U /\ hom2[q] = home[q] /\ key2[q] = key[q]
      BY <1>1, <1>5, <2>3
    <3>2. y.node[q].hash = Hash[key[q]]
      BY <1>4, <3>1 DEF Owning
    <3>3. CASE home[q] < 0
      <4> DEFINE z == x.node[q].sibling
      <4>1. y.node[q].sibling = z
        BY <1>2, <1>4, <1>v, <2>3, <3>1, <3>3
      <4>2. ASSUME z # 0 PROVE z \in V /\ hom2[z] = q /\ y.node[z].prev = 0
        <5>1. z \in U /\ home[z] = q /\ x.node[z].prev = 0
          BY <3>1, <3>3, <4>2 DEF Owning
        <5>2. z # first
          BY <1>2, <1>v, <2>3, <5>1
        <5> QED
          BY <1>4, <1>5, <5>1, <5>2
      <4> HIDE DEF z
      <4> QED
        BY <3>1, <3>2, <3>3, <4>1, <4>2 DEF Owning
    <3>4. CASE ~(home[q] < 0)
      <4>1. home[q] \in U /\ home[home[q]] < 0 /\ key[home[q]] = key[q]
        BY <3>1, <3>4 DEF Owning
      <4> QED
        BY <1>5, <3>1, <3>2, <3>4, <4>1 DEF Owning
    <3> QED
      BY <3>3, <3>4
  <2> QED
    BY <2>1, <2>2, <2>3
<1>8. Slotted(y, c, V, hom2)
  <2>1. ASSUME NEW s \in 0 .. c - 1, y.slot[s] # 0
        PROVE  y.slot[s] \in V /\ hom2[y.slot[s]] = -1 - s /\ y.node[y.slot[s]].prev = -1 - s
    <3> DEFINE q == x.slot[s]
    <3>1. y.slot[s] = q
      BY <1>4
    <3>2. q \in U /\ home[q] = -1 - s /\ x.node[q].prev = -1 - s /\ -1 - s < 0
      BY <1>1, <2>1, <3>1 DEF Slotted
    <3>3. q # first
      BY <1>2, <1>v, <3>2
    <3>4. y.node[q].prev = x.node[q].prev
      BY <1>4, <3>2, <3>3
    <3> QED
      BY <1>5, <3>1, <3>2, <3>4
  <2>2. y.slots = Cardinality({s \in 0 .. c - 1 : y.slot[s] # 0})
    BY <1>1, <1>4 DEF Slotted
  <2> QED
    BY <2>1, <2>2 DEF Slotted
<1>9. Tops(V, hom2) = Tops(U, home)
  BY <1>2, <1>5, <1>u DEF Tops
<1>10. \A p, q \in Tops(V, hom2) : key2[p] = key2[q] => p = q
  BY <1>1, <1>5, <1>9 DEF Tops
<1>11. Shape(B, y, c, V, V, key2, hom2, ran2, lim + 1)
  BY <1>1, <1>4, <1>5, <1>6, <1>7, <1>8, <1>10 DEF Shape
<1> QED
  BY <1>4, <1>11 DEF y, key2, hom2, ran2

LEMMA AddSiblingGives ==
    ASSUME NEW B, NEW x, NEW c, NEW U, NEW key, NEW home, NEW rank, NEW lim,
           Shape(B, x, c, U, U, key, home, rank, lim), Counted(x, U, home), Placed(c, U, key, home),
           IsFiniteSet(B), NEW r \in B \ U, NEW t \in Tops(U, home)
    PROVE  Whole(B, [AddSibling(x, t, r) EXCEPT !.rows = @ + 1], U \union {r}, With(key, U, r, key[t]))
<1> DEFINE V == U \union {r}
           y == AddSibling(x, t, r)
           key2 == With(key, U, r, key[t])
           hom2 == [q \in V |-> IF q = r THEN t ELSE home[q]]
           ran2 == [q \in V |-> IF q = r THEN lim ELSE rank[q]]
           w == [y EXCEPT !.rows = @ + 1]
<1>1. /\ B \subseteq Nat \ {0} /\ U \subseteq B /\ c \in Nat \ {0} /\ lim \in Nat
      /\ home \in [U -> Int] /\ HashType(B, x, c) /\ t \in U
  BY DEF Shape, Tops
<1>2. Shape(B, y, c, V, V, key2, hom2, ran2, lim + 1) /\ y.tops = x.tops /\ y.rows = x.rows
  BY AddSiblingShape
<1> HIDE DEF y
<1>3. x.tops \in Int /\ x.rows \in Int
  BY <1>1 DEF HashType
<1>4. w = Recount(y, y.tops, y.rows + 1)
  <2>1. HashType(B, y, c)
    BY <1>2 DEF Shape
  <2> QED
    BY <2>1 DEF HashType, Recount
<1>5. Shape(B, w, c, V, V, key2, hom2, ran2, lim + 1) /\ w.tops = x.tops /\ w.rows = x.rows + 1
  <2> DEFINE a == y.tops  b == y.rows + 1  v == Recount(y, a, b)  g == lim + 1
  <2>1. a \in Int /\ b \in Int /\ Shape(B, y, c, V, V, key2, hom2, ran2, g)
    BY <1>2, <1>3
  <2> HIDE DEF a, b, V, key2, hom2, ran2, g
  <2>2. Shape(B, v, c, V, V, key2, hom2, ran2, g) /\ v.tops = a /\ v.rows = b
    BY <2>1, CountersKept
  <2> QED
    BY <1>2, <1>4, <2>2 DEF a, b, g
<1> HIDE DEF w
<1>6. /\ hom2 \in [V -> Int] /\ ran2 \in [V -> Nat] /\ lim + 1 \in Nat
      /\ hom2[r] = t /\ ~(t < 0) /\ t \in Int /\ \A q \in U : hom2[q] = home[q] /\ key2[q] = key[q]
  <2>1. hom2 \in [V -> Int] /\ ran2 \in [V -> Nat] /\ lim + 1 \in Nat
    BY <1>5 DEF Shape
  <2>2. ~(t < 0) /\ t \in Int
    BY <1>1
  <2> QED
    BY <2>1, <2>2 DEF With
<1> HIDE DEF key2, hom2, ran2
<1>7. Tops(V, hom2) = Tops(U, home)
  BY <1>6 DEF Tops
<1>8. Placed(c, V, key2, hom2)
  BY <1>6, <1>7 DEF Placed, Tops
<1>9. Counted(w, V, hom2)
  <2>1. IsFiniteSet(U)
    BY <1>1, FS_Subset
  <2>2. Cardinality(V) = Cardinality(U) + 1
    BY <1>1, <2>1, FS_AddElement
  <2> QED
    BY <1>5, <1>7, <2>2 DEF Counted
<1>10. Whole(B, w, V, key2)
  <2> DEFINE g == lim + 1
  <2>1. g \in Nat /\ Shape(B, w, c, V, V, key2, hom2, ran2, g)
    BY <1>5, <1>6
  <2> HIDE DEF V, g
  <2> QED
    BY <1>1, <1>6, <1>8, <1>9, <2>1 DEF Whole
<1> QED
  BY <1>10 DEF w, y, key2

\* A row is inserted: it has the key, the others keep theirs.
LEMMA InsertedIs ==
    ASSUME NEW i, NEW x, NEW U, Whole(Blocks, x, U, Keyed(i, U)), IsFiniteSet(Blocks),
           U \subseteq Used, NEW r \in Blocks \ U, NEW k, Hash[k] \in Nat
    PROVE  Whole(Blocks, HashInserted(x, i, r, k), U \union {r}, With(Keyed(i, U), U, r, k))
<1> DEFINE key == Keyed(i, U)
           t == TopOf(x, i, k)
<1>0. PICK c \in Nat \ {0}, home \in [U -> Int], rank \in [U -> Nat], lim \in Nat :
          Shape(Blocks, x, c, U, U, key, home, rank, lim) /\ Counted(x, U, home) /\ Placed(c, U, key, home)
  BY DEF Whole
<1>1. TopFound(x, i, U, home, k)
  BY <1>0, TopIs
<1>2. \A q \in U : key[q] = row[q][i]
  BY DEF Keyed
<1> HIDE DEF key, t
<1>3. CASE t = 0
  <2>1. 0 \notin Tops(U, home)
    BY <1>0 DEF Shape, Tops
  <2>2. \A q \in Tops(U, home) : key[q] # k
    BY <1>1, <1>2, <1>3, <2>1 DEF TopFound, t, Tops
  <2>3. HashInserted(x, i, r, k) = [AddTop(x, k, r) EXCEPT !.rows = @ + 1]
    BY <1>3 DEF HashInserted, t
  <2>4. Whole(Blocks, [AddTop(x, k, r) EXCEPT !.rows = @ + 1], U \union {r}, With(key, U, r, k))
    BY <1>0, <2>2, AddTopGives
  <2> QED
    BY <2>3, <2>4 DEF key
<1>4. CASE t # 0
  <2>1. t \in Tops(U, home) /\ key[t] = k
    BY <1>1, <1>2, <1>4 DEF TopFound, t, Tops
  <2>3. HashInserted(x, i, r, k) = [AddSibling(x, t, r) EXCEPT !.rows = @ + 1]
    BY <1>4 DEF HashInserted, t
  <2>4. Whole(Blocks, [AddSibling(x, t, r) EXCEPT !.rows = @ + 1], U \union {r}, With(key, U, r, key[t]))
    BY <1>0, <2>1, AddSiblingGives
  <2> QED
    BY <2>1, <2>3, <2>4 DEF key
<1> QED
  BY <1>3, <1>4

-------------------------------------------------------------------------------
(* A removal.                                                               *)

\* A list with a member has a first one.
LEMMA ListStarts ==
    ASSUME NEW B, NEW x, NEW c, NEW U, NEW key, NEW home, NEW rank, NEW lim,
           Shape(B, x, c, U, U, key, home, rank, lim), NEW q \in U
    PROVE  First(x, home[q]) # 0
<1>1. /\ home \in [U -> Int] /\ Linked(x, c, U, home, rank, q) /\ Owning(x, U, U, key, home, q)
  BY DEF Shape
<1>2. IsHead(c, U, home, home[q])
  BY <1>1 DEF Linked, Owning, IsHead, Tops
<1>3. Strung(x, Members(U, home, home[q]), First(x, home[q]), rank, lim)
  BY <1>2, ListStrung
<1> QED
  BY <1>3 DEF Strung, Members

\* A row that is in no list and has no siblings is left out.
LEMMA LeftOut ==
    ASSUME NEW B, NEW x, NEW c, NEW U, NEW key, NEW home, NEW rank, NEW lim,
           NEW r \in U, Shape(B, x, c, U, U \ {r}, key, home, rank, lim),
           \A q \in U : home[q] # r
    PROVE  LET V == U \ {r}
           IN  Shape(B, x, c, V, V, key, Restrict(home, V), Restrict(rank, V), lim)
<1> DEFINE V == U \ {r}
           hom2 == Restrict(home, V)
           ran2 == Restrict(rank, V)
<1>1. /\ B \subseteq Nat \ {0} /\ U \subseteq B /\ c \in Nat \ {0} /\ lim \in Nat
      /\ home \in [U -> Int] /\ rank \in [U -> Nat] /\ \A q \in U : rank[q] < lim
      /\ \A q \in V : Linked(x, c, V, home, rank, q)
      /\ \A q \in U : Owning(x, U, V, key, home, q)
      /\ Slotted(x, c, V, home)
      /\ \A p, q \in Tops(U, home) : key[p] = key[q] => p = q
      /\ HashType(B, x, c)
  BY DEF Shape
<1>2. /\ hom2 \in [V -> Int] /\ ran2 \in [V -> Nat] /\ V \subseteq B
      /\ \A q \in V : hom2[q] = home[q] /\ ran2[q] = rank[q]
      /\ \A q \in V : ran2[q] < lim
  BY <1>1 DEF Restrict
<1> HIDE DEF hom2, ran2
<1>3. ASSUME NEW q \in V PROVE Linked(x, c, V, hom2, ran2, q)
  <2>1. Linked(x, c, V, home, rank, q)
    BY <1>1
  <2> HIDE DEF V
  <2> QED
    BY <1>2, <2>1 DEF Linked
<1>4. ASSUME NEW q \in V PROVE Owning(x, V, V, key, hom2, q)
  <2>1. Owning(x, U, V, key, home, q)
    BY <1>1
  <2>2. home[q] # r
    BY <1>3
  <2> QED
    BY <1>2, <2>1, <2>2 DEF Owning
<1>5. Slotted(x, c, V, hom2)
  <2>1. \A s \in 0 .. c - 1 : x.slot[s] # 0 =>
            x.slot[s] \in V /\ hom2[x.slot[s]] = -1 - s /\ x.node[x.slot[s]].prev = -1 - s
    <3> HIDE DEF V
    <3> QED
      BY <1>1, <1>2 DEF Slotted
  <2>2. x.slots = Cardinality({s \in 0 .. c - 1 : x.slot[s] # 0})
    BY <1>1 DEF Slotted
  <2> QED
    BY ONLY <2>1, <2>2, Zenon DEF Slotted
<1>6. Tops(V, hom2) \subseteq Tops(U, home)
  BY <1>2 DEF Tops
<1>7. \A p, q \in Tops(V, hom2) : key[p] = key[q] => p = q
  BY <1>1, <1>6
<1>8. Shape(B, x, c, V, V, key, hom2, ran2, lim)
  BY <1>1, <1>2, <1>3, <1>4, <1>5, <1>7 DEF Shape
<1> QED
  BY <1>8 DEF hom2, ran2

\* The index without row r; the rest of node r is of no use.
Rest(y, r) == [y EXCEPT !.node[r] = Nowhere, !.rows = @ - 1]

LEMMA RestIs ==
    ASSUME NEW B, NEW y, NEW c, NEW V, NEW key, NEW home, NEW rank, NEW lim,
           Shape(B, y, c, V, V, key, home, rank, lim), NEW r \in B \ V
    PROVE  LET z == Rest(y, r)
           IN  Shape(B, z, c, V, V, key, home, rank, lim) /\ z.tops = y.tops /\ z.rows = y.rows - 1
<1> DEFINE z == Rest(y, r)
           u == [y EXCEPT !.node[r] = [next |-> 0, prev |-> 0, sibling |-> 0, hash |-> 0]]
<1>1. HashType(B, y, c) /\ y.rows \in Int /\ y.tops \in Int
  BY DEF Shape, HashType
<1>2. WithNode(B, c, y, u, r, 0, 0, 0, 0)
  BY <1>1, SetNode
<1>3. z = [u EXCEPT !.rows = @ - 1]
  BY DEF Rest, Nowhere
<1> HIDE DEF u, z
<1>4. HashType(B, u, c) /\ u.slot = y.slot /\ u.slots = y.slots /\ u.tops = y.tops /\ u.rows = y.rows
      /\ \A q \in V : u.node[q] = y.node[q]
  <2>1. V \subseteq B
    BY DEF Shape
  <2> QED
    BY <1>2, <2>1 DEF WithNode
<1>5. /\ HashType(B, z, c) /\ z.slot = u.slot /\ z.slots = u.slots /\ z.tops = u.tops /\ z.rows = u.rows - 1
      /\ z.node = u.node
  <2>1. u.rows - 1 \in Int
    BY <1>1, <1>4
  <2> QED
    BY <1>3, <1>4, <2>1 DEF HashType
<1>6. Shape(B, z, c, V, V, key, home, rank, lim)
  BY <1>4, <1>5, ShapeKept
<1> QED
  BY <1>4, <1>5, <1>6 DEF z

\* The rows V are in y, which still counts as many rows as x.
Left(B, c, y, V, key, rows) ==
    \E home \in [V -> Int], rank \in [V -> Nat], lim \in Nat :
        /\ Shape(B, y, c, V, V, key, home, rank, lim) /\ Placed(c, V, key, home)
        /\ y.tops = Cardinality(Tops(V, home)) /\ y.rows = rows

LEMMA RemPlainGives ==
    ASSUME NEW B, NEW x, NEW c, NEW U, NEW key, NEW home, NEW rank, NEW lim,
           Shape(B, x, c, U, U, key, home, rank, lim), Counted(x, U, home), Placed(c, U, key, home),
           IsFiniteSet(B), NEW r \in U, x.node[r].sibling <= 0
    PROVE  Left(B, c, RemPlain(x, r), U \ {r}, key, x.rows)
<1> DEFINE V == U \ {r}
           n == x.node[r]
           y == Unlink(x, r)
           w == RemPlain(x, r)
           hom2 == Restrict(home, V)
           ran2 == Restrict(rank, V)
<1>1. /\ B \subseteq Nat \ {0} /\ U \subseteq B /\ c \in Nat \ {0} /\ lim \in Nat
      /\ home \in [U -> Int] /\ HashType(B, x, c)
      /\ \A q \in U : Linked(x, c, U, home, rank, q)
      /\ \A q \in U : Owning(x, U, U, key, home, q)
  BY DEF Shape
<1>u. \A q \in U : q \in B /\ q \in Nat /\ q # 0 /\ q > 0 /\ ~(q < 0) /\ ~(q <= 0)
  <2> TAKE q \in U
  <2>1. q \in B /\ q \in Nat /\ q # 0
    BY <1>1
  <2> QED
    BY ONLY <2>1
<1>2. n.sibling \in Int /\ n.prev \in Int /\ x.tops \in Int /\ x.rows \in Int
  BY <1>1 DEF HashType, HashNode
<1>3. n.prev # 0 /\ (home[r] < 0 <=> n.sibling = 0)
  <2>1. Linked(x, c, U, home, rank, r) /\ Owning(x, U, U, key, home, r)
    BY <1>1
  <2>2. CASE home[r] < 0
    <3>1. n.sibling = 0
      BY <1>u, <2>1, <2>2 DEF Owning
    <3>2. n.prev # 0
      BY <1>u, <2>1, <2>2 DEF Linked, Mark
    <3> QED
      BY <2>2, <3>1, <3>2
  <2>3. CASE ~(home[r] < 0)
    <3>1. home[r] \in U
      BY <2>1, <2>3 DEF Owning
    <3>2. n.sibling = IF n.prev = 0 THEN home[r] ELSE -1
      BY <2>1, <2>3 DEF Linked
    <3> QED
      BY <1>u, <2>3, <3>1, <3>2
  <2> QED
    BY <2>2, <2>3
<1>4. ASSUME NEW q \in U, home[q] = r PROVE FALSE
  <2>1. First(x, r) # 0
    BY <1>4, ListStarts
  <2>2. n.sibling # 0 /\ home[r] < 0
    BY <1>1, <1>4, <1>u, <2>1 DEF First, Owning
  <2> QED
    BY <1>3, <2>2
<1>5. Shape(B, y, c, U, V, key, home, rank, lim) /\ Beside(B, y, x)
  BY <1>3, UnlinkGives
<1> HIDE DEF y
<1>6. Shape(B, y, c, V, V, key, hom2, ran2, lim)
  <2>1. \A q \in U : home[q] # r
    BY <1>4
  <2> QED
    BY <1>5, <2>1, LeftOut
<1>7. hom2 \in [V -> Int] /\ ran2 \in [V -> Nat] /\ \A q \in V : hom2[q] = home[q]
  BY <1>6 DEF Shape, Restrict
<1> HIDE DEF hom2, ran2
<1> DEFINE a == IF n.sibling = 0 THEN x.tops - 1 ELSE x.tops
           b == x.rows
<1>8. w = Recount(y, a, b)
  <2>1. y.tops = x.tops /\ y.rows = x.rows
    BY <1>5 DEF Beside
  <2>2. w = [y EXCEPT !.tops = a]
    BY <2>1 DEF RemPlain, y
  <2>3. HashType(B, y, c)
    BY <1>6 DEF Shape
  <2> HIDE DEF w, a
  <2> QED
    BY <2>1, <2>2, <2>3 DEF Recount, HashType
<1>9. a \in Int /\ b \in Int
  BY <1>2
<1> HIDE DEF w, a, b
<1>10. Shape(B, w, c, V, V, key, hom2, ran2, lim) /\ w.tops = a /\ w.rows = b
  <2> HIDE DEF V
  <2> QED
    BY <1>6, <1>8, <1>9, CountersKept
<1>11. Placed(c, V, key, hom2)
  BY <1>7 DEF Placed, Tops
<1>12. a = Cardinality(Tops(V, hom2))
  <2>1. IsFiniteSet(Tops(U, home)) /\ x.tops = Cardinality(Tops(U, home))
    <3>1. Tops(U, home) \subseteq B
      BY <1>1 DEF Tops
    <3> QED
      BY <3>1, FS_Subset DEF Counted
  <2>2. CASE n.sibling = 0
    <3>1. r \in Tops(U, home) /\ Tops(V, hom2) = Tops(U, home) \ {r}
      BY <1>3, <1>7, <2>2 DEF Tops
    <3> QED
      BY <2>1, <2>2, <3>1, FS_RemoveElement DEF a
  <2>3. CASE n.sibling # 0
    <3>1. Tops(V, hom2) = Tops(U, home)
      BY <1>3, <1>7, <2>3 DEF Tops
    <3> QED
      BY <2>1, <2>3, <3>1 DEF a
  <2> QED
    BY <2>2, <2>3
<1>13. Left(B, c, w, V, key, x.rows)
  <2> HIDE DEF V
  <2> QED
    BY <1>1, <1>7, <1>10, <1>11, <1>12 DEF Left, b
<1> QED
  BY <1>13 DEF w

\* The first sibling goes.
LEMMA RemFirstGives ==
    ASSUME NEW B, NEW x, NEW c, NEW U, NEW key, NEW home, NEW rank, NEW lim,
           Shape(B, x, c, U, U, key, home, rank, lim), Counted(x, U, home), Placed(c, U, key, home),
           IsFiniteSet(B), NEW r \in U, x.node[r].prev = 0
    PROVE  Left(B, c, RemFirstSibling(x, r), U \ {r}, key, x.rows)
<1> DEFINE V == U \ {r}
           n == x.node[r]
           e == n.next
           t == n.sibling
           y == RemFirstSibling(x, r)
           hom2 == Restrict(home, V)
           ran2 == Restrict(rank, V)
<1>1. /\ B \subseteq Nat \ {0} /\ U \subseteq B /\ c \in Nat \ {0} /\ lim \in Nat
      /\ home \in [U -> Int] /\ rank \in [U -> Nat] /\ \A q \in U : rank[q] < lim
      /\ \A q \in U : Linked(x, c, U, home, rank, q)
      /\ \A q \in U : Owning(x, U, U, key, home, q)
      /\ Slotted(x, c, U, home)
      /\ \A p, q \in Tops(U, home) : key[p] = key[q] => p = q
      /\ HashType(B, x, c)
  BY DEF Shape
<1>u. \A q \in U : q \in B /\ q \in Nat /\ q # 0 /\ q > 0 /\ ~(q < 0)
  <2> TAKE q \in U
  <2>1. q \in B /\ q \in Nat /\ q # 0
    BY <1>1
  <2> QED
    BY ONLY <2>1
<1>2. /\ t \in U /\ t = home[r] /\ home[t] < 0 /\ t # r /\ ~(home[r] < 0) /\ x.node[t].sibling = r
      /\ e # 0 => e \in U /\ home[e] = t /\ e # r /\ e # t /\ x.node[e].prev = r
  <2>1. Linked(x, c, U, home, rank, r) /\ Owning(x, U, U, key, home, r)
    BY <1>1
  <2>2. First(x, home[r]) = r /\ Mark(home[r]) = 0
    BY <1>u, <2>1 DEF Linked
  <2>3. ~(home[r] < 0) /\ t = home[r]
    BY <2>1, <2>2 DEF Mark, Linked
  <2>4. t \in U /\ home[t] < 0
    BY <2>1, <2>3 DEF Owning
  <2>5. x.node[t].sibling = r
    BY <2>2, <2>3 DEF First
  <2>6. e # 0 => e \in U /\ home[e] = t /\ x.node[e].prev = r
    BY <2>1, <2>3 DEF Linked
  <2>7. e # 0 => e # r /\ e # t
    BY <1>u, <2>3, <2>4, <2>6
  <2> QED
    BY <2>3, <2>4, <2>5, <2>6, <2>7
<1>3. /\ HashType(B, y, c)
      /\ y.slot = x.slot /\ y.slots = x.slots /\ y.tops = x.tops /\ y.rows = x.rows
      /\ \A q \in U :
            /\ y.node[q].next = x.node[q].next /\ y.node[q].hash = x.node[q].hash
            /\ y.node[q].prev = IF q = e THEN 0 ELSE x.node[q].prev
            /\ y.node[q].sibling = IF q = e THEN t ELSE IF q = t THEN e ELSE x.node[q].sibling
  <2> DEFINE u == [x EXCEPT !.node[t].sibling = e]
             w == [u EXCEPT !.node[e] = [@ EXCEPT !.prev = 0, !.sibling = t]]
  <2>1. e \in Int /\ t \in Int /\ t \in B /\ 0 \in Int /\ e \in B \union {0}
    BY <1>1, <1>2, <1>u
  <2>2. WithNode(B, c, x, u, t, x.node[t].next, x.node[t].prev, e, x.node[t].hash)
    BY <1>1, <2>1, SetFields
  <2>3. y = IF e = 0 THEN u ELSE w
    BY DEF RemFirstSibling
  <2> HIDE DEF u, y, e, t
  <2>4. /\ HashType(B, u, c) /\ u.slot = x.slot /\ u.slots = x.slots /\ u.tops = x.tops /\ u.rows = x.rows
        /\ \A q \in U :
              /\ u.node[q].next = x.node[q].next /\ u.node[q].hash = x.node[q].hash
              /\ u.node[q].prev = x.node[q].prev
              /\ u.node[q].sibling = IF q = t THEN e ELSE x.node[q].sibling
    <3>1. HashType(B, u, c) /\ u.slot = x.slot /\ u.slots = x.slots /\ u.tops = x.tops /\ u.rows = x.rows
      BY <2>2 DEF WithNode
    <3>2. ASSUME NEW q \in U
          PROVE  /\ u.node[q].next = x.node[q].next /\ u.node[q].hash = x.node[q].hash
                 /\ u.node[q].prev = x.node[q].prev
                 /\ u.node[q].sibling = IF q = t THEN e ELSE x.node[q].sibling
      <4>1. CASE q = t
        BY <2>2, <4>1 DEF WithNode
      <4>2. CASE q # t
        BY <1>u, <2>2, <4>2 DEF WithNode
      <4> QED
        BY <4>1, <4>2
    <3> QED
      BY <3>1, <3>2
  <2>5. CASE e = 0
    BY <1>u, <2>3, <2>4, <2>5
  <2>6. CASE e # 0
    <3>1. WithNode(B, c, u, w, e, u.node[e].next, 0, t, u.node[e].hash)
      BY <2>1, <2>4, <2>6, SetFields
    <3> HIDE DEF w
    <3>2. HashType(B, w, c) /\ w.slot = u.slot /\ w.slots = u.slots /\ w.tops = u.tops /\ w.rows = u.rows
      BY <3>1 DEF WithNode
    <3>3. ASSUME NEW q \in U
          PROVE  /\ w.node[q].next = u.node[q].next /\ w.node[q].hash = u.node[q].hash
                 /\ w.node[q].prev = IF q = e THEN 0 ELSE u.node[q].prev
                 /\ w.node[q].sibling = IF q = e THEN t ELSE u.node[q].sibling
      <4>1. CASE q = e
        BY <3>1, <4>1 DEF WithNode
      <4>2. CASE q # e
        BY <1>u, <3>1, <4>2 DEF WithNode
      <4> QED
        BY <4>1, <4>2
    <3>4. y = w
      BY <2>3, <2>6
    <3> QED
      BY <2>4, <3>2, <3>3, <3>4
  <2> QED
    BY <2>5, <2>6
<1> HIDE DEF y
<1>4. /\ hom2 \in [V -> Int] /\ ran2 \in [V -> Nat] /\ V \subseteq B
      /\ \A q \in V : hom2[q] = home[q] /\ ran2[q] = rank[q]
      /\ \A q \in V : ran2[q] < lim
  BY <1>1 DEF Restrict
<1> HIDE DEF hom2, ran2
<1>5. ASSUME NEW q \in V PROVE Linked(y, c, V, hom2, ran2, q)
  <2>1. Linked(x, c, U, home, rank, q) /\ q \in U /\ hom2[q] = home[q] /\ ran2[q] = rank[q] /\ q # r
    BY <1>1, <1>4
  <2>2. y.node[q].next = x.node[q].next
    BY <1>3, <2>1
  <2>3. y.node[q].next # 0 =>
            /\ y.node[q].next \in V /\ hom2[y.node[q].next] = hom2[q]
            /\ ran2[y.node[q].next] < ran2[q] /\ y.node[y.node[q].next].prev = q
    <3> DEFINE z == x.node[q].next
    <3>1. SUFFICES ASSUME z # 0
                   PROVE  /\ z \in V /\ hom2[z] = hom2[q] /\ ran2[z] < ran2[q]
                          /\ y.node[z].prev = q
      BY <2>2
    <3>2. z \in U /\ home[z] = home[q] /\ rank[z] < rank[q] /\ x.node[z].prev = q
      BY <2>1, <3>1 DEF Linked
    <3>3. z # r
      BY <1>u, <2>1, <3>2
    <3>4. z # e
      BY <1>2, <2>1, <3>1, <3>2
    <3>5. y.node[z].prev = q
      BY <1>3, <3>2, <3>4
    <3> QED
      BY <1>4, <2>1, <3>2, <3>3, <3>5
  <2>4. \/ y.node[q].prev \in V /\ y.node[y.node[q].prev].next = q
        \/ First(y, hom2[q]) = q /\ y.node[q].prev = Mark(hom2[q])
    <3>1. CASE q = e
      <4>1. y.node[q].prev = 0 /\ hom2[q] = t
        BY <1>2, <1>3, <1>u, <2>1, <3>1
      <4>2. y.node[t].sibling = e
        BY <1>2, <1>3, <1>u, <2>1, <3>1
      <4> QED
        BY <1>2, <1>u, <3>1, <4>1, <4>2 DEF First, Mark
    <3>2. CASE q # e
      <4> DEFINE p == x.node[q].prev
      <4>1. y.node[q].prev = p
        BY <1>3, <2>1, <3>2
      <4>2. CASE p \in U /\ x.node[p].next = q
        <5>1. p # r
          BY <3>2, <4>2
        <5> QED
          BY <1>3, <4>1, <4>2, <5>1
      <4>3. CASE First(x, home[q]) = q /\ p = Mark(home[q])
        <5>1. CASE home[q] < 0
          BY <1>3, <2>1, <4>1, <4>3, <5>1 DEF First
        <5>2. CASE ~(home[q] < 0)
          <6> DEFINE g == home[q]
          <6>1. g \in U /\ home[g] < 0
            BY <1>1, <2>1, <5>2 DEF Owning
          <6>2. g # t
            BY <1>2, <2>1, <4>3, <5>2 DEF First
          <6>3. g # e
            BY <1>2, <1>u, <6>1
          <6>4. y.node[g].sibling = x.node[g].sibling
            BY <1>3, <6>1, <6>2, <6>3
          <6> QED
            BY <2>1, <4>1, <4>3, <5>2, <6>4 DEF First
        <5> QED
          BY <5>1, <5>2
      <4> QED
        BY <2>1, <4>2, <4>3 DEF Linked
    <3> QED
      BY <3>1, <3>2
  <2>5. IF hom2[q] < 0 THEN -1 - hom2[q] \in 0 .. c - 1
        ELSE y.node[q].sibling = IF y.node[q].prev = 0 THEN hom2[q] ELSE -1
    <3>1. CASE home[q] < 0
      BY <2>1, <3>1 DEF Linked
    <3>2. CASE ~(home[q] < 0) /\ q = e
      BY <1>2, <1>3, <1>u, <2>1, <3>2
    <3>3. CASE ~(home[q] < 0) /\ q # e
      <4>1. y.node[q].sibling = x.node[q].sibling /\ y.node[q].prev = x.node[q].prev
        BY <1>2, <1>3, <2>1, <3>3
      <4> QED
        BY <2>1, <3>3, <4>1 DEF Linked
    <3> QED
      BY <3>1, <3>2, <3>3
  <2> QED
    BY <2>3, <2>4, <2>5 DEF Linked
<1>6. ASSUME NEW q \in V PROVE Owning(y, V, V, key, hom2, q)
  <2>1. Owning(x, U, U, key, home, q) /\ q \in U /\ hom2[q] = home[q] /\ q # r
    BY <1>1, <1>4
  <2>2. y.node[q].hash = Hash[key[q]]
    BY <1>3, <2>1 DEF Owning
  <2>3. CASE home[q] < 0
    <3> DEFINE z == y.node[q].sibling
    <3>1. ASSUME z # 0 PROVE z \in V /\ hom2[z] = q /\ y.node[z].prev = 0
      <4>1. CASE q = t
        <5>1. z = e
          BY <1>2, <1>3, <1>u, <2>1, <4>1
        <5> QED
          BY <1>2, <1>3, <1>4, <3>1, <4>1, <5>1
      <4>2. CASE q # t
        <5>1. z = x.node[q].sibling
          BY <1>2, <1>3, <1>u, <2>1, <2>3, <4>2
        <5>2. z \in U /\ home[z] = q /\ x.node[z].prev = 0
          BY <2>1, <2>3, <3>1, <5>1 DEF Owning
        <5>3. z # r /\ z # e
          BY <1>2, <1>u, <3>1, <4>2, <5>2
        <5> QED
          BY <1>3, <1>4, <5>2, <5>3
      <4> QED
        BY <4>1, <4>2
    <3> HIDE DEF z
    <3> QED
      BY <2>1, <2>2, <2>3, <3>1 DEF Owning, z
  <2>4. CASE ~(home[q] < 0)
    <3>1. home[q] \in U /\ home[home[q]] < 0 /\ key[home[q]] = key[q]
      BY <2>1, <2>4 DEF Owning
    <3>2. home[q] # r
      BY <1>2, <3>1
    <3> QED
      BY <1>4, <2>1, <2>2, <2>4, <3>1, <3>2 DEF Owning
  <2> QED
    BY <2>3, <2>4
<1>7. Slotted(y, c, V, hom2)
  <2>1. ASSUME NEW s \in 0 .. c - 1, y.slot[s] # 0
        PROVE  y.slot[s] \in V /\ hom2[y.slot[s]] = -1 - s /\ y.node[y.slot[s]].prev = -1 - s
    <3> DEFINE q == x.slot[s]
    <3>1. y.slot[s] = q
      BY <1>3
    <3>2. q \in U /\ home[q] = -1 - s /\ x.node[q].prev = -1 - s /\ -1 - s < 0
      BY <1>1, <2>1, <3>1 DEF Slotted
    <3>3. q # e /\ q # r
      BY <1>2, <1>u, <3>2
    <3>4. y.node[q].prev = x.node[q].prev
      BY <1>3, <3>2, <3>3
    <3> QED
      BY <1>4, <3>1, <3>2, <3>3, <3>4
  <2>2. y.slots = Cardinality({s \in 0 .. c - 1 : y.slot[s] # 0})
    BY <1>1, <1>3 DEF Slotted
  <2> QED
    BY <2>1, <2>2 DEF Slotted
<1>8. Tops(V, hom2) = Tops(U, home)
  BY <1>2, <1>4 DEF Tops
<1>9. Shape(B, y, c, V, V, key, hom2, ran2, lim)
  BY <1>1, <1>3, <1>4, <1>5, <1>6, <1>7, <1>8 DEF Shape
<1>10. Placed(c, V, key, hom2)
  BY <1>4, <1>8 DEF Placed, Tops
<1>11. y.tops = Cardinality(Tops(V, hom2))
  BY <1>3, <1>8 DEF Counted
<1>12. Left(B, c, y, V, key, x.rows)
  <2> HIDE DEF V
  <2> QED
    BY <1>1, <1>3, <1>4, <1>9, <1>10, <1>11 DEF Left
<1> QED
  BY <1>12 DEF y

\* y is x, except for the fields of node r.
FieldsSet(B, c, x, y, r, next, prev, sibling, hash) ==
    /\ HashType(B, y, c)
    /\ y.slot = x.slot /\ y.slots = x.slots /\ y.tops = x.tops /\ y.rows = x.rows
    /\ \A q \in B :
          /\ y.node[q].next = IF q = r THEN next ELSE x.node[q].next
          /\ y.node[q].prev = IF q = r THEN prev ELSE x.node[q].prev
          /\ y.node[q].sibling = IF q = r THEN sibling ELSE x.node[q].sibling
          /\ y.node[q].hash = IF q = r THEN hash ELSE x.node[q].hash

LEMMA FieldsOf ==
    ASSUME NEW B, NEW c, NEW x, NEW y, NEW r, NEW next, NEW prev, NEW sibling, NEW hash,
           WithNode(B, c, x, y, r, next, prev, sibling, hash)
    PROVE  FieldsSet(B, c, x, y, r, next, prev, sibling, hash)
<1>1. ASSUME NEW q \in B
      PROVE  /\ y.node[q].next = IF q = r THEN next ELSE x.node[q].next
             /\ y.node[q].prev = IF q = r THEN prev ELSE x.node[q].prev
             /\ y.node[q].sibling = IF q = r THEN sibling ELSE x.node[q].sibling
             /\ y.node[q].hash = IF q = r THEN hash ELSE x.node[q].hash
  <2>1. CASE q = r
    BY <2>1 DEF WithNode
  <2>2. CASE q # r
    BY <2>2 DEF WithNode
  <2> QED
    BY <2>1, <2>2
<1> QED
  BY <1>1 DEF WithNode, FieldsSet

\* y is x, with the first sibling of top node r in the place of r.
Promoted(B, c, x, y, r) ==
    LET n == x.node[r]
        up == n.sibling
        second == x.node[up].next
    IN  /\ HashType(B, y, c)
        /\ y.slots = x.slots /\ y.tops = x.tops /\ y.rows = x.rows
        /\ \A s \in 0 .. c - 1 :
              y.slot[s] = IF n.prev < 0 /\ s = -1 - n.prev THEN up ELSE x.slot[s]
        /\ \A q \in B :
              /\ y.node[q].next = IF q = up THEN n.next ELSE IF q = n.prev THEN up ELSE x.node[q].next
              /\ y.node[q].prev = IF q = second THEN 0 ELSE IF q = up THEN n.prev
                                  ELSE IF q = n.next THEN up ELSE x.node[q].prev
              /\ y.node[q].sibling = IF q = second THEN up ELSE IF q = up THEN second
                                     ELSE x.node[q].sibling
              /\ y.node[q].hash = x.node[q].hash

\* The first sibling of r, the next one and the neighbours of r are different.
Apart(B, c, x, r, up, second, e, p) ==
    /\ up \in B /\ x.node[r].sibling = up
    /\ second \in B \union {0} /\ x.node[up].next = second /\ second # up
    /\ e \in B \union {0} /\ x.node[r].next = e /\ (e \notin B \/ e \notin {up, second})
    /\ p \in Int /\ x.node[r].prev = p
    /\ \/ p \in B /\ p \notin {up, second, e}
       \/ p < 0 /\ -1 - p \in 0 .. c - 1

LEMMA RemTopEffect ==
    ASSUME NEW B, NEW x, NEW c \in Nat \ {0}, HashType(B, x, c), B \subseteq Nat \ {0},
           NEW r \in B, NEW up, NEW second, NEW e, NEW p, Apart(B, c, x, r, up, second, e, p)
    PROVE  Promoted(B, c, x, RemTop(x, r), r)
<1>0. /\ up \in B /\ x.node[r].sibling = up
      /\ second \in B \union {0} /\ x.node[up].next = second /\ second # up
      /\ e \in B \union {0} /\ x.node[r].next = e /\ (e \notin B \/ e \notin {up, second})
      /\ p \in Int /\ x.node[r].prev = p
      /\ \/ p \in B /\ p \notin {up, second, e}
         \/ p < 0 /\ -1 - p \in 0 .. c - 1
  BY DEF Apart
<1> USE <1>0
<1> DEFINE w == IF second = 0 THEN x
                ELSE [x EXCEPT !.node[second] = [@ EXCEPT !.sibling = up, !.prev = 0]]
           v == [w EXCEPT !.node[up] = [@ EXCEPT !.sibling = second, !.next = e, !.prev = p]]
           z == IF e = 0 THEN v ELSE [v EXCEPT !.node[e].prev = up]
           y == RemTop(x, r)
<1>u. \A q \in B : q \in Nat /\ q \in Int /\ q # 0 /\ q > 0 /\ ~(q < 0)
  <2> TAKE q \in B
  <2>1. q \in Nat /\ q # 0
    OBVIOUS
  <2> QED
    BY ONLY <2>1
<1>1. up \in Int /\ second \in Int /\ e \in Int /\ 0 \in Int /\ p \in Int
  BY <1>u
<1>2. y = IF p < 0 THEN [z EXCEPT !.slot[-1 - p] = up] ELSE [z EXCEPT !.node[p].next = up]
  BY DEF RemTop, SlotOf
<1> HIDE DEF y
<1>3. /\ HashType(B, w, c)
      /\ w.slot = x.slot /\ w.slots = x.slots /\ w.tops = x.tops /\ w.rows = x.rows
      /\ \A q \in B :
            /\ w.node[q].next = x.node[q].next /\ w.node[q].hash = x.node[q].hash
            /\ w.node[q].prev = IF q = second THEN 0 ELSE x.node[q].prev
            /\ w.node[q].sibling = IF q = second THEN up ELSE x.node[q].sibling
  <2>1. CASE second = 0
    BY <1>u, <2>1
  <2>2. CASE second # 0
    <3> DEFINE w2 == [x EXCEPT !.node[second] = [@ EXCEPT !.prev = 0, !.sibling = up]]
    <3>1. w = w2
      <4>1. x.node[second] \in HashNode(B)
        BY <2>2 DEF HashType
      <4> DEFINE o == x.node[second]
                 o1 == [o EXCEPT !.sibling = up]
                 o2 == [o EXCEPT !.prev = 0]
      <4>2. [o EXCEPT !.sibling = up, !.prev = 0] = [o1 EXCEPT !.prev = 0]
        OBVIOUS
      <4>3. [o EXCEPT !.prev = 0, !.sibling = up] = [o2 EXCEPT !.sibling = up]
        OBVIOUS
      <4> HIDE DEF o
      <4>4. /\ o1 = [next |-> o.next, prev |-> o.prev, sibling |-> up, hash |-> o.hash]
            /\ o2 = [next |-> o.next, prev |-> 0, sibling |-> o.sibling, hash |-> o.hash]
        BY <4>1 DEF HashNode, o
      <4> HIDE DEF o1, o2
      <4>5. [o1 EXCEPT !.prev = 0] = [next |-> o.next, prev |-> 0, sibling |-> up, hash |-> o.hash]
        BY <4>4
      <4>6. [o2 EXCEPT !.sibling = up] = [next |-> o.next, prev |-> 0, sibling |-> up, hash |-> o.hash]
        BY <4>4
      <4>7. [o EXCEPT !.sibling = up, !.prev = 0] = [o EXCEPT !.prev = 0, !.sibling = up]
        BY <4>2, <4>3, <4>5, <4>6
      <4> QED
        BY <2>2, <4>7 DEF o
    <3>2. WithNode(B, c, x, w2, second, x.node[second].next, 0, up, x.node[second].hash)
      BY <1>1, <2>2, SetFields
    <3> HIDE DEF w, w2
    <3>3. FieldsSet(B, c, x, w, second, x.node[second].next, 0, up, x.node[second].hash)
      BY <3>1, <3>2, FieldsOf
    <3> QED
      BY <3>3 DEF FieldsSet
  <2> QED
    BY <2>1, <2>2
<1> HIDE DEF w
<1>4. /\ HashType(B, v, c)
      /\ v.slot = x.slot /\ v.slots = x.slots /\ v.tops = x.tops /\ v.rows = x.rows
      /\ \A q \in B :
            /\ v.node[q].next = IF q = up THEN e ELSE x.node[q].next
            /\ v.node[q].hash = x.node[q].hash
            /\ v.node[q].prev = IF q = second THEN 0 ELSE IF q = up THEN p ELSE x.node[q].prev
            /\ v.node[q].sibling = IF q = second THEN up ELSE IF q = up THEN second ELSE x.node[q].sibling
  <2> DEFINE o == w.node[up]
             h == o.hash
             m == [next |-> e, prev |-> p, sibling |-> second, hash |-> h]
             o1 == [o EXCEPT !.sibling = second]
             o2 == [o1 EXCEPT !.next = e]
  <2>1. o \in HashNode(B)
    BY <1>3 DEF HashType
  <2>2. [o EXCEPT !.sibling = second, !.next = e, !.prev = p] = [o2 EXCEPT !.prev = p]
    OBVIOUS
  <2> HIDE DEF o
  <2>3. o1 = [next |-> o.next, prev |-> o.prev, sibling |-> second, hash |-> o.hash] /\ h \in Nat
    BY <2>1 DEF HashNode
  <2> HIDE DEF o1
  <2>4. o2 = [next |-> e, prev |-> o.prev, sibling |-> second, hash |-> h]
    BY <2>3
  <2> HIDE DEF o2
  <2>5. [o2 EXCEPT !.prev = p] = m
    BY <2>4
  <2>6. v = [w EXCEPT !.node[up] = m]
    BY <2>2, <2>5 DEF o
  <2> HIDE DEF h
  <2>7. WithNode(B, c, w, [w EXCEPT !.node[up] = m], up, e, p, second, h)
    BY <1>1, <1>3, <2>3, SetNode
  <2> HIDE DEF v, m
  <2>8. FieldsSet(B, c, w, v, up, e, p, second, h)
    BY <2>6, <2>7, FieldsOf
  <2>9. h = x.node[up].hash
    BY <1>3 DEF h, o
  <2> QED
    BY <1>3, <2>8, <2>9 DEF FieldsSet
<1> HIDE DEF v
<1>5. /\ HashType(B, z, c)
      /\ z.slot = x.slot /\ z.slots = x.slots /\ z.tops = x.tops /\ z.rows = x.rows
      /\ \A q \in B :
            /\ z.node[q].next = IF q = up THEN e ELSE x.node[q].next
            /\ z.node[q].hash = x.node[q].hash
            /\ z.node[q].prev = IF q = second THEN 0 ELSE IF q = up THEN p
                                ELSE IF q = e THEN up ELSE x.node[q].prev
            /\ z.node[q].sibling = IF q = second THEN up ELSE IF q = up THEN second ELSE x.node[q].sibling
  <2>1. CASE e = 0
    BY <1>4, <1>u, <2>1
  <2>2. CASE e # 0
    <3> DEFINE z2 == [v EXCEPT !.node[e].prev = up]
    <3>1. WithNode(B, c, v, z2, e, v.node[e].next, up, v.node[e].sibling, v.node[e].hash)
      BY <1>1, <1>4, <2>2, SetFields
    <3>2. z = z2
      BY <2>2
    <3> HIDE DEF z, z2
    <3>3. FieldsSet(B, c, v, z, e, v.node[e].next, up, v.node[e].sibling, v.node[e].hash)
      BY <3>1, <3>2, FieldsOf
    <3>4. HashType(B, z, c) /\ z.slot = v.slot /\ z.slots = v.slots /\ z.tops = v.tops /\ z.rows = v.rows
      BY <3>3 DEF FieldsSet
    <3>5. \A q \in B :
            /\ z.node[q].next = v.node[q].next /\ z.node[q].hash = v.node[q].hash
            /\ z.node[q].prev = IF q = e THEN up ELSE v.node[q].prev
            /\ z.node[q].sibling = v.node[q].sibling
      <4>1. \A q \in B :
                /\ z.node[q].next = IF q = e THEN v.node[e].next ELSE v.node[q].next
                /\ z.node[q].prev = IF q = e THEN up ELSE v.node[q].prev
                /\ z.node[q].sibling = IF q = e THEN v.node[e].sibling ELSE v.node[q].sibling
                /\ z.node[q].hash = IF q = e THEN v.node[e].hash ELSE v.node[q].hash
        BY ONLY <3>3 DEF FieldsSet
      <4> QED
        BY ONLY <4>1
    <3>6. HashType(B, z, c) /\ z.slot = x.slot /\ z.slots = x.slots /\ z.tops = x.tops /\ z.rows = x.rows
      BY <1>4, <3>4
    <3>7. ASSUME NEW q \in B
          PROVE  /\ z.node[q].next = IF q = up THEN e ELSE x.node[q].next
                 /\ z.node[q].hash = x.node[q].hash
                 /\ z.node[q].prev = IF q = second THEN 0 ELSE IF q = up THEN p
                                     ELSE IF q = e THEN up ELSE x.node[q].prev
                 /\ z.node[q].sibling = IF q = second THEN up ELSE IF q = up THEN second ELSE x.node[q].sibling
      <4>1. /\ v.node[q].next = IF q = up THEN e ELSE x.node[q].next
            /\ v.node[q].hash = x.node[q].hash
            /\ v.node[q].prev = IF q = second THEN 0 ELSE IF q = up THEN p ELSE x.node[q].prev
            /\ v.node[q].sibling = IF q = second THEN up ELSE IF q = up THEN second ELSE x.node[q].sibling
        BY <1>4
      <4>2. /\ z.node[q].next = v.node[q].next /\ z.node[q].hash = v.node[q].hash
            /\ z.node[q].prev = IF q = e THEN up ELSE v.node[q].prev
            /\ z.node[q].sibling = v.node[q].sibling
        BY <3>5
      <4>3. e # second /\ e # up
        BY <1>1, <2>2
      <4> QED
        BY ONLY <4>1, <4>2, <4>3
    <3> QED
      BY <3>6, <3>7
  <2> QED
    BY <2>1, <2>2
<1> HIDE DEF z
<1>6. CASE p < 0
  <2>1. y = [z EXCEPT !.slot[-1 - p] = up]
    BY <1>2, <1>6
  <2>2. -1 - p \in 0 .. c - 1 /\ p \notin B
    BY <1>6, <1>u
  <2> DEFINE s == -1 - p
             y2 == [z EXCEPT !.slot[s] = up]
  <2>3. WithSlot(B, c, z, y2, s, up, z.slots)
    <3> HIDE DEF s
    <3>1. 0 \in Int /\ s \in 0 .. c - 1
      BY <2>2 DEF s
    <3>2. HashType(B, z, c) /\ up \in B \union {0}
      BY <1>0, <1>5
    <3> QED
      BY ONLY <3>1, <3>2, SetSlot, Zenon
  <2>4. y = y2
    BY <2>1
  <2> HIDE DEF y2
  <2>5. /\ HashType(B, y, c) /\ y.slots = x.slots /\ y.tops = x.tops /\ y.rows = x.rows /\ y.node = z.node
        /\ \A t \in 0 .. c - 1 : y.slot[t] = IF t = -1 - p THEN up ELSE x.slot[t]
    BY <1>5, <2>3, <2>4 DEF WithSlot
  <2>6. \A q \in B : q # p
    BY <2>2
  <2> QED
    BY <1>5, <1>6, <2>5, <2>6 DEF Promoted, y
<1>7. CASE p \in B /\ p \notin {up, second, e}
  <2>1. y = [z EXCEPT !.node[p].next = up] /\ ~(p < 0)
    BY <1>2, <1>7, <1>u
  <2>2. WithNode(B, c, z, [z EXCEPT !.node[p].next = up], p, up, z.node[p].prev, z.node[p].sibling, z.node[p].hash)
    BY <1>1, <1>5, <1>7, SetFields
  <2>3. FieldsSet(B, c, z, y, p, up, z.node[p].prev, z.node[p].sibling, z.node[p].hash)
    BY <2>1, <2>2, FieldsOf
  <2>4. HashType(B, y, c) /\ y.slot = x.slot /\ y.slots = x.slots /\ y.tops = x.tops /\ y.rows = x.rows
    BY <1>5, <2>3 DEF FieldsSet
  <2>5. \A q \in B :
          /\ y.node[q].next = IF q = p THEN up ELSE z.node[q].next
          /\ y.node[q].hash = z.node[q].hash
          /\ y.node[q].prev = z.node[q].prev
          /\ y.node[q].sibling = z.node[q].sibling
    BY <2>3 DEF FieldsSet
  <2>6. \A q \in B : y.node[q].next = IF q = up THEN e ELSE IF q = p THEN up ELSE x.node[q].next
    BY <1>5, <1>7, <2>5
  <2> QED
    BY <1>5, <2>1, <2>4, <2>5, <2>6 DEF Promoted, y
<1> QED
  BY <1>6, <1>7

\* A top node with siblings goes.
LEMMA RemTopGives ==
    ASSUME NEW B, NEW x, NEW c, NEW U, NEW key, NEW home, NEW rank, NEW lim,
           Shape(B, x, c, U, U, key, home, rank, lim), Counted(x, U, home), Placed(c, U, key, home),
           IsFiniteSet(B), NEW r \in U, x.node[r].prev # 0, ~(x.node[r].sibling <= 0)
    PROVE  Left(B, c, RemTop(x, r), U \ {r}, key, x.rows)
<1> DEFINE V == U \ {r}
           n == x.node[r]
           e == n.next
           p == n.prev
           up == n.sibling
           second == x.node[up].next
           y == RemTop(x, r)
           hom2 == [q \in V |-> IF q = up THEN home[r] ELSE IF home[q] = r THEN up ELSE home[q]]
           ran2 == [q \in V |-> IF q = up THEN rank[r] ELSE rank[q]]
<1>1. /\ B \subseteq Nat \ {0} /\ U \subseteq B /\ c \in Nat \ {0} /\ lim \in Nat
      /\ home \in [U -> Int] /\ rank \in [U -> Nat] /\ \A q \in U : rank[q] < lim
      /\ \A q \in U : Linked(x, c, U, home, rank, q)
      /\ \A q \in U : Owning(x, U, U, key, home, q)
      /\ Slotted(x, c, U, home)
      /\ \A q, o \in Tops(U, home) : key[q] = key[o] => q = o
      /\ HashType(B, x, c)
  BY DEF Shape
<1>u. \A q \in U : q \in B /\ q \in Nat /\ q \in Int /\ q # 0 /\ q > 0 /\ ~(q < 0)
  <2> TAKE q \in U
  <2>1. q \in B /\ q \in Nat /\ q # 0
    BY <1>1
  <2> QED
    BY ONLY <2>1
<1>r. \A q \in U : rank[q] \in Nat /\ ~(rank[q] < rank[q])
  BY <1>1
<1>2. \A q \in U : x.node[q].next \in B \union {0} /\ x.node[q].prev \in Int /\ x.node[q].sibling \in Int
  <2> TAKE q \in U
  <2>1. x.node[q] \in HashNode(B)
    BY <1>1 DEF HashType
  <2> QED
    BY <2>1 DEF HashNode
<1>3. /\ home[r] < 0 /\ -1 - home[r] \in 0 .. c - 1
      /\ up \in U /\ home[up] = r /\ x.node[up].prev = 0 /\ up # r /\ up # 0
      /\ second # 0 => second \in U /\ home[second] = r /\ x.node[second].prev = up /\ second # up /\ second # r
      /\ e # 0 => e \in U /\ home[e] = home[r] /\ rank[e] < rank[r] /\ x.node[e].prev = r /\ e # r
                  /\ e # up /\ e # second
      /\ \/ p \in U /\ x.node[p].next = r /\ home[p] = home[r] /\ rank[r] < rank[p] /\ p # r
            /\ p # up /\ p # second /\ p # e
         \/ p < 0 /\ home[r] = p /\ x.slot[-1 - p] = r /\ p \notin U
  <2>1. Linked(x, c, U, home, rank, r) /\ Owning(x, U, U, key, home, r)
    BY <1>1
  <2>2. home[r] < 0 /\ -1 - home[r] \in 0 .. c - 1
    <3>1. ~(home[r] < 0) => up = -1
      BY <2>1 DEF Linked
    <3> QED
      BY <2>1, <3>1 DEF Linked
  <2>3. up # 0
    BY <1>2
  <2>4. up \in U /\ home[up] = r /\ x.node[up].prev = 0
    BY <2>1, <2>2, <2>3 DEF Owning
  <2>5. up # r
    BY <1>u, <2>2, <2>4
  <2>6. second # 0 => second \in U /\ home[second] = r /\ x.node[second].prev = up /\ rank[second] < rank[up]
    BY <1>1, <2>4 DEF Linked
  <2>7. second # 0 => second # up /\ second # r
    BY <1>r, <1>u, <2>2, <2>4, <2>6
  <2>8. e # 0 => e \in U /\ home[e] = home[r] /\ rank[e] < rank[r] /\ x.node[e].prev = r
    BY <2>1 DEF Linked
  <2>9. e # 0 => e # r /\ e # up /\ e # second
    <3>1. home[r] # r
      BY <1>u, <2>2
    <3> QED
      BY <1>r, <2>4, <2>6, <2>8, <3>1
  <2>10. CASE p \in U /\ x.node[p].next = r
    <3>1. home[p] = home[r] /\ rank[r] < rank[p]
      <4>1. Linked(x, c, U, home, rank, p)
        BY <1>1, <2>10
      <4> QED
        BY <1>u, <2>10, <4>1 DEF Linked
    <3>2. home[r] # r
      BY <1>u, <2>2
    <3>3. p # r /\ p # up /\ p # second
      BY <1>r, <1>u, <2>4, <2>6, <2>10, <3>1, <3>2
    <3>4. p # e
      <4>1. SUFFICES ASSUME p = e PROVE FALSE
        OBVIOUS
      <4>2. rank[e] < rank[r] /\ rank[r] < rank[e] /\ rank[e] \in Nat /\ rank[r] \in Nat
        BY <1>r, <1>u, <2>8, <2>10, <3>1, <4>1
      <4> QED
        BY ONLY <4>2
    <3> QED
      BY <2>2, <2>3, <2>4, <2>5, <2>6, <2>7, <2>8, <2>9, <2>10, <3>1, <3>3, <3>4
  <2>11. CASE First(x, home[r]) = r /\ p = Mark(home[r])
    <3>1. p < 0 /\ home[r] = p /\ x.slot[-1 - p] = r
      BY <2>2, <2>11 DEF First, Mark
    <3>2. p \notin U
      BY <1>u, <3>1
    <3> QED
      BY <2>2, <2>3, <2>4, <2>5, <2>6, <2>7, <2>8, <2>9, <3>1, <3>2
  <2> QED
    BY <2>1, <2>10, <2>11 DEF Linked
<1>4. Promoted(B, c, x, y, r)
  <2>1. r \in B /\ up \in B /\ second \in B \union {0} /\ e \in B \union {0} /\ p \in Int /\ c \in Nat \ {0}
    BY <1>1, <1>2, <1>3, <1>u
  <2>2. second # up /\ (e \notin B \/ e \notin {up, second})
    BY <1>1, <1>3
  <2>3. (p \in B /\ p \notin {up, second, e}) \/ (p < 0 /\ -1 - p \in 0 .. c - 1)
    BY <1>3, <1>u
  <2>4. x.node[r].sibling = up /\ x.node[up].next = second /\ x.node[r].next = e /\ x.node[r].prev = p
    OBVIOUS
  <2> HIDE DEF up, second, e, p
  <2>5. Apart(B, c, x, r, up, second, e, p)
    BY <2>1, <2>2, <2>3, <2>4 DEF Apart
  <2> QED
    BY <1>1, <2>1, <2>5, RemTopEffect
<1> HIDE DEF y
<1>5. /\ HashType(B, y, c)
      /\ y.slots = x.slots /\ y.tops = x.tops /\ y.rows = x.rows
      /\ \A s \in 0 .. c - 1 : y.slot[s] = IF p < 0 /\ s = -1 - p THEN up ELSE x.slot[s]
      /\ \A q \in U :
            /\ y.node[q].next = IF q = up THEN e ELSE IF q = p THEN up ELSE x.node[q].next
            /\ y.node[q].prev = IF q = second THEN 0 ELSE IF q = up THEN p
                                ELSE IF q = e THEN up ELSE x.node[q].prev
            /\ y.node[q].sibling = IF q = second THEN up ELSE IF q = up THEN second
                                   ELSE x.node[q].sibling
            /\ y.node[q].hash = x.node[q].hash
  BY <1>4, <1>u DEF Promoted
<1> HIDE DEF up, second, e, p
<1>6. /\ hom2 \in [V -> Int] /\ ran2 \in [V -> Nat] /\ V \subseteq B
      /\ hom2[up] = home[r] /\ ran2[up] = rank[r] /\ up \in V
      /\ \A q \in V : q # up => hom2[q] = (IF home[q] = r THEN up ELSE home[q]) /\ ran2[q] = rank[q]
      /\ \A q \in V : ran2[q] < lim
  <2>1. up \in Int /\ up \in V /\ \A q \in V : q \in U /\ home[q] \in Int /\ rank[q] \in Nat /\ rank[q] < lim
    BY <1>1, <1>3, <1>u
  <2>2. home[r] \in Int /\ rank[r] \in Nat /\ rank[r] < lim
    BY <1>1
  <2> QED
    BY <1>1, <2>1, <2>2
<1> HIDE DEF hom2, ran2
<1>7. ASSUME NEW q \in V
      PROVE  /\ q \in U /\ q # r /\ Linked(x, c, U, home, rank, q) /\ Owning(x, U, U, key, home, q)
             /\ home[q] < 0 => hom2[q] = home[q] /\ q # up /\ q # second
             /\ q # up => (hom2[q] < 0 <=> home[q] < 0)
  <2>1. home[q] < 0 => home[q] # r /\ q # up /\ q # second
    BY <1>3, <1>u
  <2>2. ~(up < 0)
    BY <1>3, <1>u
  <2>3. home[q] = r => ~(home[q] < 0)
    BY <1>u
  <2> QED
    BY <1>1, <1>6, <2>1, <2>2, <2>3
<1> DEFINE NextGood(q) == y.node[q].next # 0 =>
               /\ y.node[q].next \in V /\ hom2[y.node[q].next] = hom2[q]
               /\ ran2[y.node[q].next] < ran2[q] /\ y.node[y.node[q].next].prev = q
           PrevGood(q) == \/ y.node[q].prev \in V /\ y.node[y.node[q].prev].next = q
                          \/ First(y, hom2[q]) = q /\ y.node[q].prev = Mark(hom2[q])
           PlaceGood(q) == IF hom2[q] < 0 THEN -1 - hom2[q] \in 0 .. c - 1
                           ELSE y.node[q].sibling = IF y.node[q].prev = 0 THEN hom2[q] ELSE -1
<1>8. ASSUME NEW q \in V PROVE NextGood(q)
  <2>1. CASE q = up
    <3>1. y.node[q].next = e
      BY <1>3, <1>5, <2>1
    <3>2. ASSUME e # 0 PROVE e \in V /\ hom2[e] = home[r] /\ ran2[e] < rank[r] /\ y.node[e].prev = up
      <4>1. e \in V /\ home[e] # r
        BY <1>3, <1>u, <3>2
      <4> QED
        BY <1>3, <1>5, <1>6, <3>2, <4>1
    <3> QED
      BY <1>6, <2>1, <3>1, <3>2
  <2>2. CASE q = p
    <3>1. q # up /\ y.node[q].next = up
      BY <1>3, <1>5, <1>7, <2>2
    <3>2. hom2[q] = home[r] /\ ran2[q] = rank[q] /\ rank[r] < rank[q]
      BY <1>3, <1>6, <1>7, <2>2, <3>1
    <3>3. y.node[up].prev = q /\ up # second
      BY <1>3, <1>5, <2>2
    <3> QED
      BY <1>6, <3>1, <3>2, <3>3
  <2>3. CASE q # up /\ q # p
    <3> DEFINE z == x.node[q].next
    <3>1. y.node[q].next = z
      BY <1>5, <1>7, <2>3
    <3>2. ASSUME z # 0 PROVE z \in V /\ hom2[z] = hom2[q] /\ ran2[z] < ran2[q] /\ y.node[z].prev = q
      <4>1. z \in U /\ home[z] = home[q] /\ rank[z] < rank[q] /\ x.node[z].prev = q
        BY <1>7, <3>2 DEF Linked
      <4>2. z # r
        BY <2>3, <4>1 DEF p
      <4>3. z # up /\ z # second
        BY <1>3, <1>7, <1>u, <2>3, <3>2, <4>1
      <4>4. z # e
        BY <1>3, <1>7, <3>2, <4>1
      <4>5. y.node[z].prev = q
        BY <1>5, <4>1, <4>3, <4>4
      <4> QED
        BY <1>6, <2>3, <4>1, <4>2, <4>3, <4>5
    <3> HIDE DEF z
    <3> QED
      BY <3>1, <3>2
  <2> QED
    BY <2>1, <2>2, <2>3
<1>9. ASSUME NEW q \in V PROVE PrevGood(q)
  <2>1. CASE q = up
    <3>1. y.node[q].prev = p
      BY <1>3, <1>5, <2>1
    <3>2. CASE p \in U
      <4>1. p \in V /\ y.node[p].next = up
        BY <1>3, <1>5, <1>u, <3>2
      <4> QED
        BY <2>1, <3>1, <4>1
    <3>3. CASE p \notin U
      <4>1. p < 0 /\ hom2[q] = p /\ -1 - p \in 0 .. c - 1
        BY <1>3, <1>6, <2>1, <3>3
      <4>2. y.slot[-1 - p] = up
        BY <1>5, <4>1
      <4> QED
        BY <2>1, <3>1, <4>1, <4>2 DEF First, Mark
    <3> QED
      BY <3>2, <3>3
  <2>2. CASE q = second
    <3>1. q # up /\ y.node[q].prev = 0 /\ hom2[q] = up /\ ~(up < 0)
      BY <1>3, <1>5, <1>6, <1>7, <1>u, <2>2
    <3>2. y.node[up].sibling = second
      BY <1>3, <1>5, <1>7, <1>u, <2>2
    <3> QED
      BY <2>2, <3>1, <3>2 DEF First, Mark
  <2>3. CASE q = e
    <3>1. q # up /\ q # second
      BY <1>3, <1>7, <1>u, <2>3
    <3>2. y.node[q].prev = up
      BY <1>5, <1>7, <2>3, <3>1
    <3>3. y.node[up].next = e
      BY <1>3, <1>5
    <3> QED
      BY <1>6, <2>3, <3>2, <3>3
  <2>4. CASE q # up /\ q # second /\ q # e
    <3> DEFINE o == x.node[q].prev
    <3>1. y.node[q].prev = o
      BY <1>5, <1>7, <2>4
    <3>2. CASE o \in U /\ x.node[o].next = q
      <4>1. o # r
        BY <2>4, <3>2 DEF e
      <4>2. o # up
        BY <2>4, <3>2 DEF second
      <4>3. o # p
        BY <1>3, <1>7, <3>2
      <4> QED
        BY <1>5, <3>1, <3>2, <4>1, <4>2, <4>3
    <3>3. CASE First(x, home[q]) = q /\ o = Mark(home[q])
      <4>1. home[q] # r
        BY <1>u, <2>4, <3>3 DEF First, up
      <4>2. hom2[q] = home[q]
        BY <1>6, <2>4, <4>1
      <4>3. CASE home[q] < 0
        <5> DEFINE s == -1 - home[q]
        <5>1. x.slot[s] = q /\ s \in 0 .. c - 1
          BY <1>7, <3>3, <4>3 DEF First, Linked
        <5>2. ~(p < 0 /\ s = -1 - p)
          BY <1>3, <1>7, <5>1, <1>u
        <5>3. y.slot[s] = q
          BY <1>5, <5>1, <5>2
        <5> QED
          BY <3>1, <3>3, <4>2, <4>3, <5>3 DEF First
      <4>4. CASE ~(home[q] < 0)
        <5> DEFINE g == home[q]
        <5>1. g \in U /\ home[g] < 0
          BY <1>7, <4>4 DEF Owning
        <5>2. g # up /\ g # second
          BY <1>3, <1>u, <5>1
        <5>3. y.node[g].sibling = x.node[g].sibling
          BY <1>5, <5>1, <5>2
        <5> QED
          BY <3>1, <3>3, <4>2, <4>4, <5>3 DEF First
      <4> QED
        BY <4>3, <4>4
    <3> QED
      BY <1>7, <3>2, <3>3 DEF Linked
  <2> QED
    BY <2>1, <2>2, <2>3, <2>4
<1>10. ASSUME NEW q \in V PROVE PlaceGood(q)
  <2>1. CASE q = up
    BY <1>3, <1>6, <2>1
  <2>2. CASE q # up /\ home[q] < 0
    BY <1>7, <2>2 DEF Linked
  <2>3. CASE q # up /\ ~(home[q] < 0) /\ q = second
    <3>1. hom2[q] = up /\ y.node[q].sibling = up /\ y.node[q].prev = 0
      BY <1>3, <1>5, <1>6, <1>7, <1>u, <2>3
    <3> QED
      BY <1>7, <2>3, <3>1
  <2>4. CASE q # up /\ ~(home[q] < 0) /\ q # second
    <3>1. q # e
      BY <1>3, <1>7, <1>u, <2>4
    <3>2. y.node[q].sibling = x.node[q].sibling /\ y.node[q].prev = x.node[q].prev
      BY <1>5, <1>7, <2>4, <3>1
    <3>3. x.node[q].sibling = IF x.node[q].prev = 0 THEN home[q] ELSE -1
      BY <1>7, <2>4 DEF Linked
    <3>4. ASSUME x.node[q].prev = 0 PROVE hom2[q] = home[q]
      <4>1. First(x, home[q]) = q
        BY <1>7, <1>u, <3>4 DEF Linked
      <4>2. home[q] # r
        BY <1>u, <2>4, <4>1 DEF First, up
      <4> QED
        BY <1>6, <2>4, <4>2
    <3> QED
      BY <1>7, <2>4, <3>2, <3>3, <3>4
  <2> QED
    BY <2>1, <2>2, <2>3, <2>4
<1>11. ASSUME NEW q \in V PROVE Linked(y, c, V, hom2, ran2, q)
  <2>1. NextGood(q) /\ PrevGood(q) /\ PlaceGood(q)
    BY <1>8, <1>9, <1>10
  <2> QED
    BY ONLY <2>1 DEF Linked
<1>12. ASSUME NEW q \in V PROVE Owning(y, V, V, key, hom2, q)
  <2>1. y.node[q].hash = Hash[key[q]]
    BY <1>5, <1>7 DEF Owning
  <2>2. CASE q = up
    <3>1. y.node[q].sibling = second /\ hom2[q] < 0
      BY <1>3, <1>5, <1>6, <2>2
    <3>2. ASSUME second # 0 PROVE second \in V /\ hom2[second] = q /\ y.node[second].prev = 0
      BY <1>3, <1>5, <1>6, <2>2, <3>2
    <3> QED
      BY <2>1, <3>1, <3>2 DEF Owning
  <2>3. CASE q # up /\ home[q] = r
    <3>1. hom2[q] = up /\ ~(up < 0)
      BY <1>3, <1>6, <1>u, <2>3
    <3>2. key[up] = key[r] /\ key[q] = key[r]
      <4>1. Owning(x, U, U, key, home, up) /\ ~(r < 0)
        BY <1>1, <1>3, <1>u
      <4> QED
        BY <1>3, <1>7, <2>3, <4>1 DEF Owning
    <3> QED
      BY <1>3, <1>6, <2>1, <3>1, <3>2 DEF Owning
  <2>4. CASE q # up /\ home[q] # r /\ home[q] < 0
    <3> DEFINE z == x.node[q].sibling
    <3>1. y.node[q].sibling = z /\ hom2[q] < 0
      BY <1>5, <1>7, <2>4
    <3>2. ASSUME z # 0 PROVE z \in V /\ hom2[z] = q /\ y.node[z].prev = 0
      <4>1. z \in U /\ home[z] = q /\ x.node[z].prev = 0
        BY <1>7, <2>4, <3>2 DEF Owning
      <4>2. z # r /\ z # up /\ z # second
        BY <1>3, <1>7, <1>u, <3>2, <4>1
      <4>3. z # e
        BY <1>3, <1>7, <1>u, <3>2, <4>1
      <4> QED
        BY <1>5, <1>6, <1>7, <4>1, <4>2, <4>3
    <3> HIDE DEF z
    <3> QED
      BY <2>1, <3>1, <3>2 DEF Owning
  <2>5. CASE q # up /\ home[q] # r /\ ~(home[q] < 0)
    <3> DEFINE g == home[q]
    <3>1. hom2[q] = g /\ g \in U /\ home[g] < 0 /\ key[g] = key[q] /\ g # r
      BY <1>6, <1>7, <2>5 DEF Owning
    <3>2. g # up
      BY <1>3, <1>u, <3>1
    <3>3. g \in V /\ hom2[g] < 0
      BY <1>7, <3>1
    <3> HIDE DEF g
    <3> QED
      BY <1>u, <2>1, <3>1, <3>3 DEF Owning
  <2> QED
    BY <2>2, <2>3, <2>4, <2>5
<1>13. Slotted(y, c, V, hom2)
  <2>1. ASSUME NEW s \in 0 .. c - 1, y.slot[s] # 0
        PROVE  y.slot[s] \in V /\ hom2[y.slot[s]] = -1 - s /\ y.node[y.slot[s]].prev = -1 - s
    <3>1. CASE p < 0 /\ s = -1 - p
      <4>1. y.slot[s] = up /\ -1 - s = p /\ home[r] = p
        <5>1. p \notin U
          BY <1>u, <3>1
        <5>2. home[r] = p
          BY <1>3, <5>1
        <5>3. p \in Int
          BY <1>1, <5>2
        <5>4. -1 - s = p
          BY ONLY <3>1, <5>3
        <5>5. y.slot[s] = up
          BY <1>5, <3>1
        <5> QED
          BY <5>2, <5>4, <5>5
      <4>2. y.node[up].prev = p
        BY <1>3, <1>5
      <4> QED
        BY <1>6, <4>1, <4>2
    <3>2. CASE ~(p < 0 /\ s = -1 - p)
      <4> DEFINE q == x.slot[s]
      <4>1. y.slot[s] = q
        BY <1>5, <3>2
      <4>2. q \in U /\ home[q] = -1 - s /\ x.node[q].prev = -1 - s /\ -1 - s < 0
        BY <1>1, <2>1, <4>1 DEF Slotted
      <4>3. q # r
        BY <1>3, <3>2, <4>2 DEF p
      <4>4. q \in V /\ q # e
        BY <1>3, <1>u, <4>2, <4>3
      <4>5. hom2[q] = home[q] /\ q # up /\ q # second
        BY <1>7, <4>2, <4>4
      <4>6. y.node[q].prev = x.node[q].prev
        BY <1>5, <4>2, <4>4, <4>5
      <4> QED
        BY <4>1, <4>2, <4>4, <4>5, <4>6
    <3> QED
      BY <3>1, <3>2
  <2>2. \A s \in 0 .. c - 1 : y.slot[s] # 0 <=> x.slot[s] # 0
    <3> TAKE s \in 0 .. c - 1
    <3>1. CASE p < 0 /\ s = -1 - p
      <4>1. p \notin U
        BY <1>u, <3>1
      <4> QED
        BY <1>3, <1>5, <1>u, <3>1, <4>1
    <3>2. CASE ~(p < 0 /\ s = -1 - p)
      BY <1>5, <3>2
    <3> QED
      BY <3>1, <3>2
  <2>3. {s \in 0 .. c - 1 : y.slot[s] # 0} = {s \in 0 .. c - 1 : x.slot[s] # 0}
    BY <2>2
  <2>4. y.slots = Cardinality({s \in 0 .. c - 1 : y.slot[s] # 0})
    BY <1>1, <1>5, <2>3 DEF Slotted
  <2> QED
    BY <2>1, <2>4 DEF Slotted
<1>14. Tops(V, hom2) = (Tops(U, home) \ {r}) \union {up} /\ r \in Tops(U, home) /\ up \notin Tops(U, home)
  <2>1. r \in Tops(U, home) /\ up \notin Tops(U, home) /\ up \in Tops(V, hom2)
    BY <1>3, <1>6, <1>u DEF Tops
  <2> QED
    BY <1>7, <2>1 DEF Tops
<1>15. key[up] = key[r]
  <2>1. Owning(x, U, U, key, home, up) /\ ~(r < 0)
    BY <1>1, <1>3, <1>u
  <2> QED
    BY <1>3, <2>1 DEF Owning
<1>16. \A q, o \in Tops(V, hom2) : key[q] = key[o] => q = o
  BY <1>1, <1>14, <1>15
<1>17. Shape(B, y, c, V, V, key, hom2, ran2, lim)
  BY <1>1, <1>5, <1>6, <1>11, <1>12, <1>13, <1>16 DEF Shape
<1>18. Placed(c, V, key, hom2)
  <2>1. ASSUME NEW q \in Tops(V, hom2) PROVE hom2[q] = -1 - (Hash[key[q]] % c)
    <3>1. CASE q = up
      BY <1>6, <1>14, <1>15, <3>1 DEF Placed
    <3>2. CASE q # up
      <4>1. q \in Tops(U, home) /\ q \in V /\ home[q] < 0
        BY <1>14, <3>2, <2>1 DEF Tops
      <4> QED
        BY <1>7, <4>1 DEF Placed
    <3> QED
      BY <3>1, <3>2
  <2> QED
    BY <2>1 DEF Placed
<1>19. y.tops = Cardinality(Tops(V, hom2))
  <2> DEFINE T == Tops(U, home)
  <2>1. IsFiniteSet(T) /\ x.tops = Cardinality(T)
    <3>1. T \subseteq B
      BY <1>1 DEF Tops
    <3> QED
      BY <3>1, FS_Subset DEF Counted
  <2> HIDE DEF T
  <2>2. IsFiniteSet(T \ {r}) /\ Cardinality(T \ {r}) = Cardinality(T) - 1
    BY <1>14, <2>1, FS_RemoveElement DEF T
  <2>3. Cardinality((T \ {r}) \union {up}) = Cardinality(T \ {r}) + 1
    BY <1>14, <2>2, FS_AddElement DEF T
  <2>4. Cardinality(T) \in Nat
    BY <2>1, FS_CardinalityType
  <2> DEFINE k == Cardinality(T)  l == Cardinality(T \ {r})  m == Cardinality((T \ {r}) \union {up})
  <2>5. l = k - 1 /\ m = l + 1 /\ k \in Nat
    BY <2>2, <2>3, <2>4
  <2>6. m = k
    <3> HIDE DEF k, l, m
    <3> QED
      BY ONLY <2>5
  <2> QED
    BY <1>5, <1>14, <2>1, <2>6 DEF T
<1>20. Left(B, c, y, V, key, x.rows)
  <2> HIDE DEF V
  <2> QED
    BY <1>1, <1>5, <1>6, <1>17, <1>18, <1>19 DEF Left
<1> QED
  BY <1>20 DEF y

\* A row is removed: the others keep their keys.
LEMMA RemovedIs ==
    ASSUME NEW B, NEW x, NEW U, NEW key, Whole(B, x, U, key), IsFiniteSet(B), NEW r \in U
    PROVE  Whole(B, HashRemoved(x, r), U \ {r}, key)
<1> DEFINE V == U \ {r}
           n == x.node[r]
<1>0. PICK c \in Nat \ {0}, home \in [U -> Int], rank \in [U -> Nat], lim \in Nat :
          Shape(B, x, c, U, U, key, home, rank, lim) /\ Counted(x, U, home) /\ Placed(c, U, key, home)
  BY DEF Whole
<1>1. /\ B \subseteq Nat \ {0} /\ U \subseteq B /\ HashType(B, x, c)
      /\ Linked(x, c, U, home, rank, r) /\ Owning(x, U, U, key, home, r)
  BY <1>0 DEF Shape
<1>2. ~(n.next = 0 /\ n.prev = 0 /\ n.sibling = 0)
  <2>1. \A q \in U : q \in Nat /\ q # 0
    BY <1>1
  <2>2. CASE home[r] < 0
    <3>1. n.prev # 0
      BY <1>1, <2>1, <2>2 DEF Linked, Mark
    <3> QED
      BY <3>1
  <2>3. CASE ~(home[r] < 0)
    <3>1. home[r] \in U /\ n.sibling = IF n.prev = 0 THEN home[r] ELSE -1
      BY <1>1, <2>3 DEF Linked, Owning
    <3> QED
      BY <2>1, <3>1
  <2> QED
    BY <2>2, <2>3
<1>3. \E y : Left(B, c, y, V, key, x.rows) /\ HashRemoved(x, r) = Rest(y, r)
  <2>1. CASE n.sibling <= 0
    <3>1. HashRemoved(x, r) = Rest(RemPlain(x, r), r)
      BY <1>2, <2>1 DEF HashRemoved, Rest
    <3>2. Left(B, c, RemPlain(x, r), V, key, x.rows)
      BY <1>0, <2>1, RemPlainGives
    <3> QED
      BY <3>1, <3>2
  <2>2. CASE ~(n.sibling <= 0) /\ n.prev = 0
    <3>1. HashRemoved(x, r) = Rest(RemFirstSibling(x, r), r)
      BY <1>2, <2>2 DEF HashRemoved, Rest
    <3>2. Left(B, c, RemFirstSibling(x, r), V, key, x.rows)
      BY <1>0, <2>2, RemFirstGives
    <3> QED
      BY <3>1, <3>2
  <2>3. CASE ~(n.sibling <= 0) /\ n.prev # 0
    <3>1. HashRemoved(x, r) = Rest(RemTop(x, r), r)
      BY <1>2, <2>3 DEF HashRemoved, Rest
    <3>2. Left(B, c, RemTop(x, r), V, key, x.rows)
      BY <1>0, <2>3, RemTopGives
    <3> QED
      BY <3>1, <3>2
  <2> QED
    BY <2>1, <2>2, <2>3
<1>4. PICK y : Left(B, c, y, V, key, x.rows) /\ HashRemoved(x, r) = Rest(y, r)
  BY <1>3
<1>5. PICK home2 \in [V -> Int], rank2 \in [V -> Nat], lim2 \in Nat :
          /\ Shape(B, y, c, V, V, key, home2, rank2, lim2) /\ Placed(c, V, key, home2)
          /\ y.tops = Cardinality(Tops(V, home2)) /\ y.rows = x.rows
  BY <1>4 DEF Left
<1> DEFINE z == Rest(y, r)
<1>6. Shape(B, z, c, V, V, key, home2, rank2, lim2) /\ z.tops = y.tops /\ z.rows = y.rows - 1
  <2>1. r \in B \ V
    BY <1>1
  <2> HIDE DEF V
  <2> QED
    BY <1>5, <2>1, RestIs
<1> HIDE DEF z
<1>7. z.rows = Cardinality(V)
  <2>1. IsFiniteSet(U)
    BY <1>1, FS_Subset
  <2>2. Cardinality(V) = Cardinality(U) - 1
    BY <2>1, FS_RemoveElement
  <2>3. x.rows = Cardinality(U)
    BY <1>0 DEF Counted
  <2> QED
    BY <1>5, <1>6, <2>2, <2>3
<1>8. Whole(B, z, V, key)
  <2>1. Counted(z, V, home2)
    BY <1>5, <1>6, <1>7 DEF Counted
  <2> HIDE DEF V
  <2> QED
    BY <1>5, <1>6, <2>1 DEF Whole
<1> QED
  BY <1>4, <1>8 DEF z

-------------------------------------------------------------------------------
(* The rehash.                                                              *)

\* The index has twice c slots; of its top nodes T, those in A are still in the
\* slots they had of c.
Spread(B, x, c, T, U, key, A) ==
    \E home \in [U -> Int], rank \in [U -> Nat], lim \in Nat :
        /\ Shape(B, x, 2 * c, U, U, key, home, rank, lim) /\ Counted(x, U, home)
        /\ T = Tops(U, home)
        /\ \A q \in T : home[q] = -1 - (Hash[key[q]] % (IF q \in A THEN c ELSE 2 * c))

LEMMA MoveGives ==
    ASSUME NEW B, NEW x, NEW c \in Nat \ {0}, NEW T, NEW U, NEW key, NEW A, Spread(B, x, c, T, U, key, A),
           NEW s \in 0 .. c - 1, NEW r \in T, r \in A => Hash[key[r]] % c = s
    PROVE  Spread(B, Move(s, x, r), c, T, U, key, A \ {r})
<1> DEFINE d == 2 * c
           h == Hash[key[r]]
           t == h % d
           A2 == A \ {r}
<1>0. PICK home \in [U -> Int], rank \in [U -> Nat], lim \in Nat :
          /\ Shape(B, x, d, U, U, key, home, rank, lim) /\ Counted(x, U, home)
          /\ T = Tops(U, home)
          /\ \A q \in T : home[q] = -1 - (Hash[key[q]] % (IF q \in A THEN c ELSE d))
  BY DEF Spread
<1>1. /\ B \subseteq Nat \ {0} /\ U \subseteq B /\ HashType(B, x, d) /\ r \in U /\ home[r] < 0 /\ home[r] \in Int
      /\ Linked(x, d, U, home, rank, r) /\ Owning(x, U, U, key, home, r) /\ T \subseteq U
  BY <1>0 DEF Shape, Tops
<1>2. d \in Nat \ {0} /\ d >= c
  OBVIOUS
<1>3. Cap(x) = d
  <2> HIDE DEF d
  <2> QED
    BY <1>1, <1>2, CapIs
<1>4. x.node[r].hash = h /\ h \in Nat
  <2>1. x.node[r] \in HashNode(B)
    BY <1>1 DEF HashType
  <2> QED
    BY <1>1, <2>1 DEF HashNode, Owning
<1>5. t \in 0 .. d - 1
  <2> HIDE DEF d, h
  <2> QED
    BY <1>2, <1>4
<1>6. Move(s, x, r) = IF t = s THEN x ELSE Push(Unlink(x, r), t, r)
  BY <1>3, <1>4 DEF Move
<1>7. x.node[r].prev # 0
  <2>1. 0 \notin U
    BY <1>1
  <2> QED
    BY <1>1, <2>1 DEF Linked, Mark
<1> HIDE DEF d, t, h
<1>8. CASE t = s
  <2>1. home[r] = -1 - t
    <3>1. CASE r \in A
      BY <1>0, <1>8, <3>1 DEF h
    <3>2. CASE r \notin A
      BY <1>0, <3>2 DEF t, h
    <3> QED
      BY <3>1, <3>2
  <2>2. ASSUME NEW q \in T PROVE home[q] = -1 - (Hash[key[q]] % (IF q \in A2 THEN c ELSE d))
    <3>1. CASE q = r
      BY <2>1, <3>1 DEF t, h
    <3>2. CASE q # r
      <4>1. q \in A2 <=> q \in A
        BY <3>2
      <4> HIDE DEF A2
      <4> QED
        BY <1>0, <4>1
    <3> QED
      BY <3>1, <3>2
  <2> HIDE DEF A2
  <2>3. Spread(B, x, c, T, U, key, A2)
    BY <1>0, <2>2 DEF Spread, d
  <2> QED
    BY <1>6, <1>8, <2>3 DEF A2
<1>9. CASE t # s
  <2> DEFINE u == Unlink(x, r)
             y == Push(u, t, r)
             home2 == [home EXCEPT ![r] = -1 - t]
             rank2 == [rank EXCEPT ![r] = lim]
             lim2 == lim + 1
  <2>1. Shape(B, u, d, U, U \ {r}, key, home, rank, lim) /\ Beside(B, u, x)
    BY <1>0, <1>1, <1>7, UnlinkGives
  <2> HIDE DEF u
  <2>2. Shape(B, y, d, U, U, key, home2, rank2, lim2) /\ Beside(B, y, u)
    BY <1>1, <1>5, <2>1, PushGives
  <2>3. /\ home2 \in [U -> Int] /\ rank2 \in [U -> Nat] /\ lim2 \in Nat
        /\ home2[r] = -1 - t /\ home2[r] < 0 /\ \A q \in U : q # r => home2[q] = home[q]
    BY <1>0, <1>1, <1>2, <1>5
  <2> HIDE DEF home2, rank2, lim2, y
  <2>4. Tops(U, home2) = T
    <3>1. \A q \in U : home2[q] < 0 <=> home[q] < 0
      BY <1>1, <2>3
    <3> QED
      BY <1>0, <3>1 DEF Tops
  <2>5. Counted(y, U, home2)
    BY <1>0, <2>1, <2>2, <2>4 DEF Counted, Beside
  <2>6. ASSUME NEW q \in T PROVE home2[q] = -1 - (Hash[key[q]] % (IF q \in A2 THEN c ELSE d))
    <3>1. CASE q = r
      BY <2>3, <3>1 DEF t, h
    <3>2. CASE q # r
      <4>1. (q \in A2 <=> q \in A) /\ home2[q] = home[q]
        BY <1>1, <2>3, <3>2
      <4> HIDE DEF A2
      <4> QED
        BY <1>0, <4>1
    <3> QED
      BY <3>1, <3>2
  <2> HIDE DEF A2
  <2>7. Spread(B, y, c, T, U, key, A2)
    BY <2>2, <2>3, <2>4, <2>5, <2>6 DEF Spread, d
  <2> QED
    BY <1>6, <1>9, <2>7 DEF A2, y, u
<1> QED
  BY <1>8, <1>9

\* The index after the first n of the top nodes tops, which is f[n].
MovedBy(N, s, x, tops, f) == [n \in 0 .. N |-> IF n = 0 THEN x ELSE Move(s, f[n - 1], tops[n])]

LEMMA MovedByExists ==
    ASSUME NEW x, NEW s, NEW tops, NEW N \in Nat
    PROVE  \E f : f = MovedBy(N, s, x, tops, f)
<1> DEFINE Bad == {m \in 0 .. N : ~\E f : f = MovedBy(m, s, x, tops, f)}
<1>1. SUFFICES ASSUME Bad # {} PROVE FALSE
  <2>1. N \in 0 .. N
    OBVIOUS
  <2> QED
    BY <1>1, <2>1
<1>2. PICK m \in Bad : \A k \in Bad : m <= k
  <2>1. Bad \subseteq Nat
    OBVIOUS
  <2> HIDE DEF Bad
  <2> QED
    BY <1>1, <2>1, LeastNumber
<1>3. m \in 0 .. N /\ ~\E f : f = MovedBy(m, s, x, tops, f)
  BY <1>2
<1>4. m # 0
  <2>1. \A f : MovedBy(0, s, x, tops, f) = [n \in 0 .. 0 |-> x]
    BY DEF MovedBy
  <2> QED
    BY <1>3, <2>1
<1>5. m - 1 \in 0 .. N /\ m - 1 \notin Bad
  BY <1>2, <1>3, <1>4
<1>6. PICK v : v = MovedBy(m - 1, s, x, tops, v)
  BY <1>5
<1> DEFINE e == Move(s, v[m - 1], tops[m])
           f == [n \in 0 .. m |-> IF n = m THEN e ELSE v[n]]
<1>7. ASSUME NEW n \in 0 .. m PROVE f[n] = IF n = 0 THEN x ELSE Move(s, f[n - 1], tops[n])
  <2>1. n # 0 => n - 1 \in 0 .. m /\ n - 1 # m /\ f[n - 1] = v[n - 1]
    BY <1>3
  <2>2. CASE n = m
    <3>1. f[n] = e
      BY <2>2
    <3> HIDE DEF f
    <3> QED
      BY <1>4, <2>1, <2>2, <3>1
  <2>3. CASE n # m
    <3>1. f[n] = v[n] /\ n \in 0 .. (m - 1)
      BY <2>3, <1>3
    <3>2. v[n] = IF n = 0 THEN x ELSE Move(s, v[n - 1], tops[n])
      BY <1>6, <3>1 DEF MovedBy
    <3> HIDE DEF f
    <3> QED
      BY <2>1, <3>1, <3>2
  <2> QED
    BY <2>2, <2>3
<1>8. f = MovedBy(m, s, x, tops, f)
  <2>1. f = [n \in 0 .. m |-> f[n]]
    OBVIOUS
  <2> HIDE DEF f
  <2> QED
    BY <1>7, <2>1 DEF MovedBy
<1> QED
  BY <1>3, <1>8

LEMMA SplitDef ==
    \A x, s : LET tops == Chain(x, x.slot[s])
              IN  Split(x, s) = (CHOOSE f : f = MovedBy(Len(tops), s, x, tops, f))[Len(tops)]
BY Zenon DEF Split, MovedBy

LEMMA SplitGives ==
    ASSUME NEW x, NEW c \in Nat \ {0}, NEW T, NEW U, NEW key, NEW A, Spread(Blocks, x, c, T, U, key, A),
           NEW s \in 0 .. c - 1, IsFiniteSet(Blocks)
    PROVE  Spread(Blocks, Split(x, s), c, T, U, key, A \ {q \in T : Hash[key[q]] % c = s})
<1> DEFINE tops == Chain(x, x.slot[s])
           d == 2 * c
           h == -1 - s
           S == {q \in T : Hash[key[q]] % c = s}
<1>0. PICK home \in [U -> Int], rank \in [U -> Nat], lim \in Nat :
          /\ Shape(Blocks, x, d, U, U, key, home, rank, lim) /\ Counted(x, U, home)
          /\ T = Tops(U, home)
          /\ \A q \in T : home[q] = -1 - (Hash[key[q]] % (IF q \in A THEN c ELSE d))
  BY DEF Spread
<1>1. Visits(x, Members(U, home, h), x.slot[s], tops)
  <2>1. IsHead(d, U, home, h) /\ First(x, h) = x.slot[s]
    <3>1. -1 - h = s /\ h < 0 /\ h \in Int /\ s \in 0 .. d - 1
      OBVIOUS
    <3> QED
      BY <3>1 DEF IsHead, First
  <2> HIDE DEF d, h
  <2> QED
    BY <1>0, <2>1, ListVisits
<1> HIDE DEF tops
<1>2. PICK k \in Nat :
          /\ tops \in [1 .. k -> Members(U, home, h)]
          /\ \A q \in Members(U, home, h) : \E n \in 1 .. k : tops[n] = q
  BY <1>1 DEF Visits
<1>3. Len(tops) = k
  <2>1. tops \in Seq(Members(U, home, h))
    BY <1>2
  <2> QED
    BY <1>2, <2>1
<1>4. /\ Members(U, home, h) \subseteq T
      /\ \A q \in T : home[q] = h <=> q \in Members(U, home, h)
  BY <1>0 DEF Members, Tops
<1>h. \A q \in T : Hash[key[q]] \in Nat
  <2>1. ASSUME NEW q \in T PROVE Hash[key[q]] \in Nat
    <3>1. q \in U /\ Owning(x, U, U, key, home, q) /\ q \in Blocks /\ HashType(Blocks, x, d)
      BY <1>0 DEF Shape, Tops
    <3>2. x.node[q] \in HashNode(Blocks)
      BY <3>1 DEF HashType
    <3> QED
      BY <3>1, <3>2 DEF Owning, HashNode
  <2> QED
    BY <2>1
<1>5. \A n \in 1 .. k : tops[n] \in T /\ (tops[n] \in A => Hash[key[tops[n]]] % c = s)
  <2> TAKE n \in 1 .. k
  <2> DEFINE q == tops[n]
  <2>1. q \in T /\ home[q] = h
    BY <1>2, <1>4
  <2> HIDE DEF q
  <2>2. ASSUME q \in A PROVE Hash[key[q]] % c = s
    <3>1. home[q] = -1 - (Hash[key[q]] % c)
      BY <1>0, <2>1, <2>2
    <3>2. Hash[key[q]] % c \in Int
      BY <1>h, <2>1
    <3> QED
      BY <2>1, <3>1, <3>2
  <2> QED
    BY <2>1, <2>2 DEF q
<1>6. \A q \in A \cap S : \E n \in 1 .. k : tops[n] = q
  <2> TAKE q \in A \cap S
  <2>1. q \in T /\ home[q] = h
    BY <1>0
  <2> QED
    BY <1>2, <1>4, <2>1
<1> DEFINE f == CHOOSE g : g = MovedBy(k, s, x, tops, g)
           Gone(n) == {tops[m] : m \in 1 .. n}
           Bad == {n \in 0 .. k : ~Spread(Blocks, f[n], c, T, U, key, A \ Gone(n))}
<1>7. f = MovedBy(k, s, x, tops, f) /\ Split(x, s) = f[k]
  <2>1. \E g : g = MovedBy(k, s, x, tops, g)
    BY MovedByExists
  <2> QED
    BY <1>3, <2>1, SplitDef DEF tops
<1> HIDE DEF f
<1>8. \A n \in 0 .. k : f[n] = IF n = 0 THEN x ELSE Move(s, f[n - 1], tops[n])
  BY <1>7 DEF MovedBy
<1>9. Bad = {}
  <2>1. SUFFICES ASSUME Bad # {} PROVE FALSE
    OBVIOUS
  <2>2. PICK m \in Bad : \A j \in Bad : m <= j
    <3>1. Bad \subseteq Nat
      OBVIOUS
    <3> HIDE DEF Bad
    <3> QED
      BY <2>1, <3>1, LeastNumber
  <2>3. m \in 0 .. k /\ ~Spread(Blocks, f[m], c, T, U, key, A \ Gone(m))
    BY <2>2
  <2>4. m # 0
    <3>1. A \ Gone(0) = A
      OBVIOUS
    <3>2. f[0] = x
      BY <1>8
    <3> QED
      BY <2>3, <3>1, <3>2
  <2>5. m - 1 \in 0 .. k /\ m - 1 \notin Bad /\ m \in 1 .. k
    <3>1. m - 1 \in 0 .. k /\ m \in 1 .. k /\ ~(m <= m - 1)
      BY <2>3, <2>4
    <3> HIDE DEF Bad
    <3> QED
      BY <2>2, <3>1
  <2>6. Spread(Blocks, f[m - 1], c, T, U, key, A \ Gone(m - 1))
    BY <2>5
  <2>7. f[m] = Move(s, f[m - 1], tops[m])
    BY <1>8, <2>3, <2>4
  <2>8. Gone(m) = Gone(m - 1) \union {tops[m]}
    <3>1. 1 .. m = 1 .. (m - 1) \union {m}
      BY <2>5
    <3> QED
      BY <3>1
  <2>9. A \ Gone(m) = (A \ Gone(m - 1)) \ {tops[m]}
    BY <2>8
  <2>10. tops[m] \in T /\ (tops[m] \in A \ Gone(m - 1) => Hash[key[tops[m]]] % c = s)
    BY <1>5, <2>5
  <2> DEFINE A1 == A \ Gone(m - 1)
  <2> HIDE DEF A1, Gone, S
  <2>11. Spread(Blocks, Move(s, f[m - 1], tops[m]), c, T, U, key, A1 \ {tops[m]})
    <3> DEFINE r == tops[m]
               y == f[m - 1]
    <3>1. r \in T /\ (r \in A1 => Hash[key[r]] % c = s) /\ Spread(Blocks, y, c, T, U, key, A1)
      BY <2>6, <2>10 DEF A1
    <3> HIDE DEF r, y
    <3>2. Spread(Blocks, Move(s, y, r), c, T, U, key, A1 \ {r})
      BY <3>1, MoveGives
    <3> QED
      BY <3>2 DEF r, y
  <2> QED
    BY <2>3, <2>7, <2>9, <2>11 DEF A1
<1>10. Spread(Blocks, f[k], c, T, U, key, A \ Gone(k))
  <2>1. k \in 0 .. k
    OBVIOUS
  <2> QED
    BY <1>9, <2>1
<1>11. Spread(Blocks, f[k], c, T, U, key, A \ S)
  <2> DEFINE y == f[k]
  <2> HIDE DEF y
  <2>1. PICK hom \in [U -> Int], ran \in [U -> Nat], lm \in Nat :
            /\ Shape(Blocks, y, 2 * c, U, U, key, hom, ran, lm) /\ Counted(y, U, hom)
            /\ T = Tops(U, hom)
            /\ \A q \in T : hom[q] = -1 - (Hash[key[q]] % (IF q \in A \ Gone(k) THEN c ELSE 2 * c))
    BY <1>10 DEF Spread, y
  <2>2. (A \ Gone(k)) \cap T = (A \ S) \cap T
    BY <1>5, <1>6
  <2>3. \A q \in T : hom[q] = -1 - (Hash[key[q]] % (IF q \in A \ S THEN c ELSE 2 * c))
    <3> TAKE q \in T
    <3>1. q \in A \ Gone(k) <=> q \in A \ S
      BY <2>2
    <3> HIDE DEF Gone, S
    <3> QED
      BY <2>1, <3>1
  <2> HIDE DEF S
  <2> QED
    BY <2>1, <2>3 DEF Spread, y
<1> QED
  BY <1>7, <1>11

\* Twice the slots, the new ones empty.
Wide(x) == [x EXCEPT !.slot = [s \in 0 .. 2 * Cap(x) - 1 |-> IF s < Cap(x) THEN @[s] ELSE 0]]

LEMMA WideGives ==
    ASSUME NEW B, NEW x, NEW c, NEW U, NEW key, NEW home, NEW rank, NEW lim,
           Shape(B, x, c, U, U, key, home, rank, lim)
    PROVE  /\ Shape(B, Wide(x), 2 * c, U, U, key, home, rank, lim)
           /\ Wide(x).tops = x.tops /\ Wide(x).rows = x.rows
<1> DEFINE d == 2 * c
           y == Wide(x)
<1>1. /\ B \subseteq Nat \ {0} /\ U \subseteq B /\ c \in Nat \ {0} /\ lim \in Nat
      /\ home \in [U -> Int] /\ rank \in [U -> Nat] /\ \A q \in U : rank[q] < lim
      /\ \A q \in U : Linked(x, c, U, home, rank, q)
      /\ \A q \in U : Owning(x, U, U, key, home, q)
      /\ Slotted(x, c, U, home)
      /\ \A p, q \in Tops(U, home) : key[p] = key[q] => p = q
      /\ HashType(B, x, c)
  BY DEF Shape
<1>2. Cap(x) = c
  BY <1>1, CapIs
<1>3. /\ d \in Nat \ {0} /\ \A s \in 0 .. c - 1 : s \in 0 .. d - 1 /\ s < c
      /\ \A s \in 0 .. d - 1 : s < c => s \in 0 .. c - 1
  BY <1>1
<1> DEFINE w == [s \in 0 .. d - 1 |-> IF s < c THEN x.slot[s] ELSE 0]
<1>4. y = [x EXCEPT !.slot = w]
  BY <1>2 DEF Wide
<1>5. w \in [0 .. d - 1 -> B \union {0}]
  <2>1. x.slot \in [0 .. c - 1 -> B \union {0}]
    BY <1>1 DEF HashType
  <2> HIDE DEF d
  <2> QED
    BY <1>3, <2>1
<1>6. /\ \A s \in 0 .. c - 1 : w[s] = x.slot[s]
      /\ \A s \in 0 .. d - 1 : s \notin 0 .. c - 1 => w[s] = 0
  <2> HIDE DEF d
  <2> QED
    BY <1>3
<1> HIDE DEF w, y, d
<1>7. HashType(B, y, d) /\ y.slot = w /\ y.node = x.node /\ y.slots = x.slots /\ y.tops = x.tops /\ y.rows = x.rows
  BY ONLY <1>1, <1>4, <1>5 DEF HashType
<1>8. ASSUME NEW q \in U PROVE Linked(y, d, U, home, rank, q)
  <2>1. Linked(x, c, U, home, rank, q)
    BY <1>1
  <2>2. First(y, home[q]) = First(x, home[q])
    BY <1>6, <1>7, <2>1 DEF First, Linked
  <2> QED
    BY <1>3, <1>7, <2>1, <2>2 DEF Linked
<1>9. ASSUME NEW q \in U PROVE Owning(y, U, U, key, home, q)
  BY <1>1, <1>7 DEF Owning
<1>10. Slotted(y, d, U, home)
  <2>1. ASSUME NEW s \in 0 .. d - 1, y.slot[s] # 0
        PROVE  y.slot[s] \in U /\ home[y.slot[s]] = -1 - s /\ y.node[y.slot[s]].prev = -1 - s
    <3>1. s \in 0 .. c - 1 /\ y.slot[s] = x.slot[s]
      BY <1>6, <1>7, <2>1
    <3> QED
      BY <1>1, <1>7, <2>1, <3>1 DEF Slotted
  <2>2. {s \in 0 .. d - 1 : y.slot[s] # 0} = {s \in 0 .. c - 1 : x.slot[s] # 0}
    BY <1>3, <1>6, <1>7
  <2>3. y.slots = Cardinality({s \in 0 .. d - 1 : y.slot[s] # 0})
    BY <1>1, <1>7, <2>2 DEF Slotted
  <2> QED
    BY <2>1, <2>3 DEF Slotted
<1>11. Shape(B, y, d, U, U, key, home, rank, lim)
  BY <1>1, <1>3, <1>7, <1>8, <1>9, <1>10 DEF Shape
<1> QED
  BY <1>7, <1>11 DEF y, d

\* The index with slots 0 .. s - 1 split, which is f[s].
SplitUpTo(N, x, f) == [s \in 0 .. N |-> IF s = 0 THEN x ELSE Split(f[s - 1], s - 1)]

LEMMA SplitUpToExists ==
    ASSUME NEW x, NEW N \in Nat
    PROVE  \E f : f = SplitUpTo(N, x, f)
<1> DEFINE Bad == {m \in 0 .. N : ~\E f : f = SplitUpTo(m, x, f)}
<1>1. SUFFICES ASSUME Bad # {} PROVE FALSE
  <2>1. N \in 0 .. N
    OBVIOUS
  <2> QED
    BY <1>1, <2>1
<1>2. PICK m \in Bad : \A k \in Bad : m <= k
  <2>1. Bad \subseteq Nat
    OBVIOUS
  <2> HIDE DEF Bad
  <2> QED
    BY <1>1, <2>1, LeastNumber
<1>3. m \in 0 .. N /\ ~\E f : f = SplitUpTo(m, x, f)
  BY <1>2
<1>4. m # 0
  <2>1. \A f : SplitUpTo(0, x, f) = [n \in 0 .. 0 |-> x]
    BY DEF SplitUpTo
  <2> QED
    BY <1>3, <2>1
<1>5. m - 1 \in 0 .. N /\ m - 1 \notin Bad
  BY <1>2, <1>3, <1>4
<1>6. PICK v : v = SplitUpTo(m - 1, x, v)
  BY <1>5
<1> DEFINE e == Split(v[m - 1], m - 1)
           f == [n \in 0 .. m |-> IF n = m THEN e ELSE v[n]]
<1>7. ASSUME NEW n \in 0 .. m PROVE f[n] = IF n = 0 THEN x ELSE Split(f[n - 1], n - 1)
  <2>1. n # 0 => n - 1 \in 0 .. m /\ n - 1 # m /\ f[n - 1] = v[n - 1]
    BY <1>3
  <2>2. CASE n = m
    <3>1. f[n] = e
      BY <2>2
    <3> HIDE DEF f
    <3> QED
      BY <1>4, <2>1, <2>2, <3>1
  <2>3. CASE n # m
    <3>1. f[n] = v[n] /\ n \in 0 .. (m - 1)
      BY <2>3, <1>3
    <3>2. v[n] = IF n = 0 THEN x ELSE Split(v[n - 1], n - 1)
      BY <1>6, <3>1 DEF SplitUpTo
    <3> HIDE DEF f
    <3> QED
      BY <2>1, <3>1, <3>2
  <2> QED
    BY <2>2, <2>3
<1>8. f = SplitUpTo(m, x, f)
  <2>1. f = [n \in 0 .. m |-> f[n]]
    OBVIOUS
  <2> HIDE DEF f
  <2> QED
    BY <1>7, <2>1 DEF SplitUpTo
<1> QED
  BY <1>3, <1>8

LEMMA RehashDef ==
    \A x : Rehash(x) = (CHOOSE f : f = SplitUpTo(Cap(x), Wide(x), f))[Cap(x)]
BY Zenon DEF Rehash, SplitUpTo, Wide

LEMMA RehashIs ==
    ASSUME NEW x, NEW U, NEW key, Whole(Blocks, x, U, key), IsFiniteSet(Blocks)
    PROVE  Whole(Blocks, Rehash(x), U, key)
<1>0. PICK c \in Nat \ {0}, home \in [U -> Int], rank \in [U -> Nat], lim \in Nat :
          Shape(Blocks, x, c, U, U, key, home, rank, lim) /\ Counted(x, U, home) /\ Placed(c, U, key, home)
  BY DEF Whole
<1> DEFINE T == Tops(U, home)
           wide == Wide(x)
           f == CHOOSE g : g = SplitUpTo(c, wide, g)
           Late(n) == {q \in T : ~(Hash[key[q]] % c < n)}
           Bad == {n \in 0 .. c : ~Spread(Blocks, f[n], c, T, U, key, Late(n))}
<1>1. Spread(Blocks, wide, c, T, U, key, Late(0))
  <2>1. /\ Shape(Blocks, wide, 2 * c, U, U, key, home, rank, lim)
        /\ wide.tops = x.tops /\ wide.rows = x.rows
    BY <1>0, WideGives
  <2> HIDE DEF wide
  <2>2. Counted(wide, U, home)
    BY <1>0, <2>1 DEF Counted
  <2>3. ASSUME NEW q \in T
        PROVE  Hash[key[q]] \in Nat
    <3>1. q \in U /\ Owning(x, U, U, key, home, q) /\ q \in Blocks /\ HashType(Blocks, x, c)
      BY <1>0 DEF Shape, Tops
    <3>2. x.node[q] \in HashNode(Blocks)
      BY <3>1 DEF HashType
    <3> QED
      BY <3>1, <3>2 DEF Owning, HashNode
  <2>4. \A q \in T : q \in Late(0) /\ home[q] = -1 - (Hash[key[q]] % c)
    BY <1>0, <2>3 DEF Placed
  <2>5. \A q \in T : home[q] = -1 - (Hash[key[q]] % (IF q \in Late(0) THEN c ELSE 2 * c))
    <3> TAKE q \in T
    <3>1. q \in Late(0) /\ home[q] = -1 - (Hash[key[q]] % c)
      BY <2>4
    <3> HIDE DEF T, Late
    <3> QED
      BY <3>1
  <2> HIDE DEF Late
  <2> QED
    BY <2>1, <2>2, <2>5 DEF Spread
<1>2. f = SplitUpTo(c, wide, f) /\ Rehash(x) = f[c]
  <2>1. \E g : g = SplitUpTo(c, wide, g)
    BY SplitUpToExists
  <2>2. Cap(x) = c
    BY <1>0, CapIs DEF Shape
  <2> QED
    BY <2>1, <2>2, RehashDef
<1> HIDE DEF f, wide, T
<1>3. \A n \in 0 .. c : f[n] = IF n = 0 THEN wide ELSE Split(f[n - 1], n - 1)
  BY <1>2 DEF SplitUpTo
<1>h. \A q \in T : Hash[key[q]] \in Nat
  <2>1. ASSUME NEW q \in T PROVE Hash[key[q]] \in Nat
    <3>1. q \in U /\ Owning(x, U, U, key, home, q) /\ q \in Blocks /\ HashType(Blocks, x, c)
      BY <1>0 DEF Shape, Tops, T
    <3>2. x.node[q] \in HashNode(Blocks)
      BY <3>1 DEF HashType
    <3> QED
      BY <3>1, <3>2 DEF Owning, HashNode
  <2> QED
    BY <2>1
<1>4. Bad = {}
  <2>1. SUFFICES ASSUME Bad # {} PROVE FALSE
    OBVIOUS
  <2>2. PICK m \in Bad : \A j \in Bad : m <= j
    <3>1. Bad \subseteq Nat
      OBVIOUS
    <3> HIDE DEF Bad
    <3> QED
      BY <2>1, <3>1, LeastNumber
  <2>3. m \in 0 .. c /\ ~Spread(Blocks, f[m], c, T, U, key, Late(m))
    BY <2>2
  <2>4. m # 0
    BY <1>1, <1>3, <2>3
  <2>5. m - 1 \in 0 .. c /\ m - 1 \in 0 .. c - 1 /\ ~(m <= m - 1)
    BY <2>3, <2>4
  <2>6. Spread(Blocks, f[m - 1], c, T, U, key, Late(m - 1))
    <3>1. m - 1 \notin Bad
      <4> HIDE DEF Bad
      <4> QED
        BY <2>2, <2>5
    <3> QED
      BY <2>5, <3>1
  <2>7. f[m] = Split(f[m - 1], m - 1)
    BY <1>3, <2>3, <2>4
  <2>8. Late(m) = Late(m - 1) \ {q \in T : Hash[key[q]] % c = m - 1}
    <3>1. \A q \in T : Hash[key[q]] % c \in Int
      BY <1>h
    <3>2. m \in Int
      BY <2>3
    <3> QED
      BY <3>1, <3>2
  <2> DEFINE s == m - 1
             A == Late(m - 1)
  <2>9. s \in 0 .. c - 1 /\ Spread(Blocks, f[s], c, T, U, key, A)
    BY <2>5, <2>6
  <2> HIDE DEF s, A, Late
  <2>10. Spread(Blocks, Split(f[s], s), c, T, U, key, A \ {q \in T : Hash[key[q]] % c = s})
    BY <1>0, <2>9, SplitGives
  <2> QED
    BY <2>3, <2>7, <2>8, <2>10 DEF s, A
<1>5. Spread(Blocks, f[c], c, T, U, key, {})
  <2>1. Spread(Blocks, f[c], c, T, U, key, Late(c))
    <3>1. c \in 0 .. c
      OBVIOUS
    <3> QED
      BY <1>4, <3>1
  <2>2. Late(c) = {}
    BY <1>h
  <2> QED
    BY <2>1, <2>2
<1>6. PICK hom \in [U -> Int], ran \in [U -> Nat], lm \in Nat :
          /\ Shape(Blocks, f[c], 2 * c, U, U, key, hom, ran, lm) /\ Counted(f[c], U, hom)
          /\ T = Tops(U, hom)
          /\ \A q \in T : hom[q] = -1 - (Hash[key[q]] % (IF q \in {} THEN c ELSE 2 * c))
  BY <1>5 DEF Spread
<1>7. Placed(2 * c, U, key, hom) /\ 2 * c \in Nat \ {0}
  BY <1>6 DEF Placed
<1> QED
  BY <1>2, <1>6, <1>7 DEF Whole

LEMMA PreparedIs ==
    ASSUME NEW i, NEW x, NEW U, NEW key, Whole(Blocks, x, U, key), IsFiniteSet(Blocks)
    PROVE  Whole(Blocks, Prepared(i, x), U, key)
BY RehashIs DEF Prepared

-------------------------------------------------------------------------------
(* An index under the row changes.                                          *)

\* Only the keys of the rows in the index matter.
LEMMA WholeKey ==
    ASSUME NEW B, NEW x, NEW U, NEW key, Whole(B, x, U, key), NEW key2, \A q \in U : key2[q] = key[q]
    PROVE  Whole(B, x, U, key2)
<1>0. PICK c \in Nat \ {0}, home \in [U -> Int], rank \in [U -> Nat], lim \in Nat :
          Shape(B, x, c, U, U, key, home, rank, lim) /\ Counted(x, U, home) /\ Placed(c, U, key, home)
  BY DEF Whole
<1>1. ASSUME NEW q \in U PROVE Owning(x, U, U, key2, home, q)
  <2>1. Owning(x, U, U, key, home, q)
    BY <1>0 DEF Shape
  <2> QED
    BY <2>1 DEF Owning
<1>2. \A p, q \in Tops(U, home) : key2[p] = key2[q] => p = q
  BY <1>0 DEF Shape, Tops
<1>3. Shape(B, x, c, U, U, key2, home, rank, lim)
  BY <1>0, <1>1, <1>2 DEF Shape
<1>4. Placed(c, U, key2, home)
  BY <1>0 DEF Placed, Tops
<1> QED
  BY <1>0, <1>3, <1>4 DEF Whole

\* An index without rows.
LEMMA EmptyIs ==
    ASSUME NEW B, NEW x, NEW c \in Nat \ {0}, HashType(B, x, c), B \subseteq Nat \ {0},
           \A s \in 0 .. c - 1 : x.slot[s] = 0, x.slots = 0, x.tops = 0, x.rows = 0, NEW key
    PROVE  Whole(B, x, {}, key)
<1> DEFINE home == [q \in {} |-> 0]
<1>1. home \in [{} -> Int] /\ home \in [{} -> Nat] /\ Tops({}, home) = {}
  BY DEF Tops
<1> HIDE DEF home
<1>2. Cardinality({}) = 0
  BY FS_EmptySet
<1>3. Slotted(x, c, {}, home)
  <2>1. {s \in 0 .. c - 1 : x.slot[s] # 0} = {}
    OBVIOUS
  <2> QED
    BY <1>2, <2>1 DEF Slotted
<1>4. Shape(B, x, c, {}, {}, key, home, home, 0)
  BY <1>1, <1>3 DEF Shape
<1>5. Counted(x, {}, home) /\ Placed(c, {}, key, home)
  BY <1>1, <1>2 DEF Counted, Placed
<1> QED
  BY <1>1, <1>4, <1>5 DEF Whole

LEMMA NewHashIs ==
    ASSUME Blocks = DOMAIN table.put, Blocks \subseteq Nat \ {0}, NEW key
    PROVE  Whole(Blocks, NewHash, {}, key)
<1> DEFINE c == FirstCap
<1>1. c \in Nat \ {0}
  BY IndexAssumption
<1>2. Nowhere \in HashNode(Blocks)
  BY DEF Nowhere, HashNode
<1> DEFINE sl == [s \in 0 .. c - 1 |-> 0]
           nd == [r \in Blocks |-> Nowhere]
<1>3. sl \in [0 .. c - 1 -> Blocks \union {0}] /\ \A s \in 0 .. c - 1 : sl[s] = 0
  OBVIOUS
<1>4. nd \in [Blocks -> HashNode(Blocks)]
  BY <1>2
<1>5. NewHash = [slot |-> sl, node |-> nd, slots |-> 0, tops |-> 0, rows |-> 0]
  BY DEF NewHash
<1> HIDE DEF sl, nd, c
<1>6. HashType(Blocks, NewHash, c) /\ NewHash.slot = sl /\ NewHash.slots = 0 /\ NewHash.tops = 0 /\ NewHash.rows = 0
  BY <1>3, <1>4, <1>5 DEF HashType
<1> QED
  BY <1>1, <1>3, <1>6, EmptyIs

LEMMA ClearedIs ==
    ASSUME NEW i, i \notin trees, NEW x, NEW U, NEW k1, Whole(Blocks, x, U, k1), NEW key
    PROVE  Whole(Blocks, Cleared(i, x), {}, key)
<1>0. PICK c \in Nat \ {0} : HashType(Blocks, x, c) /\ Blocks \subseteq Nat \ {0}
  BY DEF Whole, Shape
<1> DEFINE sl == [s \in 0 .. c - 1 |-> 0]
           y == Cleared(i, x)
<1>1. sl \in [0 .. c - 1 -> Blocks \union {0}] /\ \A s \in 0 .. c - 1 : sl[s] = 0
  OBVIOUS
<1>2. /\ DOMAIN x.slot = 0 .. c - 1
      /\ x = [slot |-> x.slot, node |-> x.node, slots |-> x.slots, tops |-> x.tops, rows |-> x.rows]
      /\ x.node \in [Blocks -> HashNode(Blocks)]
  BY <1>0 DEF HashType
<1>3. y = [x EXCEPT !.slot = sl, !.slots = 0, !.tops = 0, !.rows = 0]
  BY <1>2 DEF Cleared
<1> HIDE DEF sl, y
<1>4. y = [slot |-> sl, node |-> x.node, slots |-> 0, tops |-> 0, rows |-> 0]
  BY <1>2, <1>3
<1>5. HashType(Blocks, y, c) /\ y.slot = sl /\ y.slots = 0 /\ y.tops = 0 /\ y.rows = 0
  BY <1>1, <1>2, <1>4 DEF HashType
<1>6. Whole(Blocks, y, {}, key)
  BY <1>0, <1>1, <1>5, EmptyIs
<1> QED
  BY <1>6 DEF y

\* At most one index is unique, and it is the first in the order.  (When a later
\* one refuses a row, the earlier ones keep it: NoDangling.)
FirstUnique == \A i \in uniq, j \in table.first \union table.ddl : i <= j

\* Every hash index in A is whole and holds the rows U.
AllWhole(ix, A, U) == \A i \in A \ trees : Whole(Blocks, ix[i], U, Keyed(i, U))

LEMMA RefusingIs ==
    ASSUME NEW ix, NEW r, NEW rec, NEW V, FirstUnique, live \subseteq table.first \union table.ddl,
           NEW g \in Refusing(ix, r, rec, V)
    PROVE  g \in uniq \cap live /\ \A j \in live : g <= j
BY DEF Refusing, Refuses, FirstUnique

\* idx_addRow keeps the hash indexes whole, whether the row is refused or not.
LEMMA AddRowIs ==
    ASSUME IsFiniteSet(Blocks), live \subseteq Nat, NEW A \in SUBSET live,
           NEW ix, NEW U \in SUBSET Used, AllWhole(ix, A, U),
           NEW r \in Blocks \ U, NEW rec, \A j \in A : Hash[rec[j]] \in Nat,
           NEW f, \A g \in f : g \in live /\ \A j \in live : g <= j,
           NEW i \in A \ trees, i \in Indexes
    PROVE  LET y == AddRefused(ix, A, r, rec, f)[i]
           IN  IF f = {} THEN Whole(Blocks, y, U \union {r}, With(Keyed(i, U), U, r, rec[i]))
                         ELSE Whole(Blocks, y, U, Keyed(i, U))
<1> DEFINE y == AddRefused(ix, A, r, rec, f)[i]
           x == Prepared(i, ix[i])
<1>1. Whole(Blocks, ix[i], U, Keyed(i, U)) /\ Whole(Blocks, x, U, Keyed(i, U))
  BY PreparedIs DEF AllWhole
<1> HIDE DEF x
<1>2. CASE f = {}
  <2>1. y = HashInserted(x, i, r, rec[i])
    BY <1>2 DEF AddRefused, Inserted, x
  <2>2. Whole(Blocks, HashInserted(x, i, r, rec[i]), U \union {r}, With(Keyed(i, U), U, r, rec[i]))
    <3> DEFINE k == rec[i]
    <3>1. Hash[k] \in Nat
      OBVIOUS
    <3> HIDE DEF k
    <3>2. Whole(Blocks, HashInserted(x, i, r, k), U \union {r}, With(Keyed(i, U), U, r, k))
      BY <1>1, <3>1, InsertedIs
    <3> QED
      BY <3>2 DEF k
  <2> QED
    BY <1>2, <2>1, <2>2
<1>3. CASE f # {}
  <2>1. PICK g \in f : g \in live /\ \A j \in live : g <= j
    BY <1>3
  <2>2. CASE i \in f
    <3>1. ~\E j \in f : j < i
      <4> SUFFICES ASSUME NEW j \in f, j < i PROVE FALSE
        OBVIOUS
      <4>1. j \in live /\ i <= j /\ i \in Nat /\ j \in Nat
        BY <2>2
      <4> QED
        BY <4>1
    <3>2. ~\E j \in live : j < i
      <4> SUFFICES ASSUME NEW j \in live, j < i PROVE FALSE
        OBVIOUS
      <4>1. i <= j /\ i \in Nat /\ j \in Nat
        BY <2>2
      <4> QED
        BY <4>1
    <3>3. y = x
      BY <2>2, <3>1, <3>2 DEF AddRefused, x
    <3> QED
      BY <1>1, <1>3, <3>3
  <2>3. CASE i \notin f
    <3>1. g < i
      <4>1. g <= i /\ g # i /\ g \in Nat /\ i \in Nat
        BY <2>1, <2>3
      <4> QED
        BY <4>1
    <3>2. y = ix[i]
      BY <2>1, <3>1 DEF AddRefused
    <3> QED
      BY <1>1, <1>3, <3>2
  <2> QED
    BY <2>2, <2>3
<1> QED
  BY <1>2, <1>3

\* A row that no index refuses has new keys in the unique hash index.
LEMMA AddedIsNew ==
    ASSUME IsFiniteSet(Blocks), live \subseteq Nat, NEW ix, NEW U \in SUBSET Used, AllWhole(ix, live, U),
           NEW r, NEW rec, NEW V, Refusing(ix, r, rec, V) = {},
           NEW i \in (uniq \cap live) \ trees, Hash[rec[i]] \in Nat
    PROVE  \A q \in U \cap V : row[q][i] # rec[i]
<1> DEFINE bad == {j \in live : Refuses(Prepared(j, ix[j]), j, rec[j], V)}
           x == Prepared(i, ix[i])
           k == rec[i]
<1>1. bad = {}
  <2>1. SUFFICES ASSUME bad # {} PROVE FALSE
    OBVIOUS
  <2>2. PICK m \in bad : \A j \in bad : m <= j
    <3>1. bad \subseteq Nat
      OBVIOUS
    <3> HIDE DEF bad
    <3> QED
      BY <2>1, <3>1, LeastNumber
  <2> QED
    BY <2>2 DEF Refusing, Least
<1>2. ~Refuses(x, i, k, V)
  BY <1>1
<1>3. Whole(Blocks, x, U, Keyed(i, U))
  BY PreparedIs DEF AllWhole
<1>4. Hash[k] \in Nat
  OBVIOUS
<1> HIDE DEF x, k, bad
<1>5. ToSet(Query(x, i, k)) = {q \in U : row[q][i] = k}
  BY <1>3, <1>4, QueryIs
<1>6. ToSet(Query(x, i, k)) \cap V = {}
  BY <1>2 DEF Refuses
<1> QED
  BY <1>5, <1>6 DEF k

LEMMA RemRowIs ==
    ASSUME IsFiniteSet(Blocks), NEW A \in SUBSET Indexes, NEW ix, NEW U, AllWhole(ix, A, U), NEW r \in U
    PROVE  AllWhole(RemRow(ix, A, r), A, U \ {r})
<1>1. ASSUME NEW i \in A \ trees PROVE Whole(Blocks, RemRow(ix, A, r)[i], U \ {r}, Keyed(i, U \ {r}))
  <2>1. Whole(Blocks, HashRemoved(ix[i], r), U \ {r}, Keyed(i, U))
    BY RemovedIs DEF AllWhole
  <2>2. RemRow(ix, A, r)[i] = HashRemoved(ix[i], r)
    BY DEF RemRow, Removed
  <2>3. \A q \in U \ {r} : Keyed(i, U \ {r})[q] = Keyed(i, U)[q]
    BY DEF Keyed
  <2> QED
    BY <2>1, <2>2, <2>3, WholeKey
<1> QED
  BY <1>1 DEF AllWhole

-------------------------------------------------------------------------------
(* The loops of a repair and of CREATE INDEX: f[r] after row r.              *)

Refilled(S, kept, ix, f) ==
    [r \in S |-> IF r = 0 THEN ix ELSE IF r \in kept THEN AddRow(f[r - 1], live, r, row[r], {}) ELSE f[r - 1]]

Filled(S, i, x, f) ==
    [r \in S |-> IF r = 0 THEN x ELSE IF r \in Used THEN Inserted(i, Prepared(i, f[r - 1]), r, row[r][i]) ELSE f[r - 1]]

LEMMA RefilledExists ==
    ASSUME NEW kept, NEW ix, NEW N \in Nat
    PROVE  \E f : f = Refilled(0 .. N, kept, ix, f)
<1> DEFINE Bad == {m \in 0 .. N : ~\E f : f = Refilled(0 .. m, kept, ix, f)}
<1>1. SUFFICES ASSUME Bad # {} PROVE FALSE
  <2>1. N \in 0 .. N
    OBVIOUS
  <2> QED
    BY <1>1, <2>1
<1>2. PICK m \in Bad : \A k \in Bad : m <= k
  <2>1. Bad \subseteq Nat
    OBVIOUS
  <2> HIDE DEF Bad
  <2> QED
    BY <1>1, <2>1, LeastNumber
<1>3. m \in 0 .. N /\ ~\E f : f = Refilled(0 .. m, kept, ix, f)
  BY <1>2
<1>4. m # 0
  <2>1. \A f : Refilled(0 .. 0, kept, ix, f) = [n \in 0 .. 0 |-> ix]
    BY DEF Refilled
  <2> QED
    BY <1>3, <2>1
<1>5. m - 1 \in 0 .. N /\ m - 1 \notin Bad
  <2>1. m - 1 \in 0 .. N /\ ~(m <= m - 1)
    BY <1>3, <1>4
  <2> HIDE DEF Bad
  <2> QED
    BY <1>2, <2>1
<1>6. PICK v : v = Refilled(0 .. m - 1, kept, ix, v)
  BY <1>5
<1> DEFINE e == IF m \in kept THEN AddRow(v[m - 1], live, m, row[m], {}) ELSE v[m - 1]
           f == [n \in 0 .. m |-> IF n = m THEN e ELSE v[n]]
<1>7. ASSUME NEW n \in 0 .. m
      PROVE  f[n] = IF n = 0 THEN ix ELSE IF n \in kept THEN AddRow(f[n - 1], live, n, row[n], {}) ELSE f[n - 1]
  <2>1. n # 0 => n - 1 \in 0 .. m /\ n - 1 # m /\ f[n - 1] = v[n - 1]
    BY <1>3
  <2>2. CASE n = m
    <3>1. f[n] = e
      BY <2>2
    <3> HIDE DEF f
    <3> QED
      BY <1>4, <2>1, <2>2, <3>1
  <2>3. CASE n # m
    <3>1. f[n] = v[n] /\ n \in 0 .. m - 1
      BY <2>3, <1>3
    <3>2. v[n] = IF n = 0 THEN ix ELSE IF n \in kept THEN AddRow(v[n - 1], live, n, row[n], {}) ELSE v[n - 1]
      BY <1>6, <3>1 DEF Refilled
    <3> HIDE DEF f
    <3> QED
      BY <2>1, <3>1, <3>2
  <2> QED
    BY <2>2, <2>3
<1>8. f = Refilled(0 .. m, kept, ix, f)
  <2>1. f = [n \in 0 .. m |-> f[n]]
    OBVIOUS
  <2> HIDE DEF f
  <2> QED
    BY <1>7, <2>1 DEF Refilled
<1> QED
  BY <1>3, <1>8

LEMMA FilledExists ==
    ASSUME NEW i, NEW x, NEW N \in Nat
    PROVE  \E f : f = Filled(0 .. N, i, x, f)
<1> DEFINE Bad == {m \in 0 .. N : ~\E f : f = Filled(0 .. m, i, x, f)}
<1>1. SUFFICES ASSUME Bad # {} PROVE FALSE
  <2>1. N \in 0 .. N
    OBVIOUS
  <2> QED
    BY <1>1, <2>1
<1>2. PICK m \in Bad : \A k \in Bad : m <= k
  <2>1. Bad \subseteq Nat
    OBVIOUS
  <2> HIDE DEF Bad
  <2> QED
    BY <1>1, <2>1, LeastNumber
<1>3. m \in 0 .. N /\ ~\E f : f = Filled(0 .. m, i, x, f)
  BY <1>2
<1>4. m # 0
  <2>1. \A f : Filled(0 .. 0, i, x, f) = [n \in 0 .. 0 |-> x]
    BY DEF Filled
  <2> QED
    BY <1>3, <2>1
<1>5. m - 1 \in 0 .. N /\ m - 1 \notin Bad
  <2>1. m - 1 \in 0 .. N /\ ~(m <= m - 1)
    BY <1>3, <1>4
  <2> HIDE DEF Bad
  <2> QED
    BY <1>2, <2>1
<1>6. PICK v : v = Filled(0 .. m - 1, i, x, v)
  BY <1>5
<1> DEFINE e == IF m \in Used THEN Inserted(i, Prepared(i, v[m - 1]), m, row[m][i]) ELSE v[m - 1]
           f == [n \in 0 .. m |-> IF n = m THEN e ELSE v[n]]
<1>7. ASSUME NEW n \in 0 .. m
      PROVE  f[n] = IF n = 0 THEN x ELSE IF n \in Used THEN Inserted(i, Prepared(i, f[n - 1]), n, row[n][i]) ELSE f[n - 1]
  <2>1. n # 0 => n - 1 \in 0 .. m /\ n - 1 # m /\ f[n - 1] = v[n - 1]
    BY <1>3
  <2>2. CASE n = m
    <3>1. f[n] = e
      BY <2>2
    <3> HIDE DEF f
    <3> QED
      BY <1>4, <2>1, <2>2, <3>1
  <2>3. CASE n # m
    <3>1. f[n] = v[n] /\ n \in 0 .. m - 1
      BY <2>3, <1>3
    <3>2. v[n] = IF n = 0 THEN x ELSE IF n \in Used THEN Inserted(i, Prepared(i, v[n - 1]), n, row[n][i]) ELSE v[n - 1]
      BY <1>6, <3>1 DEF Filled
    <3> HIDE DEF f
    <3> QED
      BY <2>1, <3>1, <3>2
  <2> QED
    BY <2>2, <2>3
<1>8. f = Filled(0 .. m, i, x, f)
  <2>1. f = [n \in 0 .. m |-> f[n]]
    OBVIOUS
  <2> HIDE DEF f
  <2> QED
    BY <1>7, <2>1 DEF Filled
<1> QED
  BY <1>3, <1>8

LEMMA NodesIs == Nodes = 0 .. MaxRow /\ MaxRow \in Nodes
BY IndexAssumption DEF Nodes, Rows

\* What is in the indexes after the repair.
Refill(kept, ix) == (CHOOSE f : f = Refilled(Nodes, kept, ix, f))[MaxRow]
Fill(i, x) == (CHOOSE f : f = Filled(Nodes, i, x, f))[MaxRow]

\* One row more: the set of the rows up to r.
UpTo(S, r) == {q \in S : q <= r}

LEMMA UpToIs ==
    ASSUME NEW S, S \subseteq Rows, NEW m \in Nat \ {0}
    PROVE  /\ UpTo(S, 0) = {} /\ UpTo(S, MaxRow) = S
           /\ m \in S => UpTo(S, m) = UpTo(S, m - 1) \union {m} /\ m \notin UpTo(S, m - 1)
           /\ m \notin S => UpTo(S, m) = UpTo(S, m - 1)
<1>1. MaxRow \in Nat /\ \A q \in S : q \in Nat /\ 0 < q /\ q <= MaxRow
  BY IndexAssumption DEF Rows
<1>2. \A q \in S : q <= m <=> q <= m - 1 \/ q = m
  BY <1>1
<1>3. UpTo(S, 0) = {} /\ UpTo(S, MaxRow) = S
  BY <1>1 DEF UpTo
<1>4. ~(m <= m - 1)
  OBVIOUS
<1> QED
  BY <1>2, <1>3, <1>4 DEF UpTo

LEMMA RefillIs ==
    ASSUME IsFiniteSet(Blocks), Blocks \subseteq Rows, live \subseteq Indexes, Indexes \subseteq Nat,
           NEW kept \in SUBSET Used, \A q \in kept : \A j \in live : Hash[row[q][j]] \in Nat,
           NEW ix, AllWhole(ix, live, {})
    PROVE  AllWhole(Refill(kept, ix), live, kept)
<1> DEFINE f == CHOOSE g : g = Refilled(Nodes, kept, ix, g)
           N == MaxRow
           Bad == {n \in 0 .. N : ~AllWhole(f[n], live, UpTo(kept, n))}
<1>1. N \in Nat /\ kept \subseteq Rows /\ kept \subseteq Blocks
  BY IndexAssumption DEF Used, Blocks
<1>2. f = Refilled(0 .. N, kept, ix, f)
  <2>1. \E g : g = Refilled(0 .. N, kept, ix, g)
    BY <1>1, RefilledExists
  <2> QED
    BY <2>1, NodesIs
<1> HIDE DEF f
<1>3. \A n \in 0 .. N : f[n] = IF n = 0 THEN ix ELSE IF n \in kept THEN AddRow(f[n - 1], live, n, row[n], {}) ELSE f[n - 1]
  BY <1>2 DEF Refilled
<1>4. Bad = {}
  <2>1. SUFFICES ASSUME Bad # {} PROVE FALSE
    OBVIOUS
  <2>2. PICK m \in Bad : \A j \in Bad : m <= j
    <3>1. Bad \subseteq Nat
      OBVIOUS
    <3> HIDE DEF Bad
    <3> QED
      BY <2>1, <3>1, LeastNumber
  <2>3. m \in 0 .. N /\ ~AllWhole(f[m], live, UpTo(kept, m))
    BY <2>2
  <2>4. m # 0
    <3>1. UpTo(kept, 0) = {}
      BY <1>1, UpToIs
    <3> QED
      BY <1>1, <1>3, <2>3, <3>1
  <2>5. m - 1 \in 0 .. N /\ ~(m <= m - 1) /\ m \in Nat \ {0}
    BY <1>1, <2>3, <2>4
  <2> DEFINE g == f[m - 1]
             U == UpTo(kept, m - 1)
  <2>6. AllWhole(g, live, U)
    <3>1. m - 1 \notin Bad
      <4> HIDE DEF Bad
      <4> QED
        BY <2>2, <2>5
    <3> QED
      BY <2>5, <3>1
  <2> HIDE DEF g, U
  <2>7. CASE m \notin kept
    <3>1. f[m] = g
      BY <1>3, <2>3, <2>4, <2>7 DEF g
    <3>2. UpTo(kept, m) = U
      BY <1>1, <2>5, <2>7, UpToIs DEF U
    <3> QED
      BY <2>3, <2>6, <3>1, <3>2
  <2>8. CASE m \in kept
    <3>1. f[m] = AddRow(g, live, m, row[m], {})
      BY <1>3, <2>3, <2>4, <2>8 DEF g
    <3>2. UpTo(kept, m) = U \union {m} /\ m \notin U
      BY <1>1, <2>5, <2>8, UpToIs DEF U
    <3>3. U \subseteq Used /\ m \in Blocks /\ live \subseteq Nat
      BY <1>1, <2>8 DEF U, UpTo
    <3>4. Refusing(g, m, row[m], {}) = {}
      <4>1. ASSUME NEW j, NEW x, NEW k, Refuses(x, j, k, {}) PROVE FALSE
        BY <4>1 DEF Refuses
      <4> QED
        BY <4>1 DEF Refusing
    <3>5. f[m] = AddRefused(g, live, m, row[m], {})
      BY <3>1, <3>4 DEF AddRow
    <3>6. ASSUME NEW i \in live \ trees
          PROVE  Whole(Blocks, f[m][i], UpTo(kept, m), Keyed(i, UpTo(kept, m)))
      <4> DEFINE V == U \union {m}
                 rec == row[m]
                 y == AddRefused(g, live, m, rec, {})[i]
                 key == With(Keyed(i, U), U, m, rec[i])
      <4>1. Whole(Blocks, y, V, key)
        <5>1. \A j \in live : Hash[rec[j]] \in Nat
          BY <2>8
        <5>2. i \in Indexes /\ m \in Blocks \ U
          BY <3>2, <3>3
        <5> HIDE DEF rec
        <5> QED
          BY <2>6, <3>3, <5>1, <5>2, AddRowIs
      <4>2. \A q \in V : Keyed(i, V)[q] = key[q]
        BY DEF Keyed, With
      <4> HIDE DEF y, key, V
      <4>3. Whole(Blocks, y, V, Keyed(i, V))
        BY <4>1, <4>2, WholeKey
      <4> QED
        BY <3>2, <3>5, <4>3 DEF y, V
    <3> QED
      BY <2>3, <3>6 DEF AllWhole
  <2> QED
    BY <2>7, <2>8
<1>5. N \in 0 .. N /\ UpTo(kept, N) = kept
  <2>1. 1 \in Nat \ {0}
    OBVIOUS
  <2> QED
    BY <1>1, <2>1, UpToIs
<1>6. AllWhole(f[N], live, kept)
  BY <1>4, <1>5
<1> QED
  BY <1>6 DEF Refill, f

LEMMA FillIs ==
    ASSUME IsFiniteSet(Blocks), Blocks \subseteq Rows, NEW i, i \notin trees,
           \A q \in Used : Hash[row[q][i]] \in Nat,
           NEW x, Whole(Blocks, x, {}, Keyed(i, {}))
    PROVE  Whole(Blocks, Fill(i, x), Used, Keyed(i, Used))
<1> DEFINE f == CHOOSE g : g = Filled(Nodes, i, x, g)
           N == MaxRow
           Bad == {n \in 0 .. N : ~Whole(Blocks, f[n], UpTo(Used, n), Keyed(i, UpTo(Used, n)))}
<1>1. N \in Nat /\ Used \subseteq Rows /\ Used \subseteq Blocks
  BY IndexAssumption DEF Used, Blocks
<1>2. f = Filled(0 .. N, i, x, f)
  <2>1. \E g : g = Filled(0 .. N, i, x, g)
    BY <1>1, FilledExists
  <2> QED
    BY <2>1, NodesIs
<1> HIDE DEF f
<1>3. \A n \in 0 .. N : f[n] = IF n = 0 THEN x ELSE IF n \in Used THEN Inserted(i, Prepared(i, f[n - 1]), n, row[n][i]) ELSE f[n - 1]
  BY <1>2 DEF Filled
<1>4. Bad = {}
  <2>1. SUFFICES ASSUME Bad # {} PROVE FALSE
    OBVIOUS
  <2>2. PICK m \in Bad : \A j \in Bad : m <= j
    <3>1. Bad \subseteq Nat
      OBVIOUS
    <3> HIDE DEF Bad
    <3> QED
      BY <2>1, <3>1, LeastNumber
  <2>3. m \in 0 .. N /\ ~Whole(Blocks, f[m], UpTo(Used, m), Keyed(i, UpTo(Used, m)))
    BY <2>2
  <2>4. m # 0
    <3>1. UpTo(Used, 0) = {}
      BY <1>1, UpToIs
    <3> QED
      BY <1>1, <1>3, <2>3, <3>1
  <2>5. m - 1 \in 0 .. N /\ ~(m <= m - 1) /\ m \in Nat \ {0}
    BY <1>1, <2>3, <2>4
  <2> DEFINE g == f[m - 1]
             U == UpTo(Used, m - 1)
  <2>6. Whole(Blocks, g, U, Keyed(i, U))
    <3>1. m - 1 \notin Bad
      <4> HIDE DEF Bad
      <4> QED
        BY <2>2, <2>5
    <3> QED
      BY <2>5, <3>1
  <2> HIDE DEF g, U
  <2>7. CASE m \notin Used
    <3>1. f[m] = g
      BY <1>3, <2>3, <2>4, <2>7 DEF g
    <3>2. UpTo(Used, m) = U
      BY <1>1, <2>5, <2>7, UpToIs DEF U
    <3> QED
      BY <2>3, <2>6, <3>1, <3>2
  <2>8. CASE m \in Used
    <3> DEFINE y == Prepared(i, g)
               V == U \union {m}
               k == row[m][i]
               z == HashInserted(y, i, m, k)
               key == With(Keyed(i, U), U, m, k)
    <3>1. f[m] = z
      BY <1>3, <2>3, <2>4, <2>8 DEF g, Inserted
    <3>2. UpTo(Used, m) = V /\ m \notin U
      BY <1>1, <2>5, <2>8, UpToIs DEF U
    <3>3. U \subseteq Used /\ m \in Blocks \ U
      BY <1>1, <2>8, <3>2 DEF U, UpTo
    <3>4. Whole(Blocks, y, U, Keyed(i, U))
      BY <2>6, PreparedIs
    <3>5. Whole(Blocks, z, V, key)
      <4>1. Hash[k] \in Nat
        BY <2>8
      <4> HIDE DEF k, y
      <4> QED
        BY <3>3, <3>4, <4>1, InsertedIs
    <3>6. \A q \in V : Keyed(i, V)[q] = key[q]
      BY DEF Keyed, With
    <3> HIDE DEF z, key, V
    <3>7. Whole(Blocks, z, V, Keyed(i, V))
      BY <3>5, <3>6, WholeKey
    <3> QED
      BY <2>3, <3>1, <3>2, <3>7
  <2> QED
    BY <2>7, <2>8
<1>5. N \in 0 .. N /\ UpTo(Used, N) = Used
  <2>1. 1 \in Nat \ {0}
    OBVIOUS
  <2> QED
    BY <1>1, <2>1, UpToIs
<1>6. Whole(Blocks, f[N], Used, Keyed(i, Used))
  BY <1>4, <1>5
<1> QED
  BY <1>6 DEF Fill, f

-------------------------------------------------------------------------------
(* The states.                                                              *)

IndexTypes ==
    /\ table \in Cases /\ live \subseteq table.first \union table.ddl
    /\ row \in [DOMAIN table.put -> Records \union {Free}]
    /\ \A r \in Used : row[r] \in table.put[r]
    /\ DOMAIN idx = Indexes
    /\ own \subseteq Used /\ gone \subseteq Used /\ own \cap gone = {}
    /\ walk \in {"none", "commit", "rollback"} /\ repairs \in Nat

\* What clients write: rows whose keys have hash values.
Written(r, rec) ==
    /\ rec \in Records /\ rec # Free
    /\ \A j \in table.first \union table.ddl : Hash[rec[j]] \in Nat

LEMMA TypeFacts ==
    ASSUME IndexTypes
    PROVE  /\ Blocks = DOMAIN table.put /\ Blocks \subseteq Rows /\ Blocks \subseteq Nat \ {0} /\ IsFiniteSet(Blocks)
           /\ Indexes \subseteq Nat /\ live \subseteq Indexes /\ live \subseteq table.first \union table.ddl
           /\ table.ddl \subseteq Indexes
           /\ \A r \in Blocks : \A rec \in table.put[r] : Written(r, rec)
           /\ \A r \in Used : r \in Blocks /\ Written(r, row[r])
<1>1. Blocks = DOMAIN table.put /\ Blocks \subseteq Rows
  BY IndexAssumption DEF IndexTypes, Blocks
<1>2. MaxRow \in Nat /\ Rows \subseteq Nat \ {0} /\ IsFiniteSet(Rows)
  <2>1. MaxRow \in Nat
    BY IndexAssumption
  <2>2. IsFiniteSet(1 .. MaxRow)
    BY <2>1, FS_Interval
  <2> QED
    BY <2>1, <2>2 DEF Rows
<1>3. IsFiniteSet(Blocks)
  BY <1>1, <1>2, FS_Subset
<1>4. Indexes \subseteq Nat /\ table.first \union table.ddl \subseteq Indexes
  BY IndexAssumption DEF IndexTypes
<1>5. ASSUME NEW r \in Blocks, NEW rec \in table.put[r] PROVE Written(r, rec)
  <2>1. rec \in Records /\ table.first \union table.ddl \subseteq DOMAIN rec
    BY <1>1, IndexAssumption DEF IndexTypes
  <2>2. rec # Free
    BY <2>1, IndexAssumption
  <2>3. \A j \in DOMAIN rec : Hash[rec[j]] \in Nat
    BY <2>1, IndexAssumption
  <2> QED
    BY <2>1, <2>2, <2>3 DEF Written
<1>6. \A r \in Used : r \in Blocks /\ row[r] \in table.put[r]
  BY DEF Used, Blocks, IndexTypes
<1> QED
  BY <1>1, <1>2, <1>3, <1>4, <1>5, <1>6 DEF IndexTypes

LEMMA TypesInit == Init => IndexTypes
<1> SUFFICES ASSUME Init PROVE IndexTypes
  OBVIOUS
<1>1. Used = {}
  BY DEF Init, Used
<1> QED
  BY <1>1 DEF Init, IndexTypes

\* What an insertion of rec in block r does to the rows, of which U are left.
RowsInserted(f, U, r, rec, ownNow) ==
    /\ r \in Blocks /\ r \notin Used /\ r \notin U /\ Blocks' = Blocks /\ U \subseteq Used
    /\ Used' = IF f = {} THEN U \union {r} ELSE U
    /\ \A q \in U : row'[q] = row[q]
    /\ f = {} => row'[r] = rec
    /\ row' \in [DOMAIN table.put -> Records \union {Free}]
    /\ \A q \in Used' : row'[q] \in table.put[q]
    /\ DOMAIN idx' = Indexes
    /\ own' = IF f = {} THEN ownNow \union {r} ELSE ownNow

LEMMA InsertIntoRows ==
    ASSUME IndexTypes, NEW ix, NEW r, NewBlock(r), NEW rec \in table.put[r], NEW V, NEW rowNow, NEW ownNow,
           InsertInto(ix, r, rec, V, rowNow, ownNow),
           rowNow \in [DOMAIN table.put -> Records \union {Free}], \A q \in Used : rowNow[q] \in {row[q], Free},
           \A q \in Blocks \ Used : rowNow[q] = Free, UNCHANGED table
    PROVE  RowsInserted(Refusing(ix, r, rec, V), {q \in Blocks : rowNow[q] # Free}, r, rec, ownNow)
<1> DEFINE f == Refusing(ix, r, rec, V)
           U == {q \in Blocks : rowNow[q] # Free}
<1> SUFFICES RowsInserted(f, U, r, rec, ownNow)
  OBVIOUS
<1>1. r \in Blocks /\ r \notin Used /\ Blocks = DOMAIN table.put /\ Written(r, rec)
  BY TypeFacts DEF NewBlock, Least
<1>2. /\ row' = IF f = {} THEN [rowNow EXCEPT ![r] = rec] ELSE rowNow
      /\ own' = IF f = {} THEN ownNow \union {r} ELSE ownNow
      /\ DOMAIN idx' = Indexes
  BY DEF InsertInto, InsertUnless, AddRefused
<1>3. Used' = {q \in DOMAIN row' : row'[q] # Free} /\ Blocks' = DOMAIN row'
  BY DEF Used, Blocks
<1>4. U \subseteq Used /\ r \notin U /\ \A q \in U : rowNow[q] = row[q] /\ row[q] \in table.put[q] /\ q # r
  BY <1>1 DEF IndexTypes
<1>5. rec \in Records /\ rec # Free
  BY <1>1 DEF Written
<1> HIDE DEF f
<1>6. CASE f = {}
  <2>1. row' = [rowNow EXCEPT ![r] = rec]
    BY <1>2, <1>6
  <2>2. /\ row' \in [DOMAIN table.put -> Records \union {Free}] /\ row'[r] = rec
        /\ \A q \in Blocks : q # r => row'[q] = rowNow[q]
    BY <1>1, <1>5, <2>1
  <2>3. Blocks' = Blocks
    BY <1>1, <1>3, <2>2
  <2>4. Used' = U \union {r}
    BY <1>1, <1>3, <1>5, <2>2
  <2>5. U \subseteq Blocks
    OBVIOUS
  <2> HIDE DEF U
  <2>6. \A q \in U : row'[q] = row[q] /\ row'[q] \in table.put[q]
    BY <1>4, <2>2, <2>5
  <2>7. \A q \in Used' : row'[q] \in table.put[q]
    BY <2>2, <2>4, <2>6
  <2>8. own' = ownNow \union {r}
    BY <1>2, <1>6
  <2> QED
    BY <1>1, <1>2, <1>4, <1>6, <2>2, <2>3, <2>4, <2>6, <2>7, <2>8 DEF RowsInserted
<1>7. CASE f # {}
  <2>1. row' = rowNow
    BY <1>2, <1>7
  <2>2. Blocks' = Blocks /\ Used' = U
    BY <1>1, <1>3, <2>1
  <2> HIDE DEF U
  <2>3. \A q \in U : row'[q] = row[q] /\ row'[q] \in table.put[q]
    BY <1>4, <2>1
  <2>4. own' = ownNow
    BY <1>2, <1>7
  <2> QED
    BY <1>1, <1>2, <1>4, <1>7, <2>1, <2>2, <2>3, <2>4 DEF RowsInserted
<1> QED
  BY <1>6, <1>7

\* A repair keeps the set of the indexes.
LEMMA RefillDomain ==
    ASSUME NEW kept, NEW ix, DOMAIN ix = Indexes
    PROVE  DOMAIN Refill(kept, ix) = Indexes
<1> DEFINE f == CHOOSE g : g = Refilled(Nodes, kept, ix, g)
           N == MaxRow
           Bad == {n \in 0 .. N : DOMAIN f[n] # Indexes}
<1>1. N \in Nat
  BY IndexAssumption
<1>2. f = Refilled(0 .. N, kept, ix, f)
  <2>1. \E g : g = Refilled(0 .. N, kept, ix, g)
    BY <1>1, RefilledExists
  <2> QED
    BY <2>1, NodesIs
<1> HIDE DEF f
<1>3. \A n \in 0 .. N : f[n] = IF n = 0 THEN ix ELSE IF n \in kept THEN AddRow(f[n - 1], live, n, row[n], {}) ELSE f[n - 1]
  BY <1>2 DEF Refilled
<1>4. Bad = {}
  <2>1. SUFFICES ASSUME Bad # {} PROVE FALSE
    OBVIOUS
  <2>2. PICK m \in Bad : \A j \in Bad : m <= j
    <3>1. Bad \subseteq Nat
      OBVIOUS
    <3> HIDE DEF Bad
    <3> QED
      BY <2>1, <3>1, LeastNumber
  <2>3. m \in 0 .. N /\ DOMAIN f[m] # Indexes
    BY <2>2
  <2>4. m # 0
    BY <1>1, <1>3, <2>3
  <2>5. m - 1 \in 0 .. N /\ ~(m <= m - 1)
    BY <1>1, <2>3, <2>4
  <2>6. DOMAIN f[m - 1] = Indexes
    <3>1. m - 1 \notin Bad
      <4> HIDE DEF Bad
      <4> QED
        BY <2>2, <2>5
    <3> QED
      BY <2>5, <3>1
  <2>7. m \in kept => f[m] = AddRow(f[m - 1], live, m, row[m], {})
    BY <1>3, <2>3, <2>4
  <2>8. m \notin kept => f[m] = f[m - 1]
    BY <1>3, <2>3, <2>4
  <2>9. \A jx : DOMAIN AddRow(jx, live, m, row[m], {}) = Indexes
    BY DEF AddRow, AddRefused
  <2> QED
    BY <2>3, <2>6, <2>7, <2>8, <2>9
<1>5. N \in 0 .. N
  BY <1>1
<1> QED
  BY <1>4, <1>5 DEF Refill, f

\* Row r is freed.
LEMMA FreedRows ==
    ASSUME IndexTypes, NEW r \in Used, row' = [row EXCEPT ![r] = Free], UNCHANGED table
    PROVE  /\ Blocks' = Blocks /\ Used' = Used \ {r} /\ \A q \in Used' : row'[q] = row[q]
           /\ row' \in [DOMAIN table.put -> Records \union {Free}]
           /\ \A q \in Used' : row'[q] \in table.put[q]
<1>1. r \in DOMAIN row /\ DOMAIN row = DOMAIN table.put /\ row \in [DOMAIN table.put -> Records \union {Free}]
  BY DEF IndexTypes, Used
<1>2. /\ row' \in [DOMAIN table.put -> Records \union {Free}] /\ DOMAIN row' = DOMAIN row /\ row'[r] = Free
      /\ \A q \in DOMAIN row : q # r => row'[q] = row[q]
  BY <1>1
<1>3. Used' = Used \ {r}
  BY <1>1, <1>2 DEF Used
<1> QED
  BY <1>1, <1>2, <1>3 DEF Blocks, Used, IndexTypes

\* Rows and table stay.
LEMMA SameRows ==
    ASSUME UNCHANGED <<table, row>>
    PROVE  Blocks' = Blocks /\ Used' = Used
BY DEF Blocks, Used

LEMMA TypesNext == IndexTypes /\ [Next]_vars => IndexTypes'
<1> SUFFICES ASSUME IndexTypes, [Next]_vars PROVE IndexTypes'
  OBVIOUS
<1>1. ASSUME NEW r \in Rows, Delete(r) PROVE IndexTypes'
  <2>1. r \in Used /\ r \notin gone /\ table' = table /\ live' = live /\ repairs' = repairs /\ walk' = walk
    BY <1>1 DEF Delete, Valid
  <2>2. CASE /\ r \in own /\ idx' = RemRow(idx, live, r) /\ row' = [row EXCEPT ![r] = Free]
             /\ own' = own \ {r} /\ gone' = gone
    <3>1. DOMAIN idx' = Indexes
      BY <2>2 DEF RemRow
    <3>2. /\ Used' = Used \ {r} /\ row' \in [DOMAIN table.put -> Records \union {Free}]
          /\ \A q \in Used' : row'[q] \in table.put[q]
      BY <2>1, <2>2, FreedRows
    <3> QED
      BY <2>1, <2>2, <3>1, <3>2 DEF IndexTypes
  <2>3. CASE r \notin own /\ gone' = gone \union {r} /\ UNCHANGED <<row, idx, own>>
    <3>1. Used' = Used
      BY <2>1, <2>3, SameRows
    <3> QED
      BY <2>1, <2>3, <3>1 DEF IndexTypes
  <2> QED
    BY <1>1, <2>2, <2>3 DEF Delete
<1>2. ASSUME NEW r \in Rows, CommitDel(r) PROVE IndexTypes'
  <2>1. /\ r \in Used /\ r \in gone /\ row' = [row EXCEPT ![r] = Free] /\ gone' = gone \ {r}
        /\ UNCHANGED <<table, live, repairs, own, walk>>
    BY <1>2 DEF CommitDel, Least, IndexTypes
  <2>2. DOMAIN idx' = Indexes
    BY <1>2 DEF CommitDel, RemRow
  <2>3. /\ Used' = Used \ {r} /\ row' \in [DOMAIN table.put -> Records \union {Free}]
        /\ \A q \in Used' : row'[q] \in table.put[q]
    BY <2>1, FreedRows
  <2> QED
    BY <2>1, <2>2, <2>3 DEF IndexTypes
<1>3. ASSUME NEW r \in Rows, RollbackNew(r) PROVE IndexTypes'
  <2>1. /\ r \in Used /\ r \in own /\ row' = [row EXCEPT ![r] = Free] /\ own' = own \ {r}
        /\ UNCHANGED <<table, live, repairs, gone, walk>>
    BY <1>3 DEF RollbackNew, Least, IndexTypes
  <2>2. DOMAIN idx' = Indexes
    BY <1>3 DEF RollbackNew, RemRow
  <2>3. /\ Used' = Used \ {r} /\ row' \in [DOMAIN table.put -> Records \union {Free}]
        /\ \A q \in Used' : row'[q] \in table.put[q]
    BY <2>1, FreedRows
  <2> QED
    BY <2>1, <2>2, <2>3 DEF IndexTypes
<1>4. ASSUME NEW r \in Rows, NEW rec \in Records, Insert(r, rec) PROVE IndexTypes'
  <2>1. /\ NewBlock(r) /\ rec \in table.put[r] /\ InsertInto(idx, r, rec, Used \ gone, row, own)
        /\ UNCHANGED <<table, live, repairs, gone, walk>>
    BY <1>4 DEF Insert
  <2> DEFINE f == Refusing(idx, r, rec, Used \ gone)
             U == {q \in Blocks : row[q] # Free}
  <2>2. /\ row \in [DOMAIN table.put -> Records \union {Free}]
        /\ \A q \in Used : row[q] \in {row[q], Free}
        /\ \A q \in Blocks \ Used : row[q] = Free
        /\ U = Used
    BY DEF IndexTypes, Used, Blocks
  <2>3. RowsInserted(f, U, r, rec, own)
    <3> DEFINE V == Used \ gone
    <3> HIDE DEF V
    <3> QED
      BY <2>1, <2>2, InsertIntoRows DEF V
  <2> HIDE DEF f, U
  <2>4. own' \subseteq Used' /\ gone' \subseteq Used' /\ own' \cap gone' = {}
    BY <2>1, <2>2, <2>3 DEF IndexTypes, RowsInserted
  <2> QED
    BY <2>1, <2>3, <2>4 DEF IndexTypes, RowsInserted
<1>5. ASSUME NEW r \in Rows, NEW q \in Rows, NEW rec \in Records, Update(r, q, rec) PROVE IndexTypes'
  <2> DEFINE V == Used \ (gone \union {r})
  <2>1. /\ r \in Used /\ r \notin gone /\ NewBlock(q) /\ rec \in table.put[q]
        /\ UNCHANGED <<table, live, repairs, walk>>
        /\ \/ /\ r \in own
              /\ InsertInto(RemRow(idx, live, r), q, rec, V, [row EXCEPT ![r] = Free], own \ {r})
              /\ UNCHANGED gone
           \/ /\ r \notin own
              /\ InsertInto(idx, q, rec, V, row, own)
              /\ gone' = gone \union {r}
    BY <1>5 DEF Update, Valid
  <2> HIDE DEF V
  <2>2. CASE /\ r \in own
             /\ InsertInto(RemRow(idx, live, r), q, rec, V, [row EXCEPT ![r] = Free], own \ {r})
             /\ UNCHANGED gone
    <3> DEFINE now == [row EXCEPT ![r] = Free]
               ix == RemRow(idx, live, r)
               mine == own \ {r}
               f == Refusing(ix, q, rec, V)
               U == {p \in Blocks : now[p] # Free}
    <3>1. /\ now \in [DOMAIN table.put -> Records \union {Free}]
          /\ \A p \in Used : now[p] \in {row[p], Free}
          /\ \A p \in Blocks \ Used : now[p] = Free
          /\ U = Used \ {r}
      BY <2>1 DEF IndexTypes, Used, Blocks
    <3> HIDE DEF now, ix, mine
    <3>2. InsertInto(ix, q, rec, V, now, mine)
      BY <2>2 DEF ix, now, mine
    <3>3. RowsInserted(f, U, q, rec, mine)
      BY <2>1, <3>1, <3>2, InsertIntoRows
    <3> HIDE DEF f, U
    <3>4. own' \subseteq Used' /\ gone' \subseteq Used' /\ own' \cap gone' = {}
      BY <2>1, <2>2, <3>1, <3>3 DEF IndexTypes, mine, RowsInserted
    <3> QED
      BY <2>1, <3>3, <3>4 DEF IndexTypes, RowsInserted
  <2>3. CASE /\ r \notin own
             /\ InsertInto(idx, q, rec, V, row, own)
             /\ gone' = gone \union {r}
    <3> DEFINE f == Refusing(idx, q, rec, V)
               U == {p \in Blocks : row[p] # Free}
    <3>1. /\ row \in [DOMAIN table.put -> Records \union {Free}]
          /\ \A p \in Used : row[p] \in {row[p], Free}
          /\ \A p \in Blocks \ Used : row[p] = Free
          /\ U = Used
      BY DEF IndexTypes, Used, Blocks
    <3>2. RowsInserted(f, U, q, rec, own)
      BY <2>1, <2>3, <3>1, InsertIntoRows
    <3> HIDE DEF f, U
    <3>3. own' \subseteq Used' /\ gone' \subseteq Used' /\ own' \cap gone' = {}
      BY <2>1, <2>3, <3>1, <3>2 DEF IndexTypes, RowsInserted
    <3> QED
      BY <2>1, <3>2, <3>3 DEF IndexTypes, RowsInserted
  <2> QED
    BY <2>1, <2>2, <2>3
<1>6. ASSUME NEW r \in Rows, NEW rec \in Records, NEW A \in SUBSET live, UpdateInPlace(r, A, rec)
      PROVE  IndexTypes'
  <2>1. /\ r \in own /\ rec \in table.put[r] /\ row' = [row EXCEPT ![r] = rec]
        /\ UNCHANGED <<table, live, repairs, own, gone, walk>>
    BY <1>6 DEF UpdateInPlace
  <2>2. DOMAIN idx' = Indexes
    BY <1>6 DEF UpdateInPlace, AddRow, AddRefused
  <2>3. r \in Used /\ r \in Blocks /\ Blocks = DOMAIN table.put /\ rec # Free
    BY <2>1, TypeFacts DEF IndexTypes, Written
  <2>4. row' \in [DOMAIN table.put -> Records \union {Free}] /\ row'[r] = rec /\ \A q \in Blocks : q # r => row'[q] = row[q]
    BY <2>1, <2>3 DEF IndexTypes
  <2>5. Used' = Used
    BY <2>3, <2>4 DEF Used, Blocks, IndexTypes
  <2>6. \A q \in Used : row'[q] \in table.put[q]
    <3> TAKE q \in Used
    <3>1. q \in Blocks /\ row[q] \in table.put[q]
      BY DEF IndexTypes, Used, Blocks
    <3> QED
      BY <2>1, <2>4, <3>1
  <2> QED
    BY <2>1, <2>2, <2>4, <2>5, <2>6 DEF IndexTypes
<1>7. CASE StartCommit \/ StartRollback \/ Ended
  <2>1. Used' = Used
    BY <1>7, SameRows DEF StartCommit, StartRollback, Ended
  <2> QED
    BY <1>7, <2>1 DEF StartCommit, StartRollback, Ended, IndexTypes
<1>8. CASE CrashAndRepair
  <2> DEFINE kept == Used \ own
  <2>1. /\ row' = [r \in DOMAIN row |-> IF r \in kept THEN row[r] ELSE Free]
        /\ repairs' = repairs + 1 /\ own' = {} /\ gone' = {} /\ walk' = "none"
        /\ UNCHANGED <<table, live>>
    BY <1>8 DEF CrashAndRepair
  <2>2. Used' = kept
    BY <2>1 DEF Used
  <2>3. /\ row' \in [DOMAIN table.put -> Records \union {Free}]
        /\ \A q \in kept : row'[q] \in table.put[q]
    BY <2>1 DEF IndexTypes, Used
  <2>4. DOMAIN idx' = Indexes
    <3>1. idx' = Refill(kept, [i \in Indexes |-> IF i \in live THEN Cleared(i, idx[i]) ELSE idx[i]])
      BY <1>8, Zenon DEF CrashAndRepair, Refill, Refilled
    <3> QED
      BY <3>1, RefillDomain
  <2> QED
    BY <2>1, <2>2, <2>3, <2>4 DEF IndexTypes
<1>9. ASSUME NEW i \in Indexes, CreateIndex(i) \/ DropIndex(i) PROVE IndexTypes'
  <2>1. Used' = Used
    BY <1>9, SameRows DEF CreateIndex, DropIndex
  <2>2. DOMAIN idx' = Indexes
    BY <1>9 DEF CreateIndex, DropIndex, IndexTypes
  <2> QED
    BY <1>9, <2>1, <2>2 DEF CreateIndex, DropIndex, IndexTypes
<1>10. CASE UNCHANGED vars
  <2>1. Used' = Used
    BY <1>10, SameRows DEF vars
  <2> QED
    BY <1>10, <2>1 DEF vars, IndexTypes
<1> QED
  BY <1>1, <1>2, <1>3, <1>4, <1>5, <1>6, <1>7, <1>8, <1>9, <1>10 DEF Next

-------------------------------------------------------------------------------
(* Hash indexes stay whole.                                                 *)

KeyedNow(i, U) == [r \in U |-> row'[r][i]]

LEMMA AllWholeNow ==
    ASSUME UNCHANGED table, \A i \in live' \ trees : Whole(Blocks', idx'[i], Used', KeyedNow(i, Used'))
    PROVE  AllWhole(idx, live, Used)'
BY DEF AllWhole, Keyed, KeyedNow, trees

LEMMA WholeNow ==
    ASSUME NEW i, NEW x, NEW U, NEW key, Whole(Blocks, x, U, key), Blocks' = Blocks,
           \A q \in U : row'[q][i] = key[q]
    PROVE  Whole(Blocks', x, U, KeyedNow(i, U))
<1>1. \A q \in U : KeyedNow(i, U)[q] = key[q]
  BY DEF KeyedNow
<1> QED
  BY <1>1, WholeKey

\* Indexes whose rows stay, or lose row r.
LEMMA WholeKept ==
    ASSUME UNCHANGED table, Blocks' = Blocks, AllWhole(idx', live', Used'),
           \A q \in Used' : row'[q] = row[q]
    PROVE  AllWhole(idx, live, Used)'
<1>1. ASSUME NEW i \in live' \ trees PROVE Whole(Blocks', idx'[i], Used', KeyedNow(i, Used'))
  <2> DEFINE U == Used'
             x == idx'[i]
             key == Keyed(i, U)
  <2>1. Whole(Blocks, x, U, key)
    BY DEF AllWhole
  <2>2. \A q \in U : row'[q][i] = key[q]
    BY DEF Keyed
  <2> HIDE DEF U, x, key
  <2>3. Whole(Blocks', x, U, KeyedNow(i, U))
    BY <2>1, <2>2, WholeNow
  <2> QED
    BY <2>3 DEF U, x
<1> QED
  BY <1>1, AllWholeNow

LEMMA InsertIntoWhole ==
    ASSUME IndexTypes, FirstUnique, NEW ix, NEW r, NEW rec \in table.put[r], NEW V, NEW rowNow, NEW ownNow,
           InsertInto(ix, r, rec, V, rowNow, ownNow), NEW U,
           RowsInserted(Refusing(ix, r, rec, V), U, r, rec, ownNow),
           AllWhole(ix, live, U), UNCHANGED <<table, live>>
    PROVE  AllWhole(idx, live, Used)'
<1> DEFINE f == Refusing(ix, r, rec, V)
           y == AddRefused(ix, live, r, rec, f)
<1>1. idx' = y
  BY DEF InsertInto, InsertUnless
<1>2. /\ r \in Blocks \ U /\ Blocks' = Blocks /\ U \in SUBSET Used
      /\ Used' = IF f = {} THEN U \union {r} ELSE U
      /\ \A q \in U : row'[q] = row[q]
      /\ f = {} => row'[r] = rec
  BY DEF RowsInserted
<1>3. /\ IsFiniteSet(Blocks) /\ live \subseteq Nat /\ live \subseteq Indexes
      /\ \A j \in live : Hash[rec[j]] \in Nat
  BY <1>2, TypeFacts DEF Written
<1>4. \A g \in f : g \in live /\ \A j \in live : g <= j
  BY TypeFacts, RefusingIs
<1>5. ASSUME NEW i \in live \ trees PROVE Whole(Blocks', y[i], Used', KeyedNow(i, Used'))
  <2> DEFINE z == y[i]
  <2>1. IF f = {} THEN Whole(Blocks, z, U \union {r}, With(Keyed(i, U), U, r, rec[i]))
                  ELSE Whole(Blocks, z, U, Keyed(i, U))
    <3>1. live \in SUBSET live /\ i \in Indexes
      BY <1>3
    <3> HIDE DEF f
    <3> QED
      BY <1>2, <1>3, <1>4, <3>1, AddRowIs
  <2> HIDE DEF z, y, f
  <2>2. CASE f = {}
    <3> DEFINE W == U \union {r}
               key == With(Keyed(i, U), U, r, rec[i])
    <3>1. \A q \in W : row'[q][i] = key[q]
      BY <1>2, <2>2 DEF With, Keyed
    <3> HIDE DEF W, key
    <3>2. Whole(Blocks, z, W, key)
      BY <2>1, <2>2 DEF W, key
    <3>3. Whole(Blocks', z, W, KeyedNow(i, W))
      BY <1>2, <3>1, <3>2, WholeNow
    <3> QED
      BY <1>2, <2>2, <3>3 DEF W, z
  <2>3. CASE f # {}
    <3> DEFINE key == Keyed(i, U)
    <3>1. \A q \in U : row'[q][i] = key[q]
      BY <1>2 DEF Keyed
    <3> HIDE DEF key
    <3>2. Whole(Blocks, z, U, key)
      BY <2>1, <2>3 DEF key
    <3>3. Whole(Blocks', z, U, KeyedNow(i, U))
      BY <1>2, <3>1, <3>2, WholeNow
    <3> QED
      BY <1>2, <2>3, <3>3 DEF z
  <2> QED
    BY <2>2, <2>3
<1> HIDE DEF y, f
<1>6. \A i \in live' \ trees : Whole(Blocks', idx'[i], Used', KeyedNow(i, Used'))
  BY <1>1, <1>5
<1> QED
  BY <1>6, AllWholeNow

\* What a transaction does to the row of its own version, in place.
LEMMA InPlaceWhole ==
    ASSUME IndexTypes, AllWhole(idx, live, Used),
           NEW r \in Rows, NEW rec \in Records, NEW A \in SUBSET live, UpdateInPlace(r, A, rec)
    PROVE  AllWhole(idx, live, Used)'
<1>1. /\ r \in Used /\ rec \in table.put[r] /\ row' = [row EXCEPT ![r] = rec] /\ uniq = {}
      /\ \A i \in live \ A : rec[i] = row[r][i]
      /\ idx' = AddRow(RemRow(idx, A, r), A, r, rec, {})
      /\ UNCHANGED <<table, live>>
  BY DEF UpdateInPlace, IndexTypes
<1> DEFINE ix == RemRow(idx, A, r)
           U == Used \ {r}
<1>2. /\ IsFiniteSet(Blocks) /\ live \subseteq Nat /\ live \subseteq Indexes /\ r \in Blocks \ U
      /\ \A j \in live : Hash[rec[j]] \in Nat
      /\ rec # Free /\ U \in SUBSET Used
  BY <1>1, TypeFacts DEF Written
<1>3. AllWhole(ix, A, U)
  <2>1. A \in SUBSET Indexes /\ AllWhole(idx, A, Used)
    BY <1>2 DEF AllWhole
  <2> QED
    BY <1>1, <1>2, <2>1, RemRowIs
<1>4. /\ Blocks' = Blocks /\ Used' = Used /\ row'[r] = rec
      /\ \A q \in Blocks : q # r => row'[q] = row[q]
  <2>1. row'[r] = rec /\ Blocks' = Blocks /\ \A q \in Blocks : q # r => row'[q] = row[q]
    BY <1>1, <1>2 DEF Blocks
  <2>2. Used' = Used
    BY <1>1, <1>2, <2>1 DEF Used, Blocks
  <2> QED
    BY <2>1, <2>2
<1> DEFINE y == AddRefused(ix, A, r, rec, {})
<1>5. idx' = y
  <2>1. Refusing(ix, r, rec, {}) = {}
    <3>1. ASSUME NEW j, NEW x, NEW k, Refuses(x, j, k, {}) PROVE FALSE
      BY <3>1 DEF Refuses
    <3> QED
      BY <3>1 DEF Refusing
  <2> QED
    BY <1>1, <2>1 DEF AddRow
<1> HIDE DEF ix
<1>6. ASSUME NEW i \in live \ trees PROVE Whole(Blocks', idx'[i], Used', KeyedNow(i, Used'))
  <2>1. CASE i \in A
    <3> DEFINE z == y[i]
               W == U \union {r}
               key == With(Keyed(i, U), U, r, rec[i])
    <3>1. Whole(Blocks, z, W, key)
      <4>1. i \in A \ trees /\ i \in Indexes /\ \A j \in A : Hash[rec[j]] \in Nat
        BY <1>2, <2>1
      <4> HIDE DEF U
      <4> QED
        BY <1>2, <1>3, <4>1, AddRowIs
    <3>2. \A q \in W : row'[q][i] = key[q]
      BY <1>2, <1>4 DEF With, Keyed, Used, Blocks
    <3>3. W = Used'
      BY <1>1, <1>4
    <3> HIDE DEF z, W, key, y
    <3>4. Whole(Blocks', z, W, KeyedNow(i, W))
      BY <1>4, <3>1, <3>2, WholeNow
    <3> QED
      BY <1>5, <3>3, <3>4 DEF z
  <2>2. CASE i \notin A
    <3>1. y[i] = idx[i]
      BY <1>2, <2>2 DEF ix, AddRefused, RemRow
    <3> DEFINE z == idx[i]
               key == Keyed(i, Used)
    <3>2. Whole(Blocks, z, Used, key)
      BY DEF AllWhole
    <3>3. \A q \in Used : row'[q][i] = key[q]
      BY <1>1, <1>2, <1>4, <2>2 DEF Keyed, Used, Blocks
    <3> HIDE DEF z, key, y
    <3>4. Whole(Blocks', z, Used, KeyedNow(i, Used))
      BY <1>4, <3>2, <3>3, WholeNow
    <3> QED
      BY <1>4, <1>5, <3>1, <3>4 DEF z
  <2> QED
    BY <2>1, <2>2
<1> QED
  BY <1>1, <1>6, AllWholeNow

LEMMA WholeNext ==
    ASSUME IndexTypes, FirstUnique, AllWhole(idx, live, Used), [Next]_vars
    PROVE  AllWhole(idx, live, Used)'
<1>f. /\ Blocks = DOMAIN table.put /\ Blocks \subseteq Rows /\ Blocks \subseteq Nat \ {0} /\ IsFiniteSet(Blocks)
      /\ Indexes \subseteq Nat /\ live \subseteq Indexes /\ table.ddl \subseteq Indexes
  BY TypeFacts
<1>r. \A r \in Used : AllWhole(RemRow(idx, live, r), live, Used \ {r})
  <2>1. live \in SUBSET Indexes
    BY <1>f
  <2> QED
    BY <1>f, <2>1, RemRowIs
<1>a. ASSUME NEW r \in Used, row' = [row EXCEPT ![r] = Free], idx' = RemRow(idx, live, r), UNCHANGED <<table, live>>
      PROVE  AllWhole(idx, live, Used)'
  <2>1. Blocks' = Blocks /\ Used' = Used \ {r} /\ \A q \in Used' : row'[q] = row[q]
    BY <1>a, FreedRows
  <2>2. AllWhole(idx', live', Used')
    BY <1>a, <1>r, <2>1
  <2> QED
    BY <1>a, <2>1, <2>2, WholeKept
<1>b. ASSUME UNCHANGED <<table, live, row, idx>> PROVE AllWhole(idx, live, Used)'
  <2>1. Blocks' = Blocks /\ Used' = Used
    BY <1>b, SameRows
  <2>2. AllWhole(idx', live', Used')
    BY <1>b, <2>1
  <2> QED
    BY <1>b, <2>1, <2>2, WholeKept
<1>1. ASSUME NEW r \in Rows, Delete(r) PROVE AllWhole(idx, live, Used)'
  <2>1. r \in Used /\ UNCHANGED <<table, live>>
    BY <1>1 DEF Delete, Valid
  <2>2. CASE idx' = RemRow(idx, live, r) /\ row' = [row EXCEPT ![r] = Free]
    BY <1>a, <2>1, <2>2
  <2>3. CASE UNCHANGED <<row, idx>>
    BY <1>b, <2>1, <2>3
  <2> QED
    BY <1>1, <2>2, <2>3 DEF Delete
<1>2. ASSUME NEW r \in Rows, CommitDel(r) \/ RollbackNew(r) PROVE AllWhole(idx, live, Used)'
  <2>1. /\ r \in Used /\ row' = [row EXCEPT ![r] = Free] /\ idx' = RemRow(idx, live, r)
        /\ UNCHANGED <<table, live>>
    BY <1>2 DEF CommitDel, RollbackNew, Least, IndexTypes
  <2> QED
    BY <1>a, <2>1
<1>3. ASSUME NEW r \in Rows, NEW rec \in table.put[r], NewBlock(r), NEW V, NEW mine,
             InsertInto(idx, r, rec, V, row, mine), UNCHANGED <<table, live>>
      PROVE  AllWhole(idx, live, Used)'
  <2> DEFINE U == {p \in Blocks : row[p] # Free}
             f == Refusing(idx, r, rec, V)
  <2>1. /\ row \in [DOMAIN table.put -> Records \union {Free}]
        /\ \A p \in Used : row[p] \in {row[p], Free}
        /\ \A p \in Blocks \ Used : row[p] = Free
        /\ U = Used
    BY DEF IndexTypes, Used, Blocks
  <2>2. RowsInserted(f, U, r, rec, mine)
    BY <1>3, <2>1, InsertIntoRows
  <2>3. AllWhole(idx, live, U)
    BY <2>1
  <2> HIDE DEF U
  <2> QED
    BY <1>3, <2>2, <2>3, InsertIntoWhole
<1>4. ASSUME NEW r \in Used, NEW q \in Rows, NEW rec \in table.put[q], NewBlock(q), NEW V, NEW mine,
             InsertInto(RemRow(idx, live, r), q, rec, V, [row EXCEPT ![r] = Free], mine), UNCHANGED <<table, live>>
      PROVE  AllWhole(idx, live, Used)'
  <2> DEFINE now == [row EXCEPT ![r] = Free]
             ix == RemRow(idx, live, r)
             U == {p \in Blocks : now[p] # Free}
             f == Refusing(ix, q, rec, V)
  <2>1. /\ now \in [DOMAIN table.put -> Records \union {Free}]
        /\ \A p \in Used : now[p] \in {row[p], Free}
        /\ \A p \in Blocks \ Used : now[p] = Free
        /\ U = Used \ {r}
    BY DEF IndexTypes, Used, Blocks
  <2>2. AllWhole(ix, live, U)
    BY <1>r, <2>1
  <2> HIDE DEF now, ix
  <2>3. InsertInto(ix, q, rec, V, now, mine)
    BY <1>4 DEF now, ix
  <2>4. RowsInserted(f, U, q, rec, mine)
    BY <1>4, <2>1, <2>3, InsertIntoRows
  <2> HIDE DEF U
  <2> QED
    BY <1>4, <2>2, <2>3, <2>4, InsertIntoWhole
<1>5. ASSUME NEW r \in Rows, NEW rec \in Records, Insert(r, rec) PROVE AllWhole(idx, live, Used)'
  <2> DEFINE V == Used \ gone
  <2>1. rec \in table.put[r] /\ NewBlock(r) /\ InsertInto(idx, r, rec, V, row, own) /\ UNCHANGED <<table, live>>
    BY <1>5 DEF Insert
  <2> HIDE DEF V
  <2> QED
    BY <1>3, <2>1
<1>6. ASSUME NEW r \in Rows, NEW q \in Rows, NEW rec \in Records, Update(r, q, rec)
      PROVE  AllWhole(idx, live, Used)'
  <2> DEFINE V == Used \ (gone \union {r})
             mine == own \ {r}
  <2>1. /\ r \in Used /\ rec \in table.put[q] /\ NewBlock(q) /\ UNCHANGED <<table, live>>
        /\ \/ InsertInto(RemRow(idx, live, r), q, rec, V, [row EXCEPT ![r] = Free], mine)
           \/ InsertInto(idx, q, rec, V, row, own)
    BY <1>6 DEF Update, Valid
  <2> HIDE DEF V, mine
  <2>2. CASE InsertInto(RemRow(idx, live, r), q, rec, V, [row EXCEPT ![r] = Free], mine)
    BY <1>4, <2>1, <2>2
  <2>3. CASE InsertInto(idx, q, rec, V, row, own)
    BY <1>3, <2>1, <2>3
  <2> QED
    BY <2>1, <2>2, <2>3
<1>7. ASSUME NEW r \in Rows, NEW rec \in Records, NEW A \in SUBSET live, UpdateInPlace(r, A, rec)
      PROVE  AllWhole(idx, live, Used)'
  BY <1>7, InPlaceWhole
<1>8. CASE StartCommit \/ StartRollback \/ Ended \/ UNCHANGED vars
  <2>1. UNCHANGED <<table, live, row, idx>>
    BY <1>8 DEF StartCommit, StartRollback, Ended, vars
  <2> QED
    BY <1>b, <2>1
<1>9. CASE CrashAndRepair
  <2> DEFINE kept == Used \ own
             cleared == [i \in Indexes |-> IF i \in live THEN Cleared(i, idx[i]) ELSE idx[i]]
  <2>1. /\ row' = [r \in DOMAIN row |-> IF r \in kept THEN row[r] ELSE Free]
        /\ UNCHANGED <<table, live>>
    BY <1>9 DEF CrashAndRepair
  <2>2. idx' = Refill(kept, cleared)
    BY <1>9, Zenon DEF CrashAndRepair, Refill, Refilled
  <2>3. Blocks' = Blocks /\ Used' = kept /\ \A q \in kept : row'[q] = row[q]
    BY <2>1 DEF Blocks, Used
  <2>4. AllWhole(cleared, live, {})
    <3>1. ASSUME NEW i \in live \ trees PROVE Whole(Blocks, cleared[i], {}, Keyed(i, {}))
      <4>1. cleared[i] = Cleared(i, idx[i])
        BY <1>f
      <4>2. Whole(Blocks, idx[i], Used, Keyed(i, Used))
        BY DEF AllWhole
      <4> HIDE DEF cleared
      <4> QED
        BY <4>1, <4>2, ClearedIs
    <3> QED
      BY <3>1 DEF AllWhole
  <2>5. kept \in SUBSET Used /\ \A q \in kept : \A j \in live : Hash[row[q][j]] \in Nat
    BY TypeFacts DEF Written
  <2> HIDE DEF kept, cleared
  <2>6. AllWhole(Refill(kept, cleared), live, kept)
    BY <1>f, <2>4, <2>5, RefillIs
  <2>7. AllWhole(idx', live', Used')
    BY <2>1, <2>2, <2>3, <2>6
  <2> QED
    BY <2>1, <2>3, <2>7, WholeKept
<1>10. ASSUME NEW i \in Indexes, CreateIndex(i) PROVE AllWhole(idx, live, Used)'
  <2>1. /\ i \in table.ddl \ live /\ live' = live \union {i} /\ UNCHANGED <<table, row>>
    BY <1>10 DEF CreateIndex
  <2>2. idx' = [idx EXCEPT ![i] = Fill(i, NewIndex(i))]
    BY <1>10, Zenon DEF CreateIndex, Fill, Filled
  <2>3. Blocks' = Blocks /\ Used' = Used
    BY <2>1, SameRows
  <2>4. \A j \in live : idx'[j] = idx[j]
    BY <2>1, <2>2
  <2>5. i \notin trees => Whole(Blocks, idx'[i], Used, Keyed(i, Used))
    <3> SUFFICES ASSUME i \notin trees PROVE Whole(Blocks, idx'[i], Used, Keyed(i, Used))
      OBVIOUS
    <3>1. Whole(Blocks, NewHash, {}, Keyed(i, {}))
      BY <1>f, NewHashIs
    <3>2. \A q \in Used : Hash[row[q][i]] \in Nat
      BY <2>1, TypeFacts DEF Written
    <3>3. Whole(Blocks, Fill(i, NewHash), Used, Keyed(i, Used))
      BY <1>f, <3>1, <3>2, FillIs
    <3>4. idx'[i] = Fill(i, NewHash)
      BY <2>2 DEF NewIndex, IndexTypes
    <3> QED
      BY <3>3, <3>4
  <2>6. AllWhole(idx', live', Used')
    BY <2>1, <2>3, <2>4, <2>5 DEF AllWhole
  <2> QED
    BY <2>1, <2>3, <2>6, WholeKept
<1>11. ASSUME NEW i \in Indexes, DropIndex(i) PROVE AllWhole(idx, live, Used)'
  <2>1. /\ live' = live \ {i} /\ UNCHANGED <<table, row>> /\ idx' = [idx EXCEPT ![i] = NewIndex(i)]
    BY <1>11 DEF DropIndex
  <2>2. Blocks' = Blocks /\ Used' = Used
    BY <2>1, SameRows
  <2>3. \A j \in live' : j \in live /\ idx'[j] = idx[j]
    BY <2>1
  <2>4. AllWhole(idx', live', Used')
    BY <2>2, <2>3 DEF AllWhole
  <2> QED
    BY <2>1, <2>2, <2>4, WholeKept
<1> QED
  BY <1>1, <1>2, <1>5, <1>6, <1>7, <1>8, <1>9, <1>10, <1>11 DEF Next

-------------------------------------------------------------------------------
(* Unique keys.                                                             *)

\* What UniqueKeys asks of two rows of a unique hash index that have one key.
Parted(q, r, deleted, new, w) ==
    (q \in deleted \/ r \in deleted) /\ (q \in new \/ r \in new \/ w = "commit")

LEMMA UniqueIs ==
    UniqueKeys <=> \A i \in (uniq \cap live) \ trees : \A q, r \in Used :
                       q # r /\ row[q][i] = row[r][i] => Parted(q, r, gone, own, walk)
BY DEF UniqueKeys, Parted, Valid

LEMMA UniqueNow ==
    ASSUME UNCHANGED table,
           \A i \in (uniq \cap live') \ trees : \A q, r \in Used' :
               q # r /\ row'[q][i] = row'[r][i] => Parted(q, r, gone', own', walk')
    PROVE  UniqueKeys'
BY DEF UniqueKeys, Parted, Valid, uniq, trees

LEMMA InsertIntoUnique ==
    ASSUME IndexTypes, NEW ix, NEW r, NEW rec \in table.put[r], NEW V, NEW ownNow, NEW U,
           RowsInserted(Refusing(ix, r, rec, V), U, r, rec, ownNow),
           AllWhole(ix, live, U), UNCHANGED <<table, live>>,
           \A i \in (uniq \cap live) \ trees : \A p, q \in U :
               p # q /\ row[p][i] = row[q][i] => Parted(p, q, gone', ownNow, walk'),
           \A q \in U : q \notin V => q \in gone'
    PROVE  UniqueKeys'
<1> DEFINE f == Refusing(ix, r, rec, V)
<1>1. /\ r \in Blocks \ U /\ U \in SUBSET Used
      /\ Used' = IF f = {} THEN U \union {r} ELSE U
      /\ \A q \in U : row'[q] = row[q]
      /\ f = {} => row'[r] = rec
      /\ own' = IF f = {} THEN ownNow \union {r} ELSE ownNow
  BY DEF RowsInserted
<1>2. IsFiniteSet(Blocks) /\ live \subseteq Nat /\ \A j \in live : Hash[rec[j]] \in Nat
  BY <1>1, TypeFacts DEF Written
<1>3. ASSUME f = {}, NEW i \in (uniq \cap live) \ trees, NEW q \in U, row[q][i] = rec[i] PROVE q \in gone'
  <2>1. \A p \in U \cap V : row[p][i] # rec[i]
    <3>1. Hash[rec[i]] \in Nat /\ U \in SUBSET Used /\ Refusing(ix, r, rec, V) = {}
      BY <1>1, <1>2, <1>3
    <3> HIDE DEF f
    <3> QED
      BY <1>2, <3>1, AddedIsNew
  <2> QED
    BY <1>3, <2>1
<1> HIDE DEF f
<1>4. ASSUME NEW i \in (uniq \cap live) \ trees, NEW p \in Used', NEW q \in Used',
             p # q, row'[p][i] = row'[q][i]
      PROVE  Parted(p, q, gone', own', walk')
  <2>1. CASE p \in U /\ q \in U
    <3>1. Parted(p, q, gone', ownNow, walk')
      BY <1>1, <1>4, <2>1
    <3>2. ownNow \subseteq own'
      BY <1>1
    <3> QED
      BY <3>1, <3>2 DEF Parted
  <2>2. CASE p \in U /\ q \notin U
    <3>1. f = {} /\ q = r
      BY <1>1, <1>4, <2>2
    <3>2. row[p][i] = rec[i] /\ r \in own'
      BY <1>1, <1>4, <2>2, <3>1
    <3> QED
      BY <1>3, <2>2, <3>1, <3>2 DEF Parted
  <2>3. CASE p \notin U /\ q \in U
    <3>1. f = {} /\ p = r
      BY <1>1, <1>4, <2>3
    <3>2. row[q][i] = rec[i] /\ r \in own'
      BY <1>1, <1>4, <2>3, <3>1
    <3> QED
      BY <1>3, <2>3, <3>1, <3>2 DEF Parted
  <2>4. CASE p \notin U /\ q \notin U
    BY <1>1, <1>4, <2>4
  <2> QED
    BY <2>1, <2>2, <2>3, <2>4
<1>5. live' = live
  OBVIOUS
<1> QED
  BY <1>4, <1>5, UniqueNow

LEMMA UniqueNext ==
    ASSUME IndexTypes, FirstUnique, AllWhole(idx, live, Used), UniqueKeys, [Next]_vars
    PROVE  UniqueKeys'
<1>u. ASSUME NEW i \in (uniq \cap live) \ trees, NEW q \in Used, NEW r \in Used, q # r, row[q][i] = row[r][i]
      PROVE  Parted(q, r, gone, own, walk)
  BY <1>u, UniqueIs
<1>f. IsFiniteSet(Blocks) /\ live \in SUBSET Indexes
  BY TypeFacts
<1>r. \A r \in Used : AllWhole(RemRow(idx, live, r), live, Used \ {r})
  BY <1>f, RemRowIs
<1>k. ASSUME UNCHANGED table, live' \subseteq live, Used' \subseteq Used, \A q \in Used' : row'[q] = row[q],
             \A p, q \in Used' : Parted(p, q, gone, own, walk) => Parted(p, q, gone', own', walk')
      PROVE  UniqueKeys'
  <2>1. ASSUME NEW i \in (uniq \cap live') \ trees, NEW q \in Used', NEW r \in Used',
               q # r, row'[q][i] = row'[r][i]
        PROVE  Parted(q, r, gone', own', walk')
    <3>1. i \in (uniq \cap live) \ trees /\ q \in Used /\ r \in Used /\ row[q][i] = row[r][i]
      BY <1>k, <2>1
    <3> QED
      BY <1>k, <1>u, <2>1, <3>1
  <2> QED
    BY <1>k, <2>1, UniqueNow
<1>1. ASSUME NEW r \in Rows, Delete(r) PROVE UniqueKeys'
  <2>1. r \in Used /\ UNCHANGED <<table, live, walk>>
    BY <1>1 DEF Delete, Valid
  <2>2. CASE row' = [row EXCEPT ![r] = Free] /\ own' = own \ {r} /\ gone' = gone
    <3>1. Used' = Used \ {r} /\ \A q \in Used' : row'[q] = row[q]
      BY <2>1, <2>2, FreedRows
    <3>2. \A p, q \in Used' : Parted(p, q, gone, own, walk) => Parted(p, q, gone', own', walk')
      BY <2>1, <2>2, <3>1 DEF Parted
    <3> QED
      BY <1>k, <2>1, <3>1, <3>2
  <2>3. CASE gone' = gone \union {r} /\ UNCHANGED <<row, own>>
    <3>1. Used' = Used
      BY <2>1, <2>3, SameRows
    <3>2. \A p, q \in Used' : Parted(p, q, gone, own, walk) => Parted(p, q, gone', own', walk')
      BY <2>1, <2>3 DEF Parted
    <3> QED
      BY <1>k, <2>1, <2>3, <3>1, <3>2
  <2> QED
    BY <1>1, <2>2, <2>3 DEF Delete
<1>2. ASSUME NEW r \in Rows, CommitDel(r) PROVE UniqueKeys'
  <2>1. /\ r \in Used /\ row' = [row EXCEPT ![r] = Free] /\ gone' = gone \ {r}
        /\ UNCHANGED <<table, live, own, walk>>
    BY <1>2 DEF CommitDel, Least, IndexTypes
  <2>2. Used' = Used \ {r} /\ \A q \in Used' : row'[q] = row[q]
    BY <2>1, FreedRows
  <2>3. \A p, q \in Used' : Parted(p, q, gone, own, walk) => Parted(p, q, gone', own', walk')
    BY <2>1, <2>2 DEF Parted
  <2> QED
    BY <1>k, <2>1, <2>2, <2>3
<1>3. ASSUME NEW r \in Rows, RollbackNew(r) PROVE UniqueKeys'
  <2>1. /\ r \in Used /\ row' = [row EXCEPT ![r] = Free] /\ own' = own \ {r}
        /\ UNCHANGED <<table, live, gone, walk>>
    BY <1>3 DEF RollbackNew, Least, IndexTypes
  <2>2. Used' = Used \ {r} /\ \A q \in Used' : row'[q] = row[q]
    BY <2>1, FreedRows
  <2>3. \A p, q \in Used' : Parted(p, q, gone, own, walk) => Parted(p, q, gone', own', walk')
    BY <2>1, <2>2 DEF Parted
  <2> QED
    BY <1>k, <2>1, <2>2, <2>3
<1>4. ASSUME NEW r \in Rows, NEW rec \in Records, Insert(r, rec) PROVE UniqueKeys'
  <2> DEFINE V == Used \ gone
             U == {p \in Blocks : row[p] # Free}
             f == Refusing(idx, r, rec, V)
  <2>1. /\ rec \in table.put[r] /\ NewBlock(r) /\ InsertInto(idx, r, rec, V, row, own)
        /\ UNCHANGED <<table, live, gone, walk>> /\ walk = "none"
    BY <1>4 DEF Insert, MayChange
  <2>2. /\ row \in [DOMAIN table.put -> Records \union {Free}]
        /\ \A p \in Used : row[p] \in {row[p], Free}
        /\ \A p \in Blocks \ Used : row[p] = Free
        /\ U = Used
    BY DEF IndexTypes, Used, Blocks
  <2>3. \A q \in U : q \notin V => q \in gone'
    BY <2>1, <2>2
  <2> HIDE DEF V
  <2>4. RowsInserted(f, U, r, rec, own)
    BY <2>1, <2>2, InsertIntoRows
  <2> HIDE DEF U
  <2>5. AllWhole(idx, live, U)
    BY <2>2
  <2>6. \A i \in (uniq \cap live) \ trees : \A p, q \in U :
            p # q /\ row[p][i] = row[q][i] => Parted(p, q, gone', own, walk')
    BY <1>u, <2>1, <2>2
  <2> QED
    BY <2>1, <2>3, <2>4, <2>5, <2>6, InsertIntoUnique
<1>5. ASSUME NEW r \in Rows, NEW q \in Rows, NEW rec \in Records, Update(r, q, rec) PROVE UniqueKeys'
  <2> DEFINE V == Used \ (gone \union {r})
  <2>1. /\ r \in Used /\ rec \in table.put[q] /\ NewBlock(q)
        /\ UNCHANGED <<table, live, walk>> /\ walk = "none"
        /\ \/ /\ InsertInto(RemRow(idx, live, r), q, rec, V, [row EXCEPT ![r] = Free], own \ {r})
              /\ UNCHANGED gone
           \/ /\ InsertInto(idx, q, rec, V, row, own)
              /\ gone' = gone \union {r}
    BY <1>5 DEF Update, Valid, MayChange
  <2>2. CASE /\ InsertInto(RemRow(idx, live, r), q, rec, V, [row EXCEPT ![r] = Free], own \ {r})
             /\ UNCHANGED gone
    <3> DEFINE now == [row EXCEPT ![r] = Free]
               ix == RemRow(idx, live, r)
               mine == own \ {r}
               U == {p \in Blocks : now[p] # Free}
               f == Refusing(ix, q, rec, V)
    <3>1. /\ now \in [DOMAIN table.put -> Records \union {Free}]
          /\ \A p \in Used : now[p] \in {row[p], Free}
          /\ \A p \in Blocks \ Used : now[p] = Free
          /\ U = Used \ {r}
      BY <2>1 DEF IndexTypes, Used, Blocks
    <3>2. AllWhole(ix, live, U)
      BY <1>r, <2>1, <3>1
    <3>3. \A p \in U : p \notin V => p \in gone'
      BY <2>1, <2>2, <3>1
    <3>4. \A i \in (uniq \cap live) \ trees : \A p, s \in U :
              p # s /\ row[p][i] = row[s][i] => Parted(p, s, gone', mine, walk')
      <4> TAKE i \in (uniq \cap live) \ trees
      <4> TAKE p, s \in U
      <4> HAVE p # s /\ row[p][i] = row[s][i]
      <4>1. p \in Used /\ s \in Used /\ p # r /\ s # r
        BY <3>1
      <4>2. Parted(p, s, gone, own, walk)
        BY <1>u, <4>1
      <4> QED
        BY <2>1, <2>2, <4>1, <4>2 DEF Parted
    <3> HIDE DEF V, now, ix, mine
    <3>5. InsertInto(ix, q, rec, V, now, mine)
      BY <2>2 DEF now, ix, mine
    <3>6. RowsInserted(f, U, q, rec, mine)
      BY <2>1, <3>1, <3>5, InsertIntoRows
    <3> HIDE DEF U
    <3> QED
      BY <2>1, <3>2, <3>3, <3>4, <3>6, InsertIntoUnique
  <2>3. CASE /\ InsertInto(idx, q, rec, V, row, own)
             /\ gone' = gone \union {r}
    <3> DEFINE U == {p \in Blocks : row[p] # Free}
               f == Refusing(idx, q, rec, V)
    <3>1. /\ row \in [DOMAIN table.put -> Records \union {Free}]
          /\ \A p \in Used : row[p] \in {row[p], Free}
          /\ \A p \in Blocks \ Used : row[p] = Free
          /\ U = Used
      BY DEF IndexTypes, Used, Blocks
    <3>2. AllWhole(idx, live, U)
      BY <3>1
    <3>3. \A p \in U : p \notin V => p \in gone'
      BY <2>1, <2>3, <3>1
    <3>4. \A i \in (uniq \cap live) \ trees : \A p, s \in U :
              p # s /\ row[p][i] = row[s][i] => Parted(p, s, gone', own, walk')
      <4> TAKE i \in (uniq \cap live) \ trees
      <4> TAKE p, s \in U
      <4> HAVE p # s /\ row[p][i] = row[s][i]
      <4>1. Parted(p, s, gone, own, walk)
        BY <1>u, <3>1
      <4> QED
        BY <2>1, <2>3, <4>1 DEF Parted
    <3> HIDE DEF V
    <3>5. RowsInserted(f, U, q, rec, own)
      BY <2>1, <2>3, <3>1, InsertIntoRows
    <3> HIDE DEF U
    <3> QED
      BY <2>1, <3>2, <3>3, <3>4, <3>5, InsertIntoUnique
  <2> QED
    BY <2>1, <2>2, <2>3
<1>6. ASSUME NEW r \in Rows, NEW rec \in Records, NEW A \in SUBSET live, UpdateInPlace(r, A, rec)
      PROVE  UniqueKeys'
  BY <1>6, UniqueNow DEF UpdateInPlace
<1>7. CASE StartCommit
  <2>1. Used' = Used /\ UNCHANGED <<table, live, row>>
    BY <1>7, SameRows DEF StartCommit
  <2>2. \A p, q \in Used' : Parted(p, q, gone, own, walk) => Parted(p, q, gone', own', walk')
    BY <1>7 DEF StartCommit, Parted
  <2> QED
    BY <1>k, <2>1, <2>2
<1>8. CASE StartRollback \/ UNCHANGED vars
  <2>1. Used' = Used /\ UNCHANGED <<table, live, row>>
    BY <1>8, SameRows DEF StartRollback, vars
  <2>2. \A p, q \in Used' : Parted(p, q, gone, own, walk) => Parted(p, q, gone', own', walk')
    BY <1>8 DEF StartRollback, Parted, vars
  <2> QED
    BY <1>k, <2>1, <2>2
<1>9. CASE Ended
  <2>1. Used' = Used /\ UNCHANGED <<table, live, row>>
    BY <1>9, SameRows DEF Ended
  <2>2. \A p, q \in Used' : ~Parted(p, q, gone, own, walk)
    BY <1>9 DEF Ended, Parted
  <2> QED
    BY <1>k, <2>1, <2>2
<1>10. CASE CrashAndRepair
  <2>1. /\ row' = [r \in DOMAIN row |-> IF r \in Used \ own THEN row[r] ELSE Free]
        /\ walk # "commit" /\ UNCHANGED <<table, live>>
    BY <1>10 DEF CrashAndRepair
  <2>2. Used' = Used \ own /\ \A q \in Used' : row'[q] = row[q]
    BY <2>1 DEF Used
  <2>3. \A p, q \in Used' : ~Parted(p, q, gone, own, walk)
    BY <2>1, <2>2 DEF Parted
  <2> QED
    BY <1>k, <2>1, <2>2, <2>3
<1>11. ASSUME NEW i \in Indexes, CreateIndex(i) PROVE UniqueKeys'
  <2>1. /\ i \in uniq => \A q, r \in Used : row[q][i] = row[r][i] => q = r
        /\ live' = live \union {i} /\ UNCHANGED <<table, row, own, gone, walk>>
    BY <1>11 DEF CreateIndex
  <2>2. Used' = Used
    BY <2>1, SameRows
  <2>3. ASSUME NEW j \in (uniq \cap live') \ trees, NEW q \in Used', NEW r \in Used',
               q # r, row'[q][j] = row'[r][j]
        PROVE  Parted(q, r, gone', own', walk')
    <3>1. j # i
      BY <2>1, <2>2, <2>3
    <3> QED
      BY <1>u, <2>1, <2>2, <2>3, <3>1
  <2> QED
    BY <2>1, <2>3, UniqueNow
<1>12. ASSUME NEW i \in Indexes, DropIndex(i) PROVE UniqueKeys'
  <2>1. live' \subseteq live /\ UNCHANGED <<table, row, own, gone, walk>>
    BY <1>12 DEF DropIndex
  <2>2. Used' = Used
    BY <2>1, SameRows
  <2>3. \A p, q \in Used' : Parted(p, q, gone, own, walk) => Parted(p, q, gone', own', walk')
    BY <2>1
  <2> QED
    BY <1>k, <2>1, <2>2, <2>3
<1> QED
  BY <1>1, <1>2, <1>3, <1>4, <1>5, <1>6, <1>7, <1>8, <1>9, <1>10, <1>11, <1>12 DEF Next

-------------------------------------------------------------------------------
(* Theorems.                                                                *)

\* The inductive invariant.
IndexInv == IndexTypes /\ (FirstUnique => AllWhole(idx, live, Used) /\ UniqueKeys)

LEMMA IndexInit == Init => IndexInv
<1> SUFFICES ASSUME Init PROVE IndexInv
  OBVIOUS
<1>1. IndexTypes
  BY TypesInit
<1>2. Used = {}
  BY DEF Init, Used
<1>3. ASSUME NEW i \in live \ trees PROVE Whole(Blocks, idx[i], {}, Keyed(i, {}))
  <2>1. Whole(Blocks, NewHash, {}, Keyed(i, {}))
    BY <1>1, TypeFacts, NewHashIs
  <2>2. i \in Indexes
    BY <1>1, TypeFacts
  <2>3. idx[i] = NewHash
    BY <2>2 DEF Init, NewIndex
  <2> QED
    BY <2>1, <2>3
<1>4. AllWhole(idx, live, Used)
  BY <1>2, <1>3 DEF AllWhole
<1>5. UniqueKeys
  BY <1>2 DEF UniqueKeys
<1> QED
  BY <1>1, <1>4, <1>5 DEF IndexInv

LEMMA IndexNext == IndexInv /\ [Next]_vars => IndexInv'
<1> SUFFICES ASSUME IndexInv, [Next]_vars PROVE IndexInv'
  OBVIOUS
<1>1. IndexTypes /\ IndexTypes'
  BY TypesNext DEF IndexInv
<1>2. table' = table
  BY DEF Next, vars, Delete, CommitDel, RollbackNew, Insert, Update, UpdateInPlace, StartCommit, StartRollback,
         Ended, CrashAndRepair, CreateIndex, DropIndex
<1>3. FirstUnique' <=> FirstUnique
  BY <1>2 DEF FirstUnique, uniq
<1>4. ASSUME FirstUnique PROVE AllWhole(idx, live, Used)' /\ UniqueKeys'
  <2>1. AllWhole(idx, live, Used) /\ UniqueKeys
    BY <1>4 DEF IndexInv
  <2> QED
    BY <1>1, <1>4, <2>1, WholeNext, UniqueNext
<1> QED
  BY <1>1, <1>3, <1>4 DEF IndexInv

\* Any sequence of inserts, updates, deletes, commits, rollbacks, repairs and
\* changes of the set of indexes keeps the types and, in a table whose unique
\* index is the first, the hash indexes whole and their unique keys apart.
THEOREM IndexInvariant == Spec => []IndexInv
<1>1. Init => IndexInv
  BY IndexInit
<1>2. IndexInv /\ [Next]_vars => IndexInv'
  BY IndexNext
<1> QED
  BY <1>1, <1>2, PTL DEF Spec

\* A query of a hash index for a key that clients write (xdb_hash_query) visits
\* each row that has it exactly once and no other row, also in tables that have
\* trees beside it.
HashExact ==
    \A i \in live \ trees : \A k \in Keys(i) :
        LET q == Query(idx[i], i, k)
        IN  IsInjective(q) /\ ToSet(q) = {r \in Used : row[r][i] = k}

THEOREM IndexHashExact == Spec => [](FirstUnique => HashExact)
<1>1. IndexInv => (FirstUnique => HashExact)
  <2> SUFFICES ASSUME IndexInv, FirstUnique, NEW i \in live \ trees, NEW k \in Keys(i)
               PROVE  LET q == Query(idx[i], i, k)
                      IN  IsInjective(q) /\ ToSet(q) = {r \in Used : row[r][i] = k}
    BY DEF HashExact
  <2>1. IndexTypes /\ Whole(Blocks, idx[i], Used, Keyed(i, Used))
    BY DEF IndexInv, AllWhole
  <2>2. IsFiniteSet(Blocks)
    BY <2>1, TypeFacts
  <2>3. Hash[k] \in Nat
    <3>1. PICK r \in DOMAIN row : \E rec \in table.put[r] : k = rec[i]
      BY DEF Keys
    <3>2. \A rec \in table.put[r] : Written(r, rec)
      BY <2>1, <3>1, TypeFacts DEF Blocks
    <3> QED
      BY <2>1, <3>1, <3>2, TypeFacts DEF Written
  <2> DEFINE x == idx[i]
  <2> HIDE DEF x
  <2>4. Whole(Blocks, x, Used, Keyed(i, Used))
    BY <2>1 DEF x
  <2>5. IsInjective(Query(x, i, k)) /\ ToSet(Query(x, i, k)) = {r \in Used : row[r][i] = k}
    BY <2>2, <2>3, <2>4, QueryIs
  <2> QED
    BY <2>5 DEF x
<1> QED
  BY <1>1, IndexInvariant, PTL

\* The same as the invariant of the run, for tables of hash indexes.
THEOREM IndexQueriesExact == Spec => [](FirstUnique /\ trees = {} => IndexExact)
<1>1. (FirstUnique => HashExact) => (FirstUnique /\ trees = {} => IndexExact)
  <2> SUFFICES ASSUME HashExact, trees = {} PROVE IndexExact
    OBVIOUS
  <2>1. live \ trees = live
    OBVIOUS
  <2> QED
    BY <2>1 DEF HashExact, IndexExact
<1> QED
  BY <1>1, IndexHashExact, PTL

\* In tables of hash indexes, the links that xdb_hash_rem relies on are the
\* reverse of those that a query follows.
THEOREM IndexBackLinks == Spec => [](FirstUnique /\ trees = {} => BackLinks)
<1>1. IndexInv => (FirstUnique /\ trees = {} => BackLinks)
  <2> SUFFICES ASSUME IndexInv, FirstUnique, trees = {} PROVE BackLinks
    OBVIOUS
  <2>1. IndexTypes /\ IsFiniteSet(Blocks)
    BY TypeFacts DEF IndexInv
  <2>2. ASSUME NEW i \in live PROVE HashLinks(idx[i])
    <3>1. Whole(Blocks, idx[i], Used, Keyed(i, Used))
      BY <2>2 DEF IndexInv, AllWhole
    <3> QED
      BY <2>1, <3>1, LinksAre
  <2> QED
    BY <2>2 DEF BackLinks
<1> QED
  BY <1>1, IndexInvariant, PTL

\* In tables of hash indexes, the counters, one of which decides when to rehash,
\* agree with the chains.
THEOREM IndexCountsExact == Spec => [](FirstUnique /\ trees = {} => CountsExact)
<1>1. IndexInv => (FirstUnique /\ trees = {} => CountsExact)
  <2> SUFFICES ASSUME IndexInv, FirstUnique, trees = {} PROVE CountsExact
    OBVIOUS
  <2>1. IndexTypes /\ IsFiniteSet(Blocks)
    BY TypeFacts DEF IndexInv
  <2>2. ASSUME NEW i \in live
        PROVE  /\ idx[i].rows = Cardinality(Used)
               /\ idx[i].tops = Cardinality({row[r][i] : r \in Used})
               /\ idx[i].slots = Cardinality({s \in DOMAIN idx[i].slot : idx[i].slot[s] # 0})
    <3> DEFINE x == idx[i]
    <3>1. Whole(Blocks, x, Used, Keyed(i, Used))
      BY <2>2 DEF IndexInv, AllWhole
    <3> HIDE DEF x
    <3>2. /\ x.rows = Cardinality(Used)
          /\ x.tops = Cardinality({row[r][i] : r \in Used})
          /\ x.slots = Cardinality({s \in DOMAIN x.slot : x.slot[s] # 0})
      BY <2>1, <3>1, CountsAre
    <3> QED
      BY <3>2 DEF x
  <2> QED
    BY <2>2 DEF CountsExact
<1> QED
  BY <1>1, IndexInvariant, PTL

\* A unique hash index holds no two rows with one key that the transaction sees,
\* and no two committed ones, in any table whose unique index is the first.
THEOREM IndexUniqueKeys == Spec => [](FirstUnique => UniqueKeys)
<1>1. IndexInv => (FirstUnique => UniqueKeys)
  BY DEF IndexInv
<1> QED
  BY <1>1, IndexInvariant, PTL
===============================================================================
