--------------------------- MODULE XdbCatalogProofs ---------------------------
(***************************************************************************)
(* Proofs about the object manager and the catalog, for any number of      *)
(* databases, tables and indexes and every hash function.                  *)
(***************************************************************************)
EXTENDS XdbCatalog, FiniteSetTheorems, SequenceTheorems, WellFoundedInduction, TLAPS

\* A set of numbers has a least one.
LEMMA LeastNumber ==
    ASSUME NEW S, S \subseteq Nat, S # {}
    PROVE  \E m \in S : \A k \in S : m <= k
<1>1. PICK m \in S : \A k \in S : <<k, m>> \notin OpToRel(<, Nat)
  BY NatLessThanWellFounded, WFMin, Zenon
<1>2. ASSUME NEW k \in S PROVE ~(k < m)
  <2>1. k \in Nat /\ m \in Nat
    OBVIOUS
  <2> QED
    BY <1>1, <2>1 DEF OpToRel
<1>3. ASSUME NEW k \in S PROVE m <= k
  <2>1. k \in Nat /\ m \in Nat /\ ~(k < m)
    BY ONLY <1>2, S \subseteq Nat
  <2> QED
    BY ONLY <2>1
<1> QED
  BY ONLY <1>3

\* A set that has 0, and with a number below N the next one, has all up to N.
LEMMA UpTo ==
    ASSUME NEW N \in Nat, NEW B, 0 \in B, \A m \in 0 .. N - 1 : m \in B => m + 1 \in B
    PROVE  \A m \in 0 .. N : m \in B
<1> DEFINE Bad == {m \in 0 .. N : m \notin B}
<1>1. SUFFICES ASSUME Bad # {} PROVE FALSE
  OBVIOUS
<1>2. PICK m \in Bad : \A k \in Bad : m <= k
  <2>1. Bad \subseteq Nat
    OBVIOUS
  <2> HIDE DEF Bad
  <2> QED
    BY <1>1, <2>1, LeastNumber
<1>3. m \in 0 .. N /\ m \notin B /\ m # 0
  BY <1>2
<1>4. m - 1 \in 0 .. N - 1 /\ m - 1 \in 0 .. N /\ ~(m <= m - 1) /\ (m - 1) + 1 = m
  BY <1>3
<1>5. m - 1 \notin Bad
  BY <1>2, <1>4
<1> QED
  BY <1>3, <1>4, <1>5

-------------------------------------------------------------------------------
(* The loops: f[k] is the value after the k-th turn.                        *)

\* The k-th object of a chain, behind those in s.
Followed(om, slot, k, s) ==
    LET n == IF k = 1 THEN om.mem[slot]
             ELSE IF Len(s) < k - 1 THEN NoObj ELSE om.nxt[Last(s)]
    IN  IF n = NoObj THEN s ELSE Append(s, n)

ChainLoop(S, om, slot, f) == [k \in S |-> IF k = 0 THEN <<>> ELSE Followed(om, slot, k, f[k - 1])]

ChainSteps(N, om, slot) ==
    \E f : /\ f = CHOOSE g : g = ChainLoop(0 .. N, om, slot, g)
           /\ f[0] = <<>>
           /\ \A k \in 1 .. N : f[k] = Followed(om, slot, k, f[k - 1])

LEMMA ChainLoopSteps ==
    ASSUME NEW om, NEW slot, NEW N \in Nat
    PROVE  ChainSteps(N, om, slot)
<1> DEFINE B == {m \in 0 .. N : \E f : f = ChainLoop(0 .. m, om, slot, f)}
<1>1. 0 \in B
  <2>1. \A f : ChainLoop(0 .. 0, om, slot, f) = [k \in 0 .. 0 |-> <<>>]
    BY DEF ChainLoop
  <2> QED
    BY <2>1
<1>2. ASSUME NEW m \in 0 .. N - 1, m \in B PROVE m + 1 \in B
  <2>1. PICK v : v = ChainLoop(0 .. m, om, slot, v)
    BY <1>2
  <2> DEFINE e == Followed(om, slot, (m + 1), v[m])
             f == [k \in 0 .. m + 1 |-> IF k = m + 1 THEN e ELSE v[k]]
  <2>2. ASSUME NEW k \in 0 .. m + 1
        PROVE  f[k] = IF k = 0 THEN <<>> ELSE Followed(om, slot, k, f[k - 1])
    <3>1. CASE k = m + 1
      <4>1. f[k] = e /\ k # 0 /\ k - 1 = m /\ f[m] = v[m] /\ k = m + 1
        BY <3>1
      <4> HIDE DEF f
      <4> QED
        BY <4>1
    <3>2. CASE k # m + 1
      <4>1. k \in 0 .. m /\ f[k] = v[k] /\ (k # 0 => k - 1 \in 0 .. m /\ f[k - 1] = v[k - 1])
        BY <3>2
      <4>2. v[k] = IF k = 0 THEN <<>> ELSE Followed(om, slot, k, v[k - 1])
        BY <2>1, <4>1 DEF ChainLoop
      <4> HIDE DEF f
      <4> QED
        BY <4>1, <4>2
    <3> QED
      BY <3>1, <3>2
  <2>3. f = ChainLoop(0 .. m + 1, om, slot, f)
    <3>1. f = [k \in 0 .. m + 1 |-> f[k]]
      OBVIOUS
    <3> HIDE DEF f
    <3> QED
      BY <2>2, <3>1 DEF ChainLoop
  <2> QED
    BY <2>3
<1>3. N \in B
  <2> HIDE DEF B
  <2> QED
    BY <1>1, <1>2, UpTo
<1> DEFINE h == CHOOSE g : g = ChainLoop(0 .. N, om, slot, g)
<1>4. h = ChainLoop(0 .. N, om, slot, h)
  BY <1>3
<1> HIDE DEF h
<1>5. h[0] = <<>> /\ \A k \in 1 .. N : h[k] = Followed(om, slot, k, h[k - 1])
  BY <1>4 DEF ChainLoop
<1> QED
  BY <1>5 DEF h, ChainSteps

\* The objects in the first k places, those before the last of them in s.
Listing(om, k, s) == IF om.mem[k - 1] = NoObj THEN s ELSE Append(s, om.mem[k - 1])

ListLoop(S, om, f) == [k \in S |-> IF k = 0 THEN <<>> ELSE Listing(om, k, f[k - 1])]

ListSteps(N, om) ==
    \E f : /\ f = CHOOSE g : g = ListLoop(0 .. N, om, g)
           /\ f[0] = <<>>
           /\ \A k \in 1 .. N : f[k] = Listing(om, k, f[k - 1])

LEMMA ListLoopSteps ==
    ASSUME NEW om, NEW N \in Nat
    PROVE  ListSteps(N, om)
<1> DEFINE B == {m \in 0 .. N : \E f : f = ListLoop(0 .. m, om, f)}
<1>1. 0 \in B
  <2>1. \A f : ListLoop(0 .. 0, om, f) = [k \in 0 .. 0 |-> <<>>]
    BY DEF ListLoop
  <2> QED
    BY <2>1
<1>2. ASSUME NEW m \in 0 .. N - 1, m \in B PROVE m + 1 \in B
  <2>1. PICK v : v = ListLoop(0 .. m, om, v)
    BY <1>2
  <2> DEFINE e == Listing(om, (m + 1), v[m])
             f == [k \in 0 .. m + 1 |-> IF k = m + 1 THEN e ELSE v[k]]
  <2>2. ASSUME NEW k \in 0 .. m + 1
        PROVE  f[k] = IF k = 0 THEN <<>> ELSE Listing(om, k, f[k - 1])
    <3>1. CASE k = m + 1
      <4>1. f[k] = e /\ k # 0 /\ k - 1 = m /\ f[m] = v[m] /\ k = m + 1
        BY <3>1
      <4> HIDE DEF f
      <4> QED
        BY <4>1
    <3>2. CASE k # m + 1
      <4>1. k \in 0 .. m /\ f[k] = v[k] /\ (k # 0 => k - 1 \in 0 .. m /\ f[k - 1] = v[k - 1])
        BY <3>2
      <4>2. v[k] = IF k = 0 THEN <<>> ELSE Listing(om, k, v[k - 1])
        BY <2>1, <4>1 DEF ListLoop
      <4> HIDE DEF f
      <4> QED
        BY <4>1, <4>2
    <3> QED
      BY <3>1, <3>2
  <2>3. f = ListLoop(0 .. m + 1, om, f)
    <3>1. f = [k \in 0 .. m + 1 |-> f[k]]
      OBVIOUS
    <3> HIDE DEF f
    <3> QED
      BY <2>2, <3>1 DEF ListLoop
  <2> QED
    BY <2>3
<1>3. N \in B
  <2> HIDE DEF B
  <2> QED
    BY <1>1, <1>2, UpTo
<1> DEFINE h == CHOOSE g : g = ListLoop(0 .. N, om, g)
<1>4. h = ListLoop(0 .. N, om, h)
  BY <1>3
<1> HIDE DEF h
<1>5. h[0] = <<>> /\ \A k \in 1 .. N : h[k] = Listing(om, k, h[k - 1])
  BY <1>4 DEF ListLoop
<1> QED
  BY <1>5 DEF h, ListSteps

Doubling(xoid, c) == IF c > xoid THEN c ELSE 2 * c

CapLoop(S, cap, xoid, f) == [k \in S |-> IF k = 0 THEN cap ELSE Doubling(xoid, f[k - 1])]

CapSteps(N, cap, xoid) ==
    \E f : /\ f = CHOOSE g : g = CapLoop(0 .. N, cap, xoid, g)
           /\ f[0] = cap
           /\ \A k \in 1 .. N : f[k] = Doubling(xoid, f[k - 1])

LEMMA CapLoopSteps ==
    ASSUME NEW cap, NEW xoid, NEW N \in Nat
    PROVE  CapSteps(N, cap, xoid)
<1> DEFINE B == {m \in 0 .. N : \E f : f = CapLoop(0 .. m, cap, xoid, f)}
<1>1. 0 \in B
  <2>1. \A f : CapLoop(0 .. 0, cap, xoid, f) = [k \in 0 .. 0 |-> cap]
    BY DEF CapLoop
  <2> QED
    BY <2>1
<1>2. ASSUME NEW m \in 0 .. N - 1, m \in B PROVE m + 1 \in B
  <2>1. PICK v : v = CapLoop(0 .. m, cap, xoid, v)
    BY <1>2
  <2> DEFINE e == Doubling(xoid, v[m])
             f == [k \in 0 .. m + 1 |-> IF k = m + 1 THEN e ELSE v[k]]
  <2>2. ASSUME NEW k \in 0 .. m + 1
        PROVE  f[k] = IF k = 0 THEN cap ELSE Doubling(xoid, f[k - 1])
    <3>1. CASE k = m + 1
      <4>1. f[k] = e /\ k # 0 /\ k - 1 = m /\ f[m] = v[m] /\ k = m + 1
        BY <3>1
      <4> HIDE DEF f
      <4> QED
        BY <4>1
    <3>2. CASE k # m + 1
      <4>1. k \in 0 .. m /\ f[k] = v[k] /\ (k # 0 => k - 1 \in 0 .. m /\ f[k - 1] = v[k - 1])
        BY <3>2
      <4>2. v[k] = IF k = 0 THEN cap ELSE Doubling(xoid, v[k - 1])
        BY <2>1, <4>1 DEF CapLoop
      <4> HIDE DEF f
      <4> QED
        BY <4>1, <4>2
    <3> QED
      BY <3>1, <3>2
  <2>3. f = CapLoop(0 .. m + 1, cap, xoid, f)
    <3>1. f = [k \in 0 .. m + 1 |-> f[k]]
      OBVIOUS
    <3> HIDE DEF f
    <3> QED
      BY <2>2, <3>1 DEF CapLoop
  <2> QED
    BY <2>3
<1>3. N \in B
  <2> HIDE DEF B
  <2> QED
    BY <1>1, <1>2, UpTo
<1> DEFINE h == CHOOSE g : g = CapLoop(0 .. N, cap, xoid, g)
<1>4. h = CapLoop(0 .. N, cap, xoid, h)
  BY <1>3
<1> HIDE DEF h
<1>5. h[0] = cap /\ \A k \in 1 .. N : h[k] = Doubling(xoid, h[k - 1])
  BY <1>4 DEF CapLoop
<1> QED
  BY <1>5 DEF h, CapSteps

HashLoop(S, om, f) == [k \in S |-> IF k = 0 THEN om ELSE Rehash(f[k - 1], k - 1)]

HashSteps(N, om) ==
    \E f : /\ f = CHOOSE g : g = HashLoop(0 .. N, om, g)
           /\ f[0] = om
           /\ \A k \in 1 .. N : f[k] = Rehash(f[k - 1], k - 1)

LEMMA HashLoopSteps ==
    ASSUME NEW om, NEW N \in Nat
    PROVE  HashSteps(N, om)
<1> DEFINE B == {m \in 0 .. N : \E f : f = HashLoop(0 .. m, om, f)}
<1>1. 0 \in B
  <2>1. \A f : HashLoop(0 .. 0, om, f) = [k \in 0 .. 0 |-> om]
    BY DEF HashLoop
  <2> QED
    BY <2>1
<1>2. ASSUME NEW m \in 0 .. N - 1, m \in B PROVE m + 1 \in B
  <2>1. PICK v : v = HashLoop(0 .. m, om, v)
    BY <1>2
  <2> DEFINE e == Rehash(v[m], (m + 1) - 1)
             f == [k \in 0 .. m + 1 |-> IF k = m + 1 THEN e ELSE v[k]]
  <2>2. ASSUME NEW k \in 0 .. m + 1
        PROVE  f[k] = IF k = 0 THEN om ELSE Rehash(f[k - 1], k - 1)
    <3>1. CASE k = m + 1
      <4>1. f[k] = e /\ k # 0 /\ k - 1 = m /\ f[m] = v[m] /\ k = m + 1
        BY <3>1
      <4> HIDE DEF f
      <4> QED
        BY <4>1
    <3>2. CASE k # m + 1
      <4>1. k \in 0 .. m /\ f[k] = v[k] /\ (k # 0 => k - 1 \in 0 .. m /\ f[k - 1] = v[k - 1])
        BY <3>2
      <4>2. v[k] = IF k = 0 THEN om ELSE Rehash(v[k - 1], k - 1)
        BY <2>1, <4>1 DEF HashLoop
      <4> HIDE DEF f
      <4> QED
        BY <4>1, <4>2
    <3> QED
      BY <3>1, <3>2
  <2>3. f = HashLoop(0 .. m + 1, om, f)
    <3>1. f = [k \in 0 .. m + 1 |-> f[k]]
      OBVIOUS
    <3> HIDE DEF f
    <3> QED
      BY <2>2, <3>1 DEF HashLoop
  <2> QED
    BY <2>3
<1>3. N \in B
  <2> HIDE DEF B
  <2> QED
    BY <1>1, <1>2, UpTo
<1> DEFINE h == CHOOSE g : g = HashLoop(0 .. N, om, g)
<1>4. h = HashLoop(0 .. N, om, h)
  BY <1>3
<1> HIDE DEF h
<1>5. h[0] = om /\ \A k \in 1 .. N : h[k] = Rehash(h[k - 1], k - 1)
  BY <1>4 DEF HashLoop
<1> QED
  BY <1>5 DEF h, HashSteps

-------------------------------------------------------------------------------
(* Chains.                                                                  *)

\* Different numbers for different elements of a finite set.
LEMMA Fits ==
    ASSUME NEW T, IsFiniteSet(T), NEW n \in Nat, NEW f \in [1 .. n -> T],
           \A j, k \in 1 .. n : f[j] = f[k] => j = k
    PROVE  n <= Cardinality(T)
<1>1. IsFiniteSet(1 .. n) /\ Cardinality(1 .. n) = n
  <2>1. 1 \in Int /\ n \in Int
    OBVIOUS
  <2>2. IsFiniteSet(1 .. n) /\ Cardinality(1 .. n) = IF 1 > n THEN 0 ELSE n - 1 + 1
    BY ONLY <2>1, FS_Interval
  <2> QED
    BY <2>2
<1>2. Cardinality(T) \in Nat
  BY FS_CardinalityType
<1>3. SUFFICES ASSUME Cardinality(T) < n PROVE FALSE
  BY <1>2
<1>4. \E j, k \in 1 .. n : j # k /\ f[j] = f[k]
  BY <1>1, <1>3, FS_PigeonHole
<1> QED
  BY <1>4

\* c is the list that begins in place s.
Linked(om, s, c) ==
    /\ c \in Seq(Names)
    /\ \A j, k \in 1 .. Len(c) : c[j] = c[k] => j = k
    /\ om.mem[s] = IF Len(c) = 0 THEN NoObj ELSE c[1]
    /\ \A k \in 1 .. Len(c) : om.nxt[c[k]] = IF k = Len(c) THEN NoObj ELSE c[k + 1]

\* The walk over a chain finds that list.
LEMMA ChainIs ==
    ASSUME NEW om, NEW s, NEW c, Linked(om, s, c), IsFiniteSet(DOMAIN om.nxt),
           \A k \in 1 .. Len(c) : c[k] \in DOMAIN om.nxt
    PROVE  Chain(om, s) = c
<1> DEFINE all == Cardinality(DOMAIN om.nxt)
           n == Len(c)
<1>1. c \in Seq(Names) /\ n \in Nat /\ all \in Nat /\ NoObj \notin Names
  BY FS_CardinalityType, ObjmAssumption DEF Linked
<1>2. n <= all
  <2>1. c \in [1 .. n -> DOMAIN om.nxt]
    BY <1>1
  <2>2. \A j, k \in 1 .. n : c[j] = c[k] => j = k
    BY DEF Linked
  <2> QED
    BY <1>1, <2>1, <2>2, Fits
<1>3. PICK f : /\ f = CHOOSE g : g = ChainLoop(0 .. all, om, s, g)
               /\ f[0] = <<>>
               /\ \A k \in 1 .. all : f[k] = Followed(om, s, k, f[k - 1])
  <2>1. ChainSteps(all, om, s)
    BY <1>1, ChainLoopSteps
  <2> QED
    BY <2>1, Zenon DEF ChainSteps
<1>4. Chain(om, s) = f[all]
  BY <1>3, Zenon DEF Chain, ChainLoop, Followed
<1> DEFINE B == {m \in 0 .. all : /\ f[m] \in Seq(Names)
                                  /\ Len(f[m]) = IF m <= n THEN m ELSE n
                                  /\ \A j \in 1 .. Len(f[m]) : f[m][j] = c[j]}
<1>l. /\ om.mem[s] = IF n = 0 THEN NoObj ELSE c[1]
      /\ \A k \in 1 .. n : c[k] \in Names /\ c[k] # NoObj /\ om.nxt[c[k]] = IF k = n THEN NoObj ELSE c[k + 1]
  BY <1>1 DEF Linked
<1> HIDE DEF all, n
<1>5. 0 \in B
  <2>1. f[0] = <<>>
    BY <1>3
  <2>2. f[0] \in Seq(Names) /\ Len(f[0]) = 0
    BY <2>1
  <2>3. 0 \in 0 .. all /\ 0 <= n
    BY <1>1
  <2> QED
    BY <2>2, <2>3
<1>6. ASSUME NEW m \in 0 .. all - 1, m \in B PROVE m + 1 \in B
  <2>1. /\ f[m] \in Seq(Names) /\ Len(f[m]) = (IF m <= n THEN m ELSE n)
        /\ \A j \in 1 .. Len(f[m]) : f[m][j] = c[j]
    BY <1>6
  <2>2. m \in Nat /\ m + 1 \in 1 .. all /\ m + 1 \in 0 .. all /\ (m + 1) - 1 = m
    BY <1>1
  <2>3. f[m + 1] = Followed(om, s, m + 1, f[m])
    BY <1>3, <2>2
  <2> DEFINE o == IF m + 1 = 1 THEN om.mem[s]
                  ELSE IF Len(f[m]) < (m + 1) - 1 THEN NoObj ELSE om.nxt[Last(f[m])]
  <2>4. f[m + 1] = IF o = NoObj THEN f[m] ELSE Append(f[m], o)
    BY <2>3 DEF Followed
  <2>5. CASE m < n
    <3>1. o = c[m + 1]
      <4>1. CASE m = 0
        BY <4>1, <2>5, <1>1, <1>l
      <4>2. CASE m # 0
        <5>1. Len(f[m]) = m /\ Last(f[m]) = c[m]
          BY <2>1, <2>2, <2>5, <4>2 DEF Last
        <5>2. om.nxt[c[m]] = c[m + 1]
          BY <2>2, <2>5, <4>2, <1>1, <1>l
        <5> QED
          BY <2>2, <4>2, <5>1, <5>2
      <4> QED
        BY <4>1, <4>2
    <3>2. c[m + 1] \in Names
      BY <1>1, <1>l, <2>2, <2>5
    <3>3. f[m + 1] = Append(f[m], c[m + 1])
      BY <1>1, <2>4, <3>1, <3>2
    <3> HIDE DEF o
    <3>4. /\ f[m + 1] \in Seq(Names) /\ Len(f[m + 1]) = m + 1
          /\ \A j \in 1 .. m : f[m + 1][j] = f[m][j]
          /\ f[m + 1][m + 1] = c[m + 1]
      BY <2>1, <2>2, <2>5, <3>2, <3>3, AppendProperties
    <3> QED
      BY <2>1, <2>2, <2>5, <3>4, <1>1
  <2>6. CASE ~(m < n)
    <3>1. o = NoObj
      <4>1. CASE m = 0
        BY <4>1, <2>6, <1>1, <1>l
      <4>2. CASE m # 0 /\ m = n
        <5>1. Len(f[m]) = m /\ Last(f[m]) = c[n]
          BY <2>1, <2>2, <4>2 DEF Last
        <5>2. om.nxt[c[n]] = NoObj
          BY <2>2, <4>2, <1>1, <1>l
        <5> QED
          BY <2>2, <4>2, <5>1, <5>2
      <4>3. CASE m # n
        BY <2>1, <2>2, <2>6, <4>3, <1>1
      <4> QED
        BY <4>1, <4>2, <4>3
    <3>2. f[m + 1] = f[m]
      BY <2>4, <3>1
    <3> HIDE DEF o
    <3> QED
      BY <2>1, <2>2, <2>6, <3>2, <1>1
  <2> QED
    BY <2>5, <2>6
<1>7. all \in B
  <2>1. all \in 0 .. all
    BY <1>1
  <2> HIDE DEF B
  <2> QED
    BY <1>1, <1>5, <1>6, <2>1, UpTo
<1>8. f[all] \in Seq(Names) /\ Len(f[all]) = n /\ \A j \in 1 .. n : f[all][j] = c[j]
  BY <1>1, <1>2, <1>7
<1>9. f[all] = c
  BY <1>1, <1>8, SeqEqual DEF n
<1> QED
  BY <1>4, <1>9

\* l gives the list of each place of the hash table: the objects of A whose
\* name belongs there.
Chains(om, A, l) ==
    /\ A \subseteq Names
    /\ DOMAIN l = om.cap .. 3 * om.cap - 1
    /\ \A s \in DOMAIN l :
          /\ Linked(om, s, l[s])
          /\ \A n \in Names : (\E k \in 1 .. Len(l[s]) : l[s][k] = n) <=> n \in A /\ Slot(om, n) = s

\* The shape of a manager.
Shaped(om) ==
    /\ om = [cap |-> om.cap, max |-> om.max, count |-> om.count, mem |-> om.mem,
             nxt |-> om.nxt, id |-> om.id]
    /\ om.cap \in Nat /\ om.max \in Nat /\ om.count \in Nat
    /\ DOMAIN om.mem = 0 .. 3 * om.cap - 1 /\ om.mem = [i \in DOMAIN om.mem |-> om.mem[i]]
    /\ IsFiniteSet(DOMAIN om.nxt) /\ om.nxt = [n \in DOMAIN om.nxt |-> om.nxt[n]]

LEMMA SlotIn ==
    ASSUME NEW om, om.cap \in Nat \ {0}, NEW n \in Names
    PROVE  Slot(om, n) \in om.cap .. 3 * om.cap - 1
<1>1. Hash[n] \in Nat
  BY ObjmAssumption
<1> DEFINE h == Hash[n]
           c == om.cap
           d == 2 * c
<1>2. h \in Nat /\ c \in Nat \ {0} /\ d \in Nat \ {0}
  BY <1>1
<1> HIDE DEF h, d
<1>3. h % d \in 0 .. d - 1
  BY <1>2
<1>4. c + (h % d) \in c .. 3 * c - 1
  BY <1>2, <1>3 DEF d
<1> QED
  BY <1>4 DEF Slot, h, d

LEMMA ChainOf ==
    ASSUME NEW om, Shaped(om), NEW A, NEW l, Chains(om, A, l), A \subseteq DOMAIN om.nxt, NEW s \in DOMAIN l
    PROVE  Chain(om, s) = l[s]
<1>1. Linked(om, s, l[s]) /\ IsFiniteSet(DOMAIN om.nxt)
  BY DEF Chains, Shaped
<1>2. \A k \in 1 .. Len(l[s]) : l[s][k] \in DOMAIN om.nxt
  <2>1. \A k \in 1 .. Len(l[s]) : l[s][k] \in Names
    BY <1>1 DEF Linked
  <2> QED
    BY <2>1 DEF Chains
<1> QED
  BY <1>1, <1>2, ChainIs

\* An object that is put into its chain.
LEMMA HashAddIs ==
    ASSUME NEW om, Shaped(om), om.cap # 0, NEW A, NEW l, Chains(om, A, l), A \subseteq DOMAIN om.nxt,
           NEW n \in Names, n \notin A
    PROVE  LET o == HashAdd(om, n)
           IN  /\ Shaped(o) /\ o.cap = om.cap /\ o.max = om.max /\ o.count = om.count /\ o.id = om.id
               /\ \A i \in 0 .. om.cap - 1 : o.mem[i] = om.mem[i]
               /\ DOMAIN o.nxt = DOMAIN om.nxt \union {n}
               /\ \E m : Chains(o, A \union {n}, m)
<1> DEFINE s == Slot(om, n)
           c == l[s]
           o == HashAdd(om, n)
           m == [l EXCEPT ![s] = Append(c, n)]
<1>1. om.cap \in Nat \ {0} /\ s \in om.cap .. 3 * om.cap - 1 /\ s \in DOMAIN l /\ s \in DOMAIN om.mem
  <2>1. om.cap \in Nat \ {0} /\ DOMAIN om.mem = 0 .. 3 * om.cap - 1
    BY DEF Shaped
  <2>2. s \in om.cap .. 3 * om.cap - 1
    BY <2>1, SlotIn
  <2> QED
    BY <2>1, <2>2 DEF Chains
<1>2. Chain(om, s) = c
  BY <1>1, ChainOf
<1>3. /\ c \in Seq(Names) /\ \A k \in 1 .. Len(c) : c[k] \in A /\ c[k] # n /\ Slot(om, c[k]) = s
  <2>1. c \in Seq(Names)
    BY <1>1 DEF Chains, Linked
  <2>2. \A k \in 1 .. Len(c) : c[k] \in Names
    BY <2>1
  <2> QED
    BY <1>1, <2>1, <2>2 DEF Chains
<1>4. ~Contains(c, n)
  BY <1>3 DEF Contains
<1> DEFINE mem == [om.mem EXCEPT ![s] = n]
           nxt0 == With(om.nxt, n, NoObj)
           nxt == [nxt0 EXCEPT ![Last(c)] = n]
           first == [om EXCEPT !.mem = mem, !.nxt = nxt0]
           after == [om EXCEPT !.nxt = nxt]
<1>5. o = IF Len(c) = 0 THEN first ELSE after
  <2>1. o = Chained(om, n, s, c)
    BY <1>2 DEF HashAdd
  <2>2. c = <<>> <=> Len(c) = 0
    BY <1>3, EmptySeq
  <2> QED
    BY <1>4, <2>1, <2>2 DEF Chained
<1>6. /\ DOMAIN mem = DOMAIN om.mem /\ mem = [i \in DOMAIN om.mem |-> IF i = s THEN n ELSE om.mem[i]]
      /\ \A i \in DOMAIN om.mem : mem[i] = IF i = s THEN n ELSE om.mem[i]
  BY <1>1
<1>7. /\ DOMAIN nxt0 = DOMAIN om.nxt \union {n} /\ nxt0 = [q \in DOMAIN nxt0 |-> nxt0[q]]
      /\ \A q \in DOMAIN nxt0 : nxt0[q] = IF q = n THEN NoObj ELSE om.nxt[q]
  BY DEF With
<1>8. ASSUME Len(c) # 0
      PROVE  /\ Last(c) = c[Len(c)] /\ Len(c) \in 1 .. Len(c) /\ Last(c) \in A
             /\ DOMAIN nxt = DOMAIN nxt0 /\ nxt = [q \in DOMAIN nxt |-> nxt[q]]
             /\ \A q \in DOMAIN nxt0 : nxt[q] = IF q = Last(c) THEN n ELSE nxt0[q]
  <2>1. Len(c) \in Nat /\ Last(c) = c[Len(c)]
    BY <1>3 DEF Last
  <2>2. Len(c) \in 1 .. Len(c)
    BY <2>1, <1>8
  <2> HIDE DEF nxt0
  <2>3. DOMAIN nxt = DOMAIN nxt0 /\ nxt = [q \in DOMAIN nxt |-> nxt[q]]
        /\ \A q \in DOMAIN nxt0 : nxt[q] = IF q = Last(c) THEN n ELSE nxt0[q]
    BY <1>7
  <2>4. Last(c) \in A
    BY <1>3, <2>1, <2>2
  <2> HIDE DEF nxt
  <2> QED
    BY <2>1, <2>2, <2>3, <2>4
<1> HIDE DEF mem, nxt0, nxt
<1>9. /\ o = [cap |-> om.cap, max |-> om.max, count |-> om.count,
             mem |-> IF Len(c) = 0 THEN mem ELSE om.mem,
             nxt |-> IF Len(c) = 0 THEN nxt0 ELSE nxt, id |-> om.id]
  <2>1. om = [cap |-> om.cap, max |-> om.max, count |-> om.count, mem |-> om.mem,
             nxt |-> om.nxt, id |-> om.id]
    BY DEF Shaped
  <2> HIDE DEF o
  <2> QED
    BY <1>5, <2>1
<1> HIDE DEF o, first, after
<1>10. /\ o.cap = om.cap /\ o.max = om.max /\ o.count = om.count /\ o.id = om.id
       /\ o.mem = (IF Len(c) = 0 THEN mem ELSE om.mem) /\ o.nxt = IF Len(c) = 0 THEN nxt0 ELSE nxt
  BY <1>9
<1>11. /\ DOMAIN o.mem = DOMAIN om.mem /\ o.mem = [i \in DOMAIN o.mem |-> o.mem[i]]
       /\ \A i \in DOMAIN om.mem : o.mem[i] = IF Len(c) = 0 /\ i = s THEN n ELSE om.mem[i]
  BY <1>6, <1>10 DEF Shaped
<1>12. /\ DOMAIN o.nxt = DOMAIN om.nxt \union {n} /\ o.nxt = [q \in DOMAIN o.nxt |-> o.nxt[q]]
       /\ \A q \in DOMAIN om.nxt \union {n} :
             o.nxt[q] = IF Len(c) # 0 /\ q = Last(c) THEN n ELSE IF q = n THEN NoObj ELSE om.nxt[q]
  BY <1>7, <1>8, <1>10
<1>13. Shaped(o)
  <2>1. IsFiniteSet(DOMAIN om.nxt \union {n})
    BY FS_AddElement DEF Shaped
  <2> QED
    BY <1>9, <1>10, <1>11, <1>12, <2>1 DEF Shaped
<1>14. \A q \in Names : Slot(o, q) = Slot(om, q)
  BY <1>10 DEF Slot
<1>15. m[s] = Append(c, n) /\ DOMAIN m = DOMAIN l /\ \A t \in DOMAIN l : t # s => m[t] = l[t]
  BY <1>1
<1> HIDE DEF m
<1>16. /\ m[s] \in Seq(Names) /\ Len(m[s]) = Len(c) + 1 /\ Len(c) \in Nat
       /\ \A k \in 1 .. Len(c) : m[s][k] = c[k]
       /\ m[s][Len(c) + 1] = n
  BY <1>3, <1>15, AppendProperties
<1>17. Linked(o, s, m[s])
  <2>1. Linked(om, s, c)
    BY <1>1 DEF Chains
  <2>2. ASSUME NEW j \in 1 .. Len(m[s]), NEW k \in 1 .. Len(m[s]), m[s][j] = m[s][k] PROVE j = k
    <3>1. /\ j \in 1 .. Len(c) \/ j = Len(c) + 1
          /\ k \in 1 .. Len(c) \/ k = Len(c) + 1
      BY <1>16
    <3> QED
      BY <1>3, <1>16, <2>1, <2>2, <3>1 DEF Linked
  <2>3. o.mem[s] = m[s][1]
    <3>1. om.mem[s] = IF Len(c) = 0 THEN NoObj ELSE c[1]
      BY <2>1 DEF Linked
    <3>2. CASE Len(c) = 0
      BY <1>1, <1>11, <1>16, <3>2
    <3>3. CASE Len(c) # 0
      BY <1>1, <1>11, <1>16, <3>1, <3>3
    <3> QED
      BY <3>2, <3>3
  <2>4. ASSUME NEW k \in 1 .. Len(m[s])
        PROVE  o.nxt[m[s][k]] = IF k = Len(m[s]) THEN NoObj ELSE m[s][k + 1]
    <3>1. CASE k = Len(c) + 1
      <4>1. m[s][k] = n /\ (Len(c) # 0 => n # Last(c))
        BY <1>8, <1>16, <3>1
      <4> QED
        BY <1>12, <1>16, <3>1, <4>1
    <3>2. CASE k \in 1 .. Len(c)
      <4>1. /\ m[s][k] = c[k] /\ c[k] \in A /\ c[k] # n /\ Len(c) # 0
            /\ om.nxt[c[k]] = IF k = Len(c) THEN NoObj ELSE c[k + 1]
        BY <1>3, <1>16, <2>1, <3>2 DEF Linked
      <4>2. c[k] = Last(c) <=> k = Len(c)
        <5>1. Last(c) = c[Len(c)] /\ Len(c) \in 1 .. Len(c)
          BY <1>8, <4>1
        <5> QED
          BY <2>1, <3>2, <5>1 DEF Linked
      <4>3. o.nxt[c[k]] = IF c[k] = Last(c) THEN n ELSE om.nxt[c[k]]
        BY <1>12, <4>1
      <4>4. CASE k = Len(c)
        BY <1>16, <4>1, <4>2, <4>3, <4>4
      <4>5. CASE k # Len(c)
        <5>1. k + 1 \in 1 .. Len(c) /\ k # Len(m[s])
          BY <1>16, <3>2, <4>5
        <5> QED
          BY <1>16, <4>1, <4>2, <4>3, <4>5, <5>1
      <4> QED
        BY <4>4, <4>5
    <3> QED
      BY <1>16, <3>1, <3>2
  <2>5. Len(m[s]) # 0
    BY <1>16
  <2> QED
    BY <1>16, <2>2, <2>3, <2>4, <2>5 DEF Linked
<1>18. ASSUME NEW t \in DOMAIN l, t # s PROVE Linked(o, t, m[t])
  <2>1. Linked(om, t, l[t]) /\ \A k \in 1 .. Len(l[t]) : l[t][k] \in A /\ Slot(om, l[t][k]) = t
    BY DEF Chains, Linked
  <2>2. t \in DOMAIN om.mem /\ o.mem[t] = om.mem[t]
    <3>1. t \in DOMAIN om.mem
      BY <1>1 DEF Chains, Shaped
    <3> QED
      BY <1>11, <1>18, <3>1
  <2>3. \A k \in 1 .. Len(l[t]) : o.nxt[l[t][k]] = om.nxt[l[t][k]]
    <3>1. ASSUME NEW k \in 1 .. Len(l[t]) PROVE o.nxt[l[t][k]] = om.nxt[l[t][k]]
      <4>1. l[t][k] \in A /\ l[t][k] # n /\ (Len(c) # 0 => l[t][k] # Last(c))
        BY <1>3, <1>8, <1>18, <2>1
      <4> QED
        BY <1>12, <4>1
    <3> QED
      BY <3>1
  <2> QED
    BY <1>15, <1>18, <2>1, <2>2, <2>3, SMTT(40) DEF Linked
<1>19. Chains(o, A \union {n}, m)
  <2>1. DOMAIN m = o.cap .. 3 * o.cap - 1 /\ A \union {n} \subseteq Names
    BY <1>10, <1>15 DEF Chains
  <2>2. ASSUME NEW t \in DOMAIN m PROVE Linked(o, t, m[t])
    BY <1>15, <1>17, <1>18
  <2>3. ASSUME NEW t \in DOMAIN m, NEW q \in Names
        PROVE  (\E k \in 1 .. Len(m[t]) : m[t][k] = q) <=> q \in A \union {n} /\ Slot(o, q) = t
    <3>1. (\E k \in 1 .. Len(l[t]) : l[t][k] = q) <=> q \in A /\ Slot(om, q) = t
      BY <1>15 DEF Chains
    <3>2. Slot(o, q) = Slot(om, q)
      BY <1>14
    <3>3. CASE t = s
      <4>1. (\E k \in 1 .. Len(m[s]) : m[s][k] = q) <=> (\E k \in 1 .. Len(c) : c[k] = q) \/ q = n
        <5>1. ASSUME NEW k \in 1 .. Len(m[s]), m[s][k] = q PROVE (\E j \in 1 .. Len(c) : c[j] = q) \/ q = n
          <6>1. k \in 1 .. Len(c) \/ k = Len(c) + 1
            BY <1>16
          <6> QED
            BY <1>16, <5>1, <6>1
        <5>2. ASSUME NEW k \in 1 .. Len(c), c[k] = q PROVE \E j \in 1 .. Len(m[s]) : m[s][j] = q
          <6>1. k \in 1 .. Len(m[s]) /\ m[s][k] = q
            BY <1>16, <5>2
          <6> QED
            BY <6>1
        <5>3. ASSUME q = n PROVE \E j \in 1 .. Len(m[s]) : m[s][j] = q
          <6>1. Len(c) + 1 \in 1 .. Len(m[s])
            BY <1>16
          <6> QED
            BY <1>16, <5>3, <6>1
        <5> QED
          BY <5>1, <5>2, <5>3
      <4> QED
        BY <3>1, <3>2, <3>3, <4>1
    <3>4. CASE t # s
      BY <1>15, <3>1, <3>2, <3>4
    <3> QED
      BY <3>3, <3>4
  <2> QED
    BY <2>1, <2>2, <2>3 DEF Chains
<1>20. \A i \in 0 .. om.cap - 1 : o.mem[i] = om.mem[i]
  <2>1. ASSUME NEW i \in 0 .. om.cap - 1 PROVE i \in DOMAIN om.mem /\ i # s
    BY <1>1 DEF Shaped
  <2> QED
    BY <1>11, <2>1
<1> QED
  BY <1>10, <1>12, <1>13, <1>19, <1>20 DEF o, m

\* The objects of the first N places go back into empty chains.
Rehashes(om, N, o) ==
    /\ Shaped(o) /\ o.cap = om.cap /\ o.max = om.max /\ o.count = om.count /\ o.id = om.id
    /\ \A i \in 0 .. om.cap - 1 : o.mem[i] = om.mem[i]
    /\ DOMAIN o.nxt = DOMAIN om.nxt
    /\ \E l : Chains(o, {om.mem[i] : i \in 0 .. N - 1} \ {NoObj}, l)

LEMMA RehashedIs ==
    ASSUME NEW om, Shaped(om), NEW N \in 0 .. om.cap,
           \A i \in om.cap .. 3 * om.cap - 1 : om.mem[i] = NoObj,
           \A i \in 0 .. N - 1 : om.mem[i] # NoObj => om.mem[i] \in DOMAIN om.nxt /\ om.mem[i] \in Names,
           \A i, j \in 0 .. N - 1 : om.mem[i] = om.mem[j] /\ om.mem[i] # NoObj => i = j
    PROVE  Rehashes(om, N, Rehashed(om, N))
<1>1. N \in Nat /\ om.cap \in Nat /\ N <= om.cap
  BY DEF Shaped
<1>2. PICK f : /\ f = CHOOSE g : g = HashLoop(0 .. N, om, g)
               /\ f[0] = om
               /\ \A k \in 1 .. N : f[k] = Rehash(f[k - 1], k - 1)
  <2>1. HashSteps(N, om)
    BY <1>1, HashLoopSteps
  <2> QED
    BY <2>1, Zenon DEF HashSteps
<1>3. Rehashed(om, N) = f[N]
  BY <1>2, Zenon DEF Rehashed, HashLoop
<1> DEFINE B == {m \in 0 .. N : Rehashes(om, m, f[m])}
<1>4. 0 \in B
  <2> DEFINE l == [s \in om.cap .. 3 * om.cap - 1 |-> <<>>]
  <2>1. {om.mem[i] : i \in 0 .. 0 - 1} \ {NoObj} = {}
    OBVIOUS
  <2>2. ASSUME NEW s \in om.cap .. 3 * om.cap - 1 PROVE Linked(om, s, l[s]) /\ Len(l[s]) = 0
    <3>1. l[s] = <<>>
      OBVIOUS
    <3>2. <<>> \in Seq(Names) /\ Len(<<>>) = 0
      OBVIOUS
    <3> QED
      BY <3>1, <3>2 DEF Linked
  <2> HIDE DEF l
  <2>3. DOMAIN l = om.cap .. 3 * om.cap - 1
    BY DEF l
  <2>4. \A s \in DOMAIN l, n \in Names : ~\E k \in 1 .. Len(l[s]) : l[s][k] = n
    BY <2>2, <2>3
  <2>5. Chains(om, {}, l)
    BY <2>2, <2>3, <2>4 DEF Chains
  <2>6. \E q : Chains(om, {om.mem[i] : i \in 0 .. 0 - 1} \ {NoObj}, q)
    BY ONLY <2>1, <2>5
  <2>7. Rehashes(om, 0, om)
    BY ONLY <2>6, Shaped(om) DEF Rehashes
  <2> QED
    BY <1>1, <1>2, <2>7
<1>5. ASSUME NEW m \in 0 .. N - 1, m \in B PROVE m + 1 \in B
  <2> DEFINE A == {om.mem[i] : i \in 0 .. m - 1} \ {NoObj}
             A2 == {om.mem[i] : i \in 0 .. (m + 1) - 1} \ {NoObj}
             g == f[m]
             n == om.mem[m]
  <2>1. m \in Nat /\ m + 1 \in 1 .. N /\ m + 1 \in 0 .. N /\ (m + 1) - 1 = m /\ m \in 0 .. om.cap - 1 /\ om.cap # 0
    BY <1>1
  <2>2. /\ Shaped(g) /\ g.cap = om.cap /\ g.max = om.max /\ g.count = om.count /\ g.id = om.id
        /\ \A i \in 0 .. om.cap - 1 : g.mem[i] = om.mem[i]
        /\ DOMAIN g.nxt = DOMAIN om.nxt
    BY <1>5 DEF Rehashes
  <2>3. PICK l : Chains(g, A, l)
    BY <1>5 DEF Rehashes
  <2>4. f[m + 1] = Rehash(g, m)
    BY <1>2, <2>1
  <2>5. g.mem[m] = n
    BY <2>1, <2>2
  <2>6. CASE n = NoObj
    <3>1. f[m + 1] = g
      BY <2>4, <2>5, <2>6 DEF Rehash
    <3>2. A2 = A
      <4>1. 0 .. (m + 1) - 1 = (0 .. m - 1) \union {m}
        BY <2>1
      <4> QED
        BY <2>6, <4>1
    <3> QED
      BY <2>1, <2>2, <2>3, <3>1, <3>2 DEF Rehashes
  <2>7. CASE n # NoObj
    <3>1. f[m + 1] = HashAdd(g, n)
      BY <2>4, <2>5, <2>7 DEF Rehash
    <3>2. A2 = A \union {n}
      <4>1. 0 .. (m + 1) - 1 = (0 .. m - 1) \union {m}
        BY <2>1
      <4> QED
        BY <2>7, <4>1
    <3>3. n \in DOMAIN om.nxt /\ n \in Names /\ m \in 0 .. N - 1
      BY <2>7
    <3>4. n \notin A
      <4>1. \A i \in 0 .. m - 1 : i \in 0 .. N - 1 /\ i # m
        BY <2>1
      <4> QED
        BY <2>7, <3>3, <4>1
    <3>5. A \subseteq DOMAIN g.nxt
      <4>1. \A i \in 0 .. m - 1 : i \in 0 .. N - 1
        BY <2>1
      <4> QED
        BY <2>2, <4>1
    <3>6. g.cap # 0
      BY <2>1, <2>2
    <3> DEFINE h == HashAdd(g, n)
    <3> HIDE DEF A, A2, n, g
    <3>7. /\ Shaped(h) /\ h.cap = g.cap /\ h.max = g.max /\ h.count = g.count /\ h.id = g.id
          /\ \A i \in 0 .. g.cap - 1 : h.mem[i] = g.mem[i]
          /\ DOMAIN h.nxt = DOMAIN g.nxt \union {n}
          /\ \E q : Chains(h, A \union {n}, q)
      BY <2>2, <2>3, <3>3, <3>4, <3>5, <3>6, HashAddIs
    <3> HIDE DEF h
    <3>8. DOMAIN h.nxt = DOMAIN om.nxt
      BY <2>2, <3>3, <3>7
    <3>9. \A i \in 0 .. om.cap - 1 : h.mem[i] = om.mem[i]
      BY <2>2, <3>7
    <3>10. \E q : Chains(h, A2, q)
      BY <3>2, <3>7
    <3>11. Rehashes(om, m + 1, h)
      BY <2>2, <3>7, <3>8, <3>9, <3>10 DEF Rehashes, A2
    <3> QED
      BY <2>1, <3>1, <3>11 DEF h
  <2> QED
    BY <2>6, <2>7
<1>6. N \in B
  <2> HIDE DEF B
  <2>1. N \in 0 .. N
    BY <1>1
  <2> QED
    BY <1>1, <1>4, <1>5, <2>1, UpTo
<1> QED
  BY <1>3, <1>6

\* A manager that holds the objects S.
Managed(om, S) ==
    /\ Shaped(om)
    /\ S \subseteq Names /\ IsFiniteSet(S) /\ om.count = Cardinality(S) /\ om.max <= om.cap
    /\ DOMAIN om.nxt = S
    /\ om.id \in [S -> 0 .. om.cap - 1]
    /\ \A i \in 0 .. om.cap - 1 : om.mem[i] = NoObj \/ (om.mem[i] \in S /\ om.id[om.mem[i]] = i)
    /\ \A n \in S : om.mem[om.id[n]] = n /\ om.id[n] < om.max
    /\ \E l : Chains(om, S, l)

LEMMA EmptyIs == Managed(EmptyObjm, {})
<1> DEFINE om == EmptyObjm
<1>1. /\ om.cap = 0 /\ om.max = 0 /\ om.count = 0 /\ om.mem = <<>> /\ om.nxt = <<>> /\ om.id = <<>>
      /\ om = [cap |-> om.cap, max |-> om.max, count |-> om.count, mem |-> om.mem,
               nxt |-> om.nxt, id |-> om.id]
  BY DEF EmptyObjm
<1>2. IsFiniteSet({}) /\ Cardinality({}) = 0
  BY FS_EmptySet
<1>3. /\ DOMAIN <<>> = {} /\ 0 .. 0 - 1 = {} /\ 0 .. 3 * 0 - 1 = {}
      /\ <<>> \in [{} -> {}] /\ <<>> = [i \in DOMAIN <<>> |-> <<>>[i]]
  OBVIOUS
<1> HIDE DEF om
<1>4. Shaped(om)
  BY <1>1, <1>2, <1>3 DEF Shaped
<1>5. Chains(om, {}, <<>>)
  BY <1>1, <1>3 DEF Chains
<1>6. Managed(om, {})
  BY <1>1, <1>2, <1>3, <1>4, <1>5 DEF Managed
<1> QED
  BY <1>6 DEF om

\* Two objects have different ids.
LEMMA IdsDiffer ==
    ASSUME NEW om, NEW S, Managed(om, S), NEW m \in S, NEW n \in S, om.id[m] = om.id[n]
    PROVE  m = n
BY DEF Managed

\* What the manager finds by name.
LEMMA GetIs ==
    ASSUME NEW om, NEW S, Managed(om, S)
    PROVE  /\ \A n \in Names : Get(om, n) = IF n \in S THEN n ELSE NoObj
           /\ Known(om) = S
<1>1. Shaped(om) /\ S \subseteq Names /\ DOMAIN om.nxt = S /\ om.cap \in Nat /\ om.id \in [S -> 0 .. om.cap - 1]
  BY DEF Managed, Shaped
<1>2. PICK l : Chains(om, S, l)
  BY DEF Managed
<1>3. ASSUME NEW n \in Names PROVE Get(om, n) = IF n \in S THEN n ELSE NoObj
  <2>1. CASE om.cap = 0
    <3>1. S = {}
      BY <1>1, <2>1
    <3> QED
      BY <2>1, <3>1 DEF Get
  <2>2. CASE om.cap # 0
    <3> DEFINE s == Slot(om, n)
    <3>1. s \in DOMAIN l
      <4>1. om.cap \in Nat \ {0}
        BY <1>1, <2>2
      <4> QED
        BY <1>2, <4>1, SlotIn DEF Chains
    <3>2. Chain(om, s) = l[s]
      BY <1>1, <1>2, <3>1, ChainOf
    <3>3. (\E k \in 1 .. Len(l[s]) : l[s][k] = n) <=> n \in S
      BY <1>2, <3>1 DEF Chains
    <3>4. l[s] \in Seq(Names)
      BY <1>2, <3>1 DEF Chains, Linked
    <3>5. Contains(l[s], n) <=> n \in S
      BY <3>3, <3>4 DEF Contains
    <3> QED
      BY <2>2, <3>2, <3>5 DEF Get
  <2> QED
    BY <2>1, <2>2
<1>4. Known(om) = S
  BY <1>1, <1>3, ObjmAssumption DEF Known
<1> QED
  BY <1>3, <1>4

LEMMA DoubledIs ==
    ASSUME NEW cap \in Nat \ {0}, NEW xoid \in Int
    PROVE  Doubled(cap, xoid) \in Nat /\ Doubled(cap, xoid) >= cap /\ Doubled(cap, xoid) > xoid
<1>1. CASE xoid < 0
  BY <1>1 DEF Doubled
<1>2. CASE ~(xoid < 0)
  <2>1. xoid \in Nat
    BY <1>2
  <2>2. PICK f : /\ f = CHOOSE g : g = CapLoop(0 .. xoid, cap, xoid, g)
                 /\ f[0] = cap
                 /\ \A k \in 1 .. xoid : f[k] = Doubling(xoid, f[k - 1])
    <3>1. CapSteps(xoid, cap, xoid)
      BY <2>1, CapLoopSteps, Zenon
    <3> QED
      BY ONLY <3>1 DEF CapSteps
  <2>3. Doubled(cap, xoid) = f[xoid]
    BY <1>2, <2>2, Zenon DEF Doubled, CapLoop, Doubling
  <2> DEFINE B == {m \in 0 .. xoid : f[m] \in Nat /\ f[m] >= cap /\ (f[m] > xoid \/ f[m] >= m + 1)}
  <2>4. 0 \in B
    BY <2>1, <2>2
  <2>5. ASSUME NEW m \in 0 .. xoid - 1, m \in B PROVE m + 1 \in B
    <3>1. m \in Nat /\ m + 1 \in 1 .. xoid /\ m + 1 \in 0 .. xoid /\ (m + 1) - 1 = m
      BY <2>1
    <3>2. f[m + 1] = Doubling(xoid, f[m])
      BY <2>2, <3>1
    <3>3. f[m] \in Nat /\ f[m] >= cap /\ (f[m] > xoid \/ f[m] >= m + 1)
      BY <2>5
    <3>4. f[m + 1] \in Nat /\ f[m + 1] >= cap /\ (f[m + 1] > xoid \/ f[m + 1] >= (m + 1) + 1)
      BY <3>1, <3>2, <3>3 DEF Doubling
    <3> QED
      BY <3>1, <3>4
  <2>6. xoid \in B
    <3> HIDE DEF B
    <3>1. xoid \in 0 .. xoid
      BY <2>1
    <3> QED
      BY <2>1, <2>4, <2>5, <3>1, UpTo
  <2> QED
    BY <2>1, <2>3, <2>6
<1> QED
  BY <1>1, <1>2

\* What the manager is after it has grown.
LEMMA GrowIs ==
    ASSUME NEW om, NEW S, Managed(om, S), NEW xoid \in Int
    PROVE  LET g == Grow(om, xoid)
           IN  /\ Managed(g, S) /\ g.cap > om.cap /\ g.cap > xoid
               /\ g.id = om.id /\ g.max = om.max /\ g.count = om.count
               /\ \A i \in 0 .. g.cap - 1 : g.mem[i] = IF i < om.cap THEN om.mem[i] ELSE NoObj
<1> DEFINE cap == Doubled(IF om.cap = 0 THEN 1 ELSE 2 * om.cap, xoid)
           mem == [i \in 0 .. (3 * cap - 1) |-> IF i < om.cap THEN om.mem[i] ELSE NoObj]
           h == [om EXCEPT !.cap = cap, !.mem = mem]
           g == Grow(om, xoid)
<1>1. Shaped(om) /\ om.cap \in Nat /\ om.max \in Nat /\ om.count \in Nat
  BY DEF Managed, Shaped
<1>2. cap \in Nat /\ cap > om.cap /\ cap > xoid
  <2> DEFINE c == IF om.cap = 0 THEN 1 ELSE 2 * om.cap
  <2>1. c \in Nat \ {0} /\ c > om.cap
    BY <1>1
  <2>2. Doubled(c, xoid) \in Nat /\ Doubled(c, xoid) >= c /\ Doubled(c, xoid) > xoid
    BY <2>1, DoubledIs
  <2> HIDE DEF c
  <2> QED
    BY <1>1, <2>1, <2>2 DEF c
<1>3. g = Rehashed(h, om.cap)
  BY DEF Grow
<1> HIDE DEF cap
<1>4. /\ DOMAIN mem = 0 .. 3 * cap - 1 /\ mem = [i \in DOMAIN mem |-> mem[i]]
      /\ \A i \in 0 .. 3 * cap - 1 : mem[i] = IF i < om.cap THEN om.mem[i] ELSE NoObj
  OBVIOUS
<1> HIDE DEF mem
<1>5. h = [cap |-> cap, max |-> om.max, count |-> om.count, mem |-> mem, nxt |-> om.nxt, id |-> om.id]
  <2>1. om = [cap |-> om.cap, max |-> om.max, count |-> om.count, mem |-> om.mem,
              nxt |-> om.nxt, id |-> om.id]
    BY <1>1 DEF Shaped
  <2> DEFINE h1 == [om EXCEPT !.cap = cap]
  <2>2. h = [h1 EXCEPT !.mem = mem]
    OBVIOUS
  <2> HIDE DEF h
  <2>3. h1 = [cap |-> cap, max |-> om.max, count |-> om.count, mem |-> om.mem,
              nxt |-> om.nxt, id |-> om.id]
    BY <2>1
  <2> HIDE DEF h1
  <2> QED
    BY ONLY <2>2, <2>3
<1> HIDE DEF h, g
<1>6. /\ h.cap = cap /\ h.max = om.max /\ h.count = om.count /\ h.mem = mem /\ h.nxt = om.nxt /\ h.id = om.id
      /\ h = [cap |-> h.cap, max |-> h.max, count |-> h.count, mem |-> h.mem, nxt |-> h.nxt, id |-> h.id]
  BY <1>5
<1>7. Shaped(h)
  BY <1>1, <1>2, <1>4, <1>6 DEF Shaped
<1>8. om.cap \in 0 .. h.cap /\ \A i \in h.cap .. 3 * h.cap - 1 : h.mem[i] = NoObj
  BY <1>1, <1>2, <1>4, <1>6
<1>9. \A i \in 0 .. om.cap - 1 : h.mem[i] = om.mem[i]
  BY <1>1, <1>2, <1>4, <1>6
<1>10. /\ S \subseteq Names /\ DOMAIN om.nxt = S /\ om.id \in [S -> 0 .. om.cap - 1]
       /\ \A i \in 0 .. om.cap - 1 : om.mem[i] = NoObj \/ (om.mem[i] \in S /\ om.id[om.mem[i]] = i)
       /\ \A n \in S : om.mem[om.id[n]] = n /\ om.id[n] < om.max
       /\ IsFiniteSet(S) /\ om.count = Cardinality(S) /\ om.max <= om.cap
  BY DEF Managed
<1>11. Rehashes(h, om.cap, g)
  <2>1. \A i \in 0 .. om.cap - 1 : h.mem[i] # NoObj => h.mem[i] \in DOMAIN h.nxt /\ h.mem[i] \in Names
    BY <1>6, <1>9, <1>10
  <2>2. \A i, j \in 0 .. om.cap - 1 : h.mem[i] = h.mem[j] /\ h.mem[i] # NoObj => i = j
    BY <1>9, <1>10
  <2> QED
    BY <1>3, <1>7, <1>8, <2>1, <2>2, RehashedIs
<1>12. {h.mem[i] : i \in 0 .. om.cap - 1} \ {NoObj} = S
  <2>1. \A i \in 0 .. om.cap - 1 : h.mem[i] # NoObj => h.mem[i] \in S
    BY <1>9, <1>10
  <2>2. ASSUME NEW n \in S PROVE n # NoObj /\ om.id[n] \in 0 .. om.cap - 1 /\ h.mem[om.id[n]] = n
    BY <1>9, <1>10, ObjmAssumption
  <2> QED
    BY <2>1, <2>2
<1>13. /\ Shaped(g) /\ g.cap = cap /\ g.max = om.max /\ g.count = om.count /\ g.id = om.id
       /\ \A i \in 0 .. cap - 1 : g.mem[i] = mem[i]
       /\ DOMAIN g.nxt = DOMAIN om.nxt
  BY <1>6, <1>11 DEF Rehashes
<1>14. \E l : Chains(g, S, l)
  BY <1>11, <1>12 DEF Rehashes
<1>15. \A i \in 0 .. cap - 1 : g.mem[i] = IF i < om.cap THEN om.mem[i] ELSE NoObj
  BY <1>2, <1>4, <1>13
<1>16. Managed(g, S)
  <2>1. g.id \in [S -> 0 .. g.cap - 1]
    BY <1>1, <1>2, <1>10, <1>13
  <2>2. \A i \in 0 .. g.cap - 1 : g.mem[i] = NoObj \/ (g.mem[i] \in S /\ g.id[g.mem[i]] = i)
    <3>1. ASSUME NEW i \in 0 .. cap - 1 PROVE g.mem[i] = NoObj \/ (g.mem[i] \in S /\ g.id[g.mem[i]] = i)
      <4>1. CASE i < om.cap
        <5>1. i \in 0 .. om.cap - 1 /\ g.mem[i] = om.mem[i]
          BY <1>1, <1>2, <1>15, <4>1
        <5>2. om.mem[i] = NoObj \/ (om.mem[i] \in S /\ om.id[om.mem[i]] = i)
          BY <1>10, <5>1
        <5>3. g.id = om.id
          BY <1>13
        <5> QED
          BY ONLY <5>1, <5>2, <5>3
      <4>2. CASE ~(i < om.cap)
        BY <1>15, <4>2
      <4> QED
        BY <4>1, <4>2
    <3> QED
      BY <1>13, <3>1
  <2>3. \A n \in S : g.mem[g.id[n]] = n /\ g.id[n] < g.max
    <3>1. ASSUME NEW n \in S PROVE g.mem[g.id[n]] = n /\ g.id[n] < g.max
      <4>1. om.id[n] \in 0 .. om.cap - 1 /\ om.id[n] \in 0 .. cap - 1 /\ om.id[n] < om.cap
        BY <1>1, <1>2, <1>10
      <4> QED
        BY <1>10, <1>13, <1>15, <4>1
    <3> QED
      BY <3>1
  <2>4. g.max <= g.cap
    BY <1>1, <1>2, <1>10, <1>13
  <2> QED
    BY <1>10, <1>13, <1>14, <2>1, <2>2, <2>3, <2>4 DEF Managed
<1> QED
  BY <1>2, <1>13, <1>15, <1>16 DEF g

\* An object in a free place.
LEMMA PutIs ==
    ASSUME NEW om, NEW S, Managed(om, S), NEW n \in Names, n \notin S,
           NEW i \in 0 .. om.cap - 1, om.mem[i] = NoObj
    PROVE  LET o == Put(om, n, i)
           IN  Managed(o, S \union {n}) /\ o.cap = om.cap /\ o.id = With(om.id, n, i)
<1> DEFINE mem == [om.mem EXCEPT ![i] = n]
           id == With(om.id, n, i)
           nxt == With(om.nxt, n, NoObj)
           max == IF i >= om.max THEN i + 1 ELSE om.max
           h == [om EXCEPT !.mem = mem, !.id = id, !.nxt = nxt, !.count = om.count + 1, !.max = max]
           o == Put(om, n, i)
<1>1. /\ Shaped(om) /\ om.cap \in Nat /\ om.max \in Nat /\ om.count \in Nat /\ om.cap # 0
      /\ i \in 0 .. 3 * om.cap - 1 /\ i \in Nat
  BY DEF Managed, Shaped
<1>2. /\ S \subseteq Names /\ DOMAIN om.nxt = S /\ om.id \in [S -> 0 .. om.cap - 1]
      /\ \A j \in 0 .. om.cap - 1 : om.mem[j] = NoObj \/ (om.mem[j] \in S /\ om.id[om.mem[j]] = j)
      /\ \A q \in S : om.mem[om.id[q]] = q /\ om.id[q] < om.max
      /\ IsFiniteSet(S) /\ om.count = Cardinality(S) /\ om.max <= om.cap
      /\ DOMAIN om.mem = 0 .. 3 * om.cap - 1
  BY DEF Managed, Shaped
<1>3. o = HashAdd(h, n)
  BY DEF Put
<1>4. /\ DOMAIN mem = DOMAIN om.mem /\ mem = [j \in DOMAIN mem |-> mem[j]]
      /\ \A j \in DOMAIN om.mem : mem[j] = IF j = i THEN n ELSE om.mem[j]
  BY <1>1, <1>2
<1>5. /\ DOMAIN nxt = S \union {n} /\ nxt = [q \in DOMAIN nxt |-> nxt[q]]
      /\ \A q \in S : nxt[q] = om.nxt[q]
  BY <1>2 DEF With
<1>6. id \in [S \union {n} -> 0 .. om.cap - 1] /\ id[n] = i /\ \A q \in S : id[q] = om.id[q]
  BY <1>2 DEF With
<1>m. max \in Nat /\ max <= om.cap /\ om.max <= max /\ i < max
  BY <1>1, <1>2
<1> HIDE DEF mem, id, nxt, max
<1>7. h = [cap |-> om.cap, max |-> max, count |-> om.count + 1, mem |-> mem, nxt |-> nxt, id |-> id]
  <2>1. om = [cap |-> om.cap, max |-> om.max, count |-> om.count, mem |-> om.mem,
              nxt |-> om.nxt, id |-> om.id]
    BY <1>1 DEF Shaped
  <2> DEFINE h1 == [om EXCEPT !.mem = mem]
             h2 == [h1 EXCEPT !.id = id]
             h3 == [h2 EXCEPT !.nxt = nxt]
             h4 == [h3 EXCEPT !.count = om.count + 1]
  <2>2. h = [h4 EXCEPT !.max = max]
    OBVIOUS
  <2> HIDE DEF h
  <2>3. h1 = [cap |-> om.cap, max |-> om.max, count |-> om.count, mem |-> mem,
              nxt |-> om.nxt, id |-> om.id]
    BY <2>1
  <2> HIDE DEF h1
  <2>4. h2 = [cap |-> om.cap, max |-> om.max, count |-> om.count, mem |-> mem,
              nxt |-> om.nxt, id |-> id]
    BY <2>3
  <2> HIDE DEF h2
  <2>5. h3 = [cap |-> om.cap, max |-> om.max, count |-> om.count, mem |-> mem,
              nxt |-> nxt, id |-> id]
    BY <2>4
  <2> HIDE DEF h3
  <2>6. h4 = [cap |-> om.cap, max |-> om.max, count |-> om.count + 1, mem |-> mem,
              nxt |-> nxt, id |-> id]
    BY <2>5
  <2> HIDE DEF h4
  <2> QED
    BY ONLY <2>2, <2>6
<1> HIDE DEF h, o
<1>8. /\ h.cap = om.cap /\ h.max = max /\ h.count = om.count + 1 /\ h.mem = mem /\ h.nxt = nxt /\ h.id = id
      /\ h = [cap |-> h.cap, max |-> h.max, count |-> h.count, mem |-> h.mem, nxt |-> h.nxt, id |-> h.id]
  BY <1>7
<1>9. IsFiniteSet(S \union {n}) /\ Cardinality(S \union {n}) = om.count + 1
  BY <1>2, FS_AddElement
<1>10. Shaped(h)
  BY <1>1, <1>2, <1>4, <1>5, <1>8, <1>9, <1>m DEF Shaped
<1>11. PICK l : Chains(om, S, l)
  BY DEF Managed
<1>12. Chains(h, S, l)
  <2>1. \A q \in Names : Slot(h, q) = Slot(om, q)
    BY <1>8 DEF Slot
  <2>2. ASSUME NEW s \in DOMAIN l PROVE Linked(h, s, l[s])
    <3>1. Linked(om, s, l[s]) /\ \A k \in 1 .. Len(l[s]) : l[s][k] \in S
      BY <1>11 DEF Chains, Linked
    <3>2. h.mem[s] = om.mem[s]
      <4>1. s \in om.cap .. 3 * om.cap - 1
        BY <1>11 DEF Chains
      <4>2. s \in DOMAIN om.mem /\ s # i
        BY <1>1, <1>2, <4>1
      <4> QED
        BY <1>4, <1>8, <4>2
    <3>3. \A k \in 1 .. Len(l[s]) : h.nxt[l[s][k]] = om.nxt[l[s][k]]
      BY <1>5, <1>8, <3>1
    <3> QED
      BY <3>1, <3>2, <3>3 DEF Linked
  <2>3. DOMAIN l = h.cap .. 3 * h.cap - 1
    BY <1>8, <1>11 DEF Chains
  <2>4. \A s \in DOMAIN l, q \in Names : (\E k \in 1 .. Len(l[s]) : l[s][k] = q) <=> q \in S /\ Slot(h, q) = s
    BY <1>11, <2>1 DEF Chains
  <2> QED
    BY <1>2, <2>2, <2>3, <2>4 DEF Chains
<1>13. /\ Shaped(o) /\ o.cap = h.cap /\ o.max = h.max /\ o.count = h.count /\ o.id = h.id
       /\ \A j \in 0 .. h.cap - 1 : o.mem[j] = h.mem[j]
       /\ DOMAIN o.nxt = DOMAIN h.nxt \union {n}
       /\ \E q : Chains(o, S \union {n}, q)
  <2>1. S \subseteq DOMAIN h.nxt /\ h.cap # 0
    BY <1>1, <1>5, <1>8
  <2> QED
    BY <1>3, <1>10, <1>12, <2>1, HashAddIs
<1>14. \A j \in 0 .. om.cap - 1 : o.mem[j] = IF j = i THEN n ELSE om.mem[j]
  <2>1. \A j \in 0 .. om.cap - 1 : j \in DOMAIN om.mem
    BY <1>1, <1>2
  <2> QED
    BY <1>4, <1>8, <1>13, <2>1
<1>15. Managed(o, S \union {n})
  <2>1. \A j \in 0 .. o.cap - 1 : o.mem[j] = NoObj \/ (o.mem[j] \in S \union {n} /\ o.id[o.mem[j]] = j)
    <3>1. ASSUME NEW j \in 0 .. om.cap - 1
          PROVE  o.mem[j] = NoObj \/ (o.mem[j] \in S \union {n} /\ o.id[o.mem[j]] = j)
      <4>1. CASE j = i
        BY <1>6, <1>8, <1>13, <1>14, <4>1
      <4>2. CASE j # i
        BY <1>2, <1>6, <1>8, <1>13, <1>14, <4>2
      <4> QED
        BY <4>1, <4>2
    <3> QED
      BY <1>8, <1>13, <3>1
  <2>2. \A q \in S \union {n} : o.mem[o.id[q]] = q /\ o.id[q] < o.max
    <3>1. ASSUME NEW q \in S PROVE o.mem[o.id[q]] = q /\ o.id[q] < o.max
      <4>1. o.id[q] = om.id[q] /\ om.id[q] \in 0 .. om.cap - 1 /\ om.mem[om.id[q]] = q /\ om.id[q] < om.max
        BY <1>2, <1>6, <1>8, <1>13
      <4>2. om.id[q] # i
        BY <1>2, <4>1, ObjmAssumption
      <4>3. om.id[q] < max
        BY <1>1, <1>m, <4>1
      <4> QED
        BY <1>8, <1>13, <1>14, <4>1, <4>2, <4>3
    <3>2. o.mem[o.id[n]] = n /\ o.id[n] < o.max
      BY <1>6, <1>8, <1>13, <1>14, <1>m
    <3> QED
      BY <3>1, <3>2
  <2>3. o.max <= o.cap /\ o.count = Cardinality(S \union {n}) /\ DOMAIN o.nxt = S \union {n}
        /\ o.id \in [S \union {n} -> 0 .. o.cap - 1]
    BY <1>5, <1>6, <1>8, <1>9, <1>13, <1>m
  <2> QED
    BY <1>2, <1>9, <1>13, <2>1, <2>2, <2>3 DEF Managed
<1> QED
  BY <1>8, <1>13, <1>15 DEF o, id

\* As many objects as places at most.
LEMMA Room ==
    ASSUME NEW om, NEW S, Managed(om, S)
    PROVE  Cardinality(S) \in Nat /\ Cardinality(S) <= om.cap /\ om.cap \in Nat
<1>1. om.cap \in Nat /\ IsFiniteSet(S) /\ om.id \in [S -> 0 .. om.cap - 1]
  BY DEF Managed, Shaped
<1>2. IsFiniteSet(0 .. om.cap - 1) /\ Cardinality(0 .. om.cap - 1) = om.cap
  <2>1. 0 \in Int /\ om.cap - 1 \in Int
    BY <1>1
  <2>2. IsFiniteSet(0 .. om.cap - 1)
        /\ Cardinality(0 .. om.cap - 1) = IF 0 > om.cap - 1 THEN 0 ELSE om.cap - 1 - 0 + 1
    BY ONLY <2>1, FS_Interval
  <2> QED
    BY <1>1, <2>2
<1>3. Cardinality(S) \in Nat
  BY <1>1, FS_CardinalityType
<1>4. ASSUME om.cap < Cardinality(S) PROVE FALSE
  <2>1. \E x, y \in S : x # y /\ om.id[x] = om.id[y]
    BY <1>1, <1>2, <1>4, FS_PigeonHole
  <2> QED
    BY <2>1, IdsDiffer
<1> QED
  BY <1>1, <1>3, <1>4

\* The least free place, unless all are taken.
LEMMA LeastFree ==
    ASSUME NEW om, NEW S, Managed(om, S), om.count # om.cap
    PROVE  LET i == Min({j \in 0 .. (om.cap - 1) : om.mem[j] = NoObj})
           IN  /\ i \in 0 .. om.cap - 1 /\ om.mem[i] = NoObj /\ i <= Cardinality(S)
               /\ \A j \in 0 .. i - 1 : \E m \in S : om.id[m] = j
<1> DEFINE n == Cardinality(S)
           F == {j \in 0 .. (om.cap - 1) : om.mem[j] = NoObj}
           i == Min(F)
<1>1. n \in Nat /\ n < om.cap /\ om.cap \in Nat
  <2>1. n \in Nat /\ n <= om.cap /\ om.cap \in Nat
    BY Room
  <2>2. om.count = n
    BY DEF Managed
  <2> QED
    BY ONLY <2>1, <2>2, om.count # om.cap
<1>2. \A j \in 0 .. om.cap - 1 : om.mem[j] = NoObj \/ (om.mem[j] \in S /\ om.id[om.mem[j]] = j)
  BY DEF Managed
<1>3. \E j \in 0 .. n : om.mem[j] = NoObj
  <2>1. SUFFICES ASSUME \A j \in 0 .. n : om.mem[j] # NoObj PROVE FALSE
    OBVIOUS
  <2> DEFINE f == [k \in 1 .. n + 1 |-> om.mem[k - 1]]
  <2>2. ASSUME NEW k \in 1 .. n + 1 PROVE f[k] \in S /\ om.id[f[k]] = k - 1
    <3>1. k - 1 \in 0 .. n /\ k - 1 \in 0 .. om.cap - 1 /\ f[k] = om.mem[k - 1]
      BY <1>1
    <3> QED
      BY <1>2, <2>1, <3>1
  <2>3. f \in [1 .. n + 1 -> S]
    BY <2>2
  <2>4. \A j, k \in 1 .. n + 1 : f[j] = f[k] => j = k
    <3> HIDE DEF f
    <3>1. ASSUME NEW j \in 1 .. n + 1, NEW k \in 1 .. n + 1, f[j] = f[k] PROVE j = k
      <4>1. j - 1 = k - 1 /\ j \in Int /\ k \in Int
        BY <1>1, <2>2, <3>1
      <4> QED
        BY <4>1
    <3> QED
      BY <3>1
  <2> HIDE DEF f
  <2>5. IsFiniteSet(S) /\ n + 1 \in Nat
    BY <1>1 DEF Managed
  <2>6. n + 1 <= Cardinality(S)
    BY <2>3, <2>4, <2>5, Fits
  <2> QED
    BY <1>1, <2>6
<1>4. PICK j0 \in 0 .. n : om.mem[j0] = NoObj
  BY <1>3
<1>5. j0 \in F
  BY <1>1, <1>4
<1>6. PICK m \in F : \A k \in F : m <= k
  <2>1. F \subseteq Nat /\ F # {}
    BY <1>1, <1>5
  <2> HIDE DEF F
  <2> QED
    BY <2>1, LeastNumber
<1>7. i \in F /\ \A k \in F : i <= k
  BY <1>6 DEF Min
<1>8. i \in 0 .. om.cap - 1 /\ om.mem[i] = NoObj /\ i <= n
  BY <1>1, <1>4, <1>5, <1>7
<1>9. ASSUME NEW j \in 0 .. i - 1 PROVE \E q \in S : om.id[q] = j
  <2>1. j \in 0 .. om.cap - 1 /\ ~(i <= j)
    BY <1>1, <1>8
  <2>2. j \notin F
    BY <1>7, <2>1
  <2> QED
    BY <1>2, <2>1, <2>2
<1> QED
  BY <1>8, <1>9

\* The id that a new object gets.
NewId(om, S, xoid, i) ==
    /\ i \in Nat /\ \A m \in S : om.id[m] # i
    /\ IF xoid < 0 THEN i <= Cardinality(S) /\ \A j \in 0 .. i - 1 : \E m \in S : om.id[m] = j
       ELSE i = xoid

LEMMA AddIs ==
    ASSUME NEW om, NEW S, Managed(om, S), NEW n \in Names, n \notin S, NEW xoid \in Int,
           ~Overruns(om, xoid), xoid >= 0 => \A m \in S : om.id[m] # xoid
    PROVE  /\ Managed(Add(om, n, xoid), S \union {n})
           /\ \E i : NewId(om, S, xoid, i) /\ Add(om, n, xoid).id = With(om.id, n, i)
<1> DEFINE g == Grown(om, xoid)
           i == IF xoid < 0 THEN Min({j \in 0 .. (g.cap - 1) : g.mem[j] = NoObj}) ELSE xoid
<1>1. Add(om, n, xoid) = Put(g, n, i)
  BY DEF Add, Place
<1>2. om.cap \in Nat /\ om.count \in Nat
  BY DEF Managed, Shaped
<1>3. /\ Managed(g, S) /\ g.id = om.id /\ g.count # g.cap /\ (xoid >= 0 => xoid < g.cap) /\ g.cap \in Nat
  <2>1. CASE MustGrow(om, xoid)
    <3>1. g = Grow(om, xoid)
      BY <2>1 DEF Grown
    <3>2. Managed(g, S) /\ g.cap > om.cap /\ g.cap > xoid /\ g.id = om.id
      BY <3>1, GrowIs
    <3>3. om.count <= om.cap /\ g.count = om.count /\ g.cap \in Nat
      <4>1. Cardinality(S) <= om.cap /\ om.count = Cardinality(S) /\ g.count = Cardinality(S)
        BY <3>2, Room DEF Managed
      <4> QED
        BY <3>2, <4>1 DEF Managed, Shaped
    <3> HIDE DEF g
    <3> QED
      BY <1>2, <3>2, <3>3
  <2>2. CASE ~MustGrow(om, xoid)
    <3>1. g = om
      BY <2>2 DEF Grown
    <3>2. om.count # om.cap /\ ~(xoid > om.cap) /\ xoid # om.cap
      BY <2>2 DEF MustGrow, Overruns
    <3> HIDE DEF g
    <3> QED
      BY <1>2, <3>1, <3>2
  <2> QED
    BY <2>1, <2>2
<1> HIDE DEF g
<1>4. i \in 0 .. g.cap - 1 /\ g.mem[i] = NoObj /\ NewId(om, S, xoid, i)
  <2>1. CASE xoid < 0
    <3>1. i = Min({j \in 0 .. (g.cap - 1) : g.mem[j] = NoObj})
      BY <2>1
    <3>2. /\ i \in 0 .. g.cap - 1 /\ g.mem[i] = NoObj /\ i <= Cardinality(S)
          /\ \A j \in 0 .. i - 1 : \E m \in S : g.id[m] = j
      <4> HIDE DEF i
      <4>1. LET k == Min({j \in 0 .. (g.cap - 1) : g.mem[j] = NoObj})
            IN  /\ k \in 0 .. g.cap - 1 /\ g.mem[k] = NoObj /\ k <= Cardinality(S)
                /\ \A j \in 0 .. k - 1 : \E m \in S : g.id[m] = j
        BY ONLY <1>3, LeastFree, Zenon
      <4> QED
        BY ONLY <3>1, <4>1, Zenon
    <3> HIDE DEF i
    <3>3. \A m \in S : g.id[m] # i
      <4>1. S \subseteq Names /\ \A m \in S : g.mem[g.id[m]] = m
        BY <1>3 DEF Managed
      <4>2. NoObj \notin S
        BY <4>1, ObjmAssumption
      <4> QED
        BY <3>2, <4>1, <4>2
    <3>4. i \in Nat
      BY <1>3, <3>2
    <3> QED
      BY <1>3, <2>1, <3>2, <3>3, <3>4 DEF NewId
  <2>2. CASE ~(xoid < 0)
    <3>1. i = xoid /\ xoid \in 0 .. g.cap - 1
      BY <1>3, <2>2
    <3>2. \A m \in S : g.id[m] # xoid
      BY <1>3, <2>2
    <3>3. g.mem[xoid] = NoObj
      BY <1>3, <3>1, <3>2 DEF Managed
    <3> QED
      BY <1>3, <2>2, <3>1, <3>2, <3>3 DEF NewId
  <2> QED
    BY <2>1, <2>2
<1> HIDE DEF i
<1>5. Managed(Put(g, n, i), S \union {n}) /\ Put(g, n, i).id = With(g.id, n, i)
  BY <1>3, <1>4, PutIs
<1> QED
  BY <1>1, <1>3, <1>4, <1>5

\* The greatest of a set of numbers that none exceeds.
LEMMA MaxIs ==
    ASSUME NEW T, T \subseteq Int, T # {}, NEW b \in Int, \A t \in T : t <= b
    PROVE  Max(T) \in T /\ \A t \in T : t <= Max(T)
<1> DEFINE D == {b - t : t \in T}
<1>1. D \subseteq Nat /\ D # {}
  <2>1. \A t \in T : t \in Int /\ b - t \in Nat
    OBVIOUS
  <2>2. PICK t \in T : TRUE
    OBVIOUS
  <2> QED
    BY <2>1, <2>2
<1>2. PICK m \in D : \A k \in D : m <= k
  <2> HIDE DEF D
  <2> QED
    BY <1>1, LeastNumber
<1>3. PICK x \in T : m = b - x
  BY <1>2
<1>4. \A t \in T : x >= t
  <2>1. ASSUME NEW t \in T PROVE x >= t
    <3>1. m <= b - t /\ x \in Int /\ t \in Int
      BY <1>2
    <3> QED
      BY <1>3, <3>1
  <2> QED
    BY <2>1
<1>5. Max(T) \in T /\ \A t \in T : Max(T) >= t
  BY <1>4, Zenon DEF Max
<1>6. \A t \in T : t \in Int
  OBVIOUS
<1> QED
  BY <1>5, <1>6

\* The chain of s without its k-th object.
Cut(c, k) == [j \in 1 .. Len(c) - 1 |-> IF j < k THEN c[j] ELSE c[j + 1]]

LEMMA CutIs ==
    ASSUME NEW c \in Seq(Names), NEW k \in 1 .. Len(c), \A i, j \in 1 .. Len(c) : c[i] = c[j] => i = j
    PROVE  /\ Cut(c, k) \in Seq(Names) /\ Len(Cut(c, k)) = Len(c) - 1
           /\ \A j \in 1 .. Len(c) - 1 : Cut(c, k)[j] = IF j < k THEN c[j] ELSE c[j + 1]
           /\ \A i, j \in 1 .. Len(c) - 1 : Cut(c, k)[i] = Cut(c, k)[j] => i = j
           /\ \A n \in Names : (\E j \in 1 .. Len(c) - 1 : Cut(c, k)[j] = n)
                                  <=> (\E j \in 1 .. Len(c) : c[j] = n) /\ n # c[k]
<1> DEFINE d == Cut(c, k)
           l == Len(c)
<1>1. l \in Nat /\ l - 1 \in Nat /\ k \in Nat
  OBVIOUS
<1>2. \A j \in 1 .. l - 1 : d[j] = IF j < k THEN c[j] ELSE c[j + 1]
  BY DEF Cut
<1>3. ASSUME NEW j \in 1 .. l - 1 PROVE j \in 1 .. l /\ j + 1 \in 1 .. l /\ j \in Nat
  BY <1>1
<1>4. d \in Seq(Names) /\ Len(d) = l - 1
  <2>1. d \in [1 .. l - 1 -> Names]
    BY <1>3 DEF Cut
  <2> QED
    BY <1>1, <2>1
<1> HIDE DEF d
<1>5. ASSUME NEW i \in 1 .. l - 1, NEW j \in 1 .. l - 1, d[i] = d[j] PROVE i = j
  <2>1. (IF i < k THEN i ELSE i + 1) = (IF j < k THEN j ELSE j + 1)
    BY <1>2, <1>3, <1>5
  <2> QED
    BY <1>1, <2>1
<1>6. ASSUME NEW n \in Names, NEW j \in 1 .. l - 1, d[j] = n
      PROVE  (\E i \in 1 .. l : c[i] = n) /\ n # c[k]
  <2> DEFINE i == IF j < k THEN j ELSE j + 1
  <2>1. i \in 1 .. l /\ c[i] = n /\ i # k
    BY <1>1, <1>2, <1>3, <1>6
  <2> QED
    BY <2>1
<1>7. ASSUME NEW n \in Names, NEW i \in 1 .. l, c[i] = n, n # c[k]
      PROVE  \E j \in 1 .. l - 1 : d[j] = n
  <2>1. i # k
    BY <1>7
  <2>2. CASE i < k
    <3>1. i \in 1 .. l - 1 /\ d[i] = c[i]
      BY <1>1, <1>2, <2>2
    <3> QED
      BY <1>7, <3>1
  <2>3. CASE ~(i < k)
    <3>1. i - 1 \in 1 .. l - 1 /\ ~(i - 1 < k) /\ (i - 1) + 1 = i
      BY <1>1, <2>1, <2>3
    <3>2. d[i - 1] = c[i]
      BY <1>2, <3>1
    <3> QED
      BY <1>7, <3>1, <3>2
  <2> QED
    BY <2>2, <2>3
<1>8. \A n \in Names : (\E j \in 1 .. l - 1 : d[j] = n) <=> (\E j \in 1 .. l : c[j] = n) /\ n # c[k]
  BY <1>6, <1>7
<1> QED
  BY <1>2, <1>4, <1>5, <1>8 DEF d

\* u is the manager after an object has left its chain.
Unlinked(om, S, n, u) ==
    /\ u = [cap |-> om.cap, max |-> om.max, count |-> om.count, mem |-> u.mem,
            nxt |-> u.nxt, id |-> om.id]
    /\ DOMAIN u.mem = DOMAIN om.mem /\ u.mem = [i \in DOMAIN u.mem |-> u.mem[i]]
    /\ \A i \in 0 .. om.cap - 1 : u.mem[i] = om.mem[i]
    /\ DOMAIN u.nxt = S /\ u.nxt = [q \in S |-> u.nxt[q]]
    /\ \E m : /\ DOMAIN m = om.cap .. 3 * om.cap - 1
              /\ \A t \in DOMAIN m :
                   /\ Linked(u, t, m[t])
                   /\ \A q \in Names : (\E k \in 1 .. Len(m[t]) : m[t][k] = q)
                                          <=> q \in S \ {n} /\ Slot(om, q) = t

LEMMA UnlinkIs ==
    ASSUME NEW om, NEW S, Managed(om, S), NEW n \in S
    PROVE  Unlinked(om, S, n, Unlink(om, n, Slot(om, n), Chain(om, Slot(om, n))))
<1> DEFINE s == Slot(om, n)
           u == Unlink(om, n, s, Chain(om, s))
<1>1. /\ Shaped(om) /\ S \subseteq Names /\ DOMAIN om.nxt = S /\ om.cap \in Nat \ {0} /\ n \in Names
      /\ om.id \in [S -> 0 .. om.cap - 1] /\ DOMAIN om.mem = 0 .. 3 * om.cap - 1
      /\ om = [cap |-> om.cap, max |-> om.max, count |-> om.count, mem |-> om.mem,
               nxt |-> om.nxt, id |-> om.id]
      /\ om.mem = [i \in DOMAIN om.mem |-> om.mem[i]] /\ om.nxt = [q \in S |-> om.nxt[q]]
  <2>1. Shaped(om) /\ S \subseteq Names /\ DOMAIN om.nxt = S /\ om.id \in [S -> 0 .. om.cap - 1]
    BY DEF Managed
  <2>2. /\ om.cap \in Nat /\ DOMAIN om.mem = 0 .. 3 * om.cap - 1
        /\ om = [cap |-> om.cap, max |-> om.max, count |-> om.count, mem |-> om.mem,
                 nxt |-> om.nxt, id |-> om.id]
        /\ om.mem = [i \in DOMAIN om.mem |-> om.mem[i]] /\ om.nxt = [q \in DOMAIN om.nxt |-> om.nxt[q]]
    BY <2>1 DEF Shaped
  <2>3. om.cap # 0
    BY <2>1, <2>2
  <2> QED
    BY <2>1, <2>2, <2>3
<1>2. PICK l : Chains(om, S, l)
  BY DEF Managed
<1> DEFINE c == l[s]
<1>3. s \in om.cap .. 3 * om.cap - 1 /\ s \in DOMAIN l /\ s \in DOMAIN om.mem
  <2>1. s \in om.cap .. 3 * om.cap - 1
    BY <1>1, SlotIn
  <2> QED
    BY <1>1, <1>2, <2>1 DEF Chains
<1>4. Chain(om, s) = c
  BY <1>1, <1>2, <1>3, ChainOf
<1>5. /\ c \in Seq(Names) /\ \A i, j \in 1 .. Len(c) : c[i] = c[j] => i = j
      /\ om.mem[s] = IF Len(c) = 0 THEN NoObj ELSE c[1]
      /\ \A k \in 1 .. Len(c) : om.nxt[c[k]] = IF k = Len(c) THEN NoObj ELSE c[k + 1]
      /\ \A q \in Names : (\E k \in 1 .. Len(c) : c[k] = q) <=> q \in S /\ Slot(om, q) = s
  BY <1>2, <1>3 DEF Chains, Linked
<1> HIDE DEF s, c
<1> DEFINE k == CHOOSE j \in 0 .. Len(c) : IF Contains(c, n) THEN j # 0 /\ c[j] = n ELSE j = 0
<1>6. k \in 1 .. Len(c) /\ c[k] = n
  <2>1. PICK j \in 1 .. Len(c) : c[j] = n
    BY <1>1, <1>5 DEF s
  <2>2. Contains(c, n) /\ j \in 0 .. Len(c) /\ j # 0
    BY <2>1 DEF Contains
  <2>3. k \in 0 .. Len(c) /\ k # 0 /\ c[k] = n
    BY <2>1, <2>2
  <2> HIDE DEF k
  <2> QED
    BY <2>3
<1>7. u = CASE k = 0 -> om
            [] k = 1 -> [om EXCEPT !.mem[s] = om.nxt[n]]
            [] OTHER -> [om EXCEPT !.nxt[c[k - 1]] = om.nxt[n]]
  BY <1>4, Zenon DEF Unlink
<1> HIDE DEF k
<1> DEFINE e == om.nxt[n]
           mem == IF k = 1 THEN [om.mem EXCEPT ![s] = e] ELSE om.mem
           nxt == IF k = 1 THEN om.nxt ELSE [om.nxt EXCEPT ![c[k - 1]] = e]
           d == Cut(c, k)
           m == [l EXCEPT ![s] = d]
<1>8. u = [cap |-> om.cap, max |-> om.max, count |-> om.count, mem |-> mem, nxt |-> nxt, id |-> om.id]
  <2> HIDE DEF e, u
  <2>1. CASE k = 1
    <3>1. u = [om EXCEPT !.mem = [om.mem EXCEPT ![s] = e]]
      BY <1>7, <2>1 DEF e
    <3>2. mem = [om.mem EXCEPT ![s] = e] /\ nxt = om.nxt
      BY <2>1
    <3> HIDE DEF mem, nxt
    <3> QED
      BY <1>1, <3>1, <3>2
  <2>2. CASE k # 1
    <3>1. u = [om EXCEPT !.nxt = [om.nxt EXCEPT ![c[k - 1]] = e]]
      BY <1>6, <1>7, <2>2 DEF e
    <3>2. mem = om.mem /\ nxt = [om.nxt EXCEPT ![c[k - 1]] = e]
      BY <2>2
    <3> HIDE DEF mem, nxt
    <3> QED
      BY <1>1, <3>1, <3>2
  <2> QED
    BY <2>1, <2>2
<1>9. /\ DOMAIN mem = DOMAIN om.mem /\ mem = [i \in DOMAIN mem |-> mem[i]]
      /\ \A i \in DOMAIN om.mem : mem[i] = IF k = 1 /\ i = s THEN e ELSE om.mem[i]
  <2> HIDE DEF e
  <2> QED
    BY <1>1, <1>3
<1>10. /\ DOMAIN nxt = S /\ nxt = [q \in S |-> nxt[q]]
       /\ \A q \in S : nxt[q] = IF k # 1 /\ q = c[k - 1] THEN e ELSE om.nxt[q]
  <2> HIDE DEF e
  <2> QED
    BY <1>1
<1> HIDE DEF mem, nxt, u
<1>11. u.mem = mem /\ u.nxt = nxt
  BY <1>8
<1>12. Len(c) \in Nat /\ k \in Nat /\ e = IF k = Len(c) THEN NoObj ELSE c[k + 1]
  BY <1>5, <1>6
<1> HIDE DEF e
<1>13. /\ d \in Seq(Names) /\ Len(d) = Len(c) - 1
       /\ \A j \in 1 .. Len(c) - 1 : d[j] = IF j < k THEN c[j] ELSE c[j + 1]
       /\ \A i, j \in 1 .. Len(c) - 1 : d[i] = d[j] => i = j
       /\ \A q \in Names : (\E j \in 1 .. Len(c) - 1 : d[j] = q)
                              <=> (\E j \in 1 .. Len(c) : c[j] = q) /\ q # c[k]
  <2>1. c \in Seq(Names) /\ k \in 1 .. Len(c) /\ \A i, j \in 1 .. Len(c) : c[i] = c[j] => i = j
    BY <1>5, <1>6
  <2> QED
    BY ONLY <2>1, CutIs, Zenon
<1>14. m[s] = d /\ DOMAIN m = DOMAIN l /\ \A t \in DOMAIN l : t # s => m[t] = l[t]
  BY <1>3
<1> HIDE DEF m, d
<1>15. Linked(u, s, d)
  <2>1. u.mem[s] = IF Len(d) = 0 THEN NoObj ELSE d[1]
    <3>1. mem[s] = IF k = 1 THEN e ELSE om.mem[s]
      BY <1>3, <1>9
    <3>2. CASE k = 1
      <4>1. CASE Len(c) = 1
        BY <1>11, <1>12, <1>13, <3>1, <3>2, <4>1
      <4>2. CASE Len(c) # 1
        <5>1. 1 \in 1 .. Len(c) - 1 /\ ~(1 < k) /\ Len(d) # 0 /\ k # Len(c) /\ k + 1 = 1 + 1
          BY <1>6, <1>12, <1>13, <3>2, <4>2
        <5> QED
          BY <1>11, <1>12, <1>13, <3>1, <3>2, <5>1
      <4> QED
        BY <4>1, <4>2
    <3>3. CASE k # 1
      <4>1. 1 \in 1 .. Len(c) - 1 /\ 1 < k /\ Len(d) # 0 /\ Len(c) # 0
        BY <1>6, <1>12, <1>13, <3>3
      <4> QED
        BY <1>5, <1>11, <1>13, <3>1, <3>3, <4>1
    <3> QED
      BY <3>2, <3>3
  <2>2. ASSUME NEW j \in 1 .. Len(d) PROVE u.nxt[d[j]] = IF j = Len(d) THEN NoObj ELSE d[j + 1]
    <3>1. j \in 1 .. Len(c) - 1 /\ j \in 1 .. Len(c) /\ j + 1 \in 1 .. Len(c) /\ j \in Nat
      BY <1>12, <1>13
    <3>2. j # Len(d) => j + 1 \in 1 .. Len(c) - 1
      BY <1>12, <1>13, <3>1
    <3>3. \A i \in 1 .. Len(c) : c[i] \in S
      <4>1. \A i \in 1 .. Len(c) : c[i] \in Names
        BY <1>5
      <4> QED
        BY <1>5, <4>1
    <3>4. CASE j < k
      <4>1. d[j] = c[j]
        BY <1>13, <3>1, <3>4
      <4>2. nxt[c[j]] = IF k # 1 /\ c[j] = c[k - 1] THEN e ELSE om.nxt[c[j]]
        BY <1>10, <3>1, <3>3
      <4>3. k - 1 \in 1 .. Len(c)
        BY <1>6, <1>12, <3>1, <3>4
      <4>4. c[j] = c[k - 1] <=> j = k - 1
        BY <1>5, <3>1, <4>3
      <4>5. CASE j = k - 1
        <5>1. nxt[c[j]] = e
          BY <3>1, <4>2, <4>4, <4>5
        <5>2. CASE k = Len(c)
          BY <1>11, <1>12, <1>13, <4>1, <4>5, <5>1, <5>2
        <5>3. CASE k # Len(c)
          <6>1. j # Len(d) /\ ~(j + 1 < k) /\ (j + 1) + 1 = k + 1
            BY <1>12, <1>13, <3>1, <4>5, <5>3
          <6>2. d[j + 1] = c[k + 1]
            BY <1>13, <3>2, <6>1
          <6> QED
            BY <1>11, <1>12, <4>1, <5>1, <5>3, <6>1, <6>2
        <5> QED
          BY <5>2, <5>3
      <4>6. CASE j # k - 1
        <5>1. nxt[c[j]] = om.nxt[c[j]]
          BY <4>2, <4>4, <4>6
        <5>2. j + 1 < k /\ j # Len(c) /\ j # Len(d)
          BY <1>6, <1>12, <1>13, <3>1, <3>4, <4>6
        <5>3. om.nxt[c[j]] = c[j + 1]
          BY <1>5, <3>1, <5>2
        <5>4. d[j + 1] = c[j + 1]
          BY <1>13, <3>2, <5>2
        <5> QED
          BY <1>11, <4>1, <5>1, <5>2, <5>3, <5>4
      <4> QED
        BY <4>5, <4>6
    <3>5. CASE ~(j < k)
      <4>1. d[j] = c[j + 1]
        BY <1>13, <3>1, <3>5
      <4>2. nxt[c[j + 1]] = IF k # 1 /\ c[j + 1] = c[k - 1] THEN e ELSE om.nxt[c[j + 1]]
        BY <1>10, <3>1, <3>3
      <4>3. k # 1 => k - 1 \in 1 .. Len(c) /\ j + 1 # k - 1
        BY <1>6, <1>12, <3>1, <3>5
      <4>4. nxt[c[j + 1]] = om.nxt[c[j + 1]]
        BY <1>5, <3>1, <4>2, <4>3
      <4>5. om.nxt[c[j + 1]] = IF j + 1 = Len(c) THEN NoObj ELSE c[(j + 1) + 1]
        BY <1>5, <3>1
      <4>6. CASE j = Len(d)
        BY <1>11, <1>12, <1>13, <3>1, <4>1, <4>4, <4>5, <4>6
      <4>7. CASE j # Len(d)
        <5>1. ~(j + 1 < k) /\ j + 1 # Len(c)
          BY <1>12, <1>13, <3>1, <3>5, <4>7
        <5>2. d[j + 1] = c[(j + 1) + 1]
          BY <1>13, <3>2, <4>7, <5>1
        <5> QED
          BY <1>11, <4>1, <4>4, <4>5, <4>7, <5>1, <5>2
      <4> QED
        BY <4>6, <4>7
    <3> QED
      BY <3>4, <3>5
  <2> QED
    BY <1>13, <2>1, <2>2 DEF Linked
<1>16. ASSUME NEW t \in DOMAIN l, t # s PROVE Linked(u, t, l[t])
  <2>1. Linked(om, t, l[t]) /\ \A i \in 1 .. Len(l[t]) : l[t][i] \in S /\ Slot(om, l[t][i]) = t
    BY <1>2 DEF Chains, Linked
  <2>2. u.mem[t] = om.mem[t]
    <3>1. t \in DOMAIN om.mem
      BY <1>1, <1>2 DEF Chains
    <3> QED
      BY <1>9, <1>11, <1>16, <3>1
  <2>3. ASSUME NEW i \in 1 .. Len(l[t]) PROVE u.nxt[l[t][i]] = om.nxt[l[t][i]]
    <3>1. l[t][i] \in S /\ Slot(om, l[t][i]) = t
      BY <2>1
    <3>2. k # 1 => Slot(om, c[k - 1]) = s
      <4>1. k # 1 => k - 1 \in 1 .. Len(c) /\ c[k - 1] \in Names
        BY <1>5, <1>6, <1>12
      <4> QED
        BY <1>5, <4>1
    <3> QED
      BY <1>10, <1>11, <1>16, <3>1, <3>2
  <2> QED
    BY <2>1, <2>2, <2>3 DEF Linked
<1>17. ASSUME NEW t \in DOMAIN m
       PROVE  /\ Linked(u, t, m[t])
              /\ \A q \in Names : (\E i \in 1 .. Len(m[t]) : m[t][i] = q)
                                     <=> q \in S \ {n} /\ Slot(om, q) = t
  <2>1. CASE t = s
    <3>1. \A q \in Names : (\E i \in 1 .. Len(d) : d[i] = q) <=> q \in S /\ Slot(om, q) = s /\ q # n
      BY <1>5, <1>6, <1>13
    <3> QED
      BY <1>14, <1>15, <2>1, <3>1
  <2>2. CASE t # s
    <3>1. \A q \in Names : (\E i \in 1 .. Len(l[t]) : l[t][i] = q) <=> q \in S /\ Slot(om, q) = t
      BY <1>2, <1>14 DEF Chains
    <3>2. Slot(om, n) # t
      BY <2>2 DEF s
    <3> QED
      BY <1>14, <1>16, <2>2, <3>1, <3>2
  <2> QED
    BY <2>1, <2>2
<1>18. DOMAIN m = om.cap .. 3 * om.cap - 1
  BY <1>2, <1>14 DEF Chains
<1>19. \A i \in 0 .. om.cap - 1 : mem[i] = om.mem[i]
  <2>1. \A i \in 0 .. om.cap - 1 : i \in DOMAIN om.mem /\ i # s
    BY <1>1, <1>3
  <2> QED
    BY <1>9, <2>1
<1>20. \E q : /\ DOMAIN q = om.cap .. 3 * om.cap - 1
              /\ \A t \in DOMAIN q :
                   /\ Linked(u, t, q[t])
                   /\ \A p \in Names : (\E i \in 1 .. Len(q[t]) : q[t][i] = p)
                                          <=> p \in S \ {n} /\ Slot(om, p) = t
  BY <1>17, <1>18
<1>21. u = [cap |-> om.cap, max |-> om.max, count |-> om.count, mem |-> u.mem, nxt |-> u.nxt, id |-> om.id]
  BY <1>8, <1>11
<1>22. /\ DOMAIN u.mem = DOMAIN om.mem /\ u.mem = [i \in DOMAIN u.mem |-> u.mem[i]]
       /\ \A i \in 0 .. om.cap - 1 : u.mem[i] = om.mem[i]
       /\ DOMAIN u.nxt = S /\ u.nxt = [q \in S |-> u.nxt[q]]
  BY <1>9, <1>10, <1>11, <1>19
<1>23. Unlinked(om, S, n, u)
  BY ONLY <1>20, <1>21, <1>22, Zenon DEF Unlinked
<1> QED
  BY ONLY <1>23, Zenon DEF u, s

\* What the manager is without n.
LEMMA DelIs ==
    ASSUME NEW om, NEW S, Managed(om, S), NEW n \in S
    PROVE  /\ Managed(Del(om, n), S \ {n})
           /\ Del(om, n).id = Without(om.id, n)
<1> DEFINE s == Slot(om, n)
           u == Unlink(om, n, s, Chain(om, s))
           i == om.id[n]
           mem == [u.mem EXCEPT ![i] = NoObj]
           nxt == Without(u.nxt, n)
           id == Without(om.id, n)
           h == [u EXCEPT !.mem[i] = NoObj, !.count = @ - 1, !.nxt = Without(@, n), !.id = Without(@, n)]
           o == Del(om, n)
           R == S \ {n}
<1>1. /\ om.cap \in Nat /\ om.max \in Nat /\ om.count \in Nat /\ S \subseteq Names /\ IsFiniteSet(S)
      /\ om.count = Cardinality(S) /\ om.max <= om.cap
      /\ om.id \in [S -> 0 .. om.cap - 1] /\ DOMAIN om.mem = 0 .. 3 * om.cap - 1
      /\ \A j \in 0 .. om.cap - 1 : om.mem[j] = NoObj \/ (om.mem[j] \in S /\ om.id[om.mem[j]] = j)
      /\ \A q \in S : om.mem[om.id[q]] = q /\ om.id[q] < om.max
  BY DEF Managed, Shaped
<1>u. Unlinked(om, S, n, u)
  BY UnlinkIs
<1>o. o = Lower(h, i)
  BY DEF Del
<1> HIDE DEF u
<1>2. /\ u = [cap |-> om.cap, max |-> om.max, count |-> om.count, mem |-> u.mem,
              nxt |-> u.nxt, id |-> om.id]
      /\ DOMAIN u.mem = DOMAIN om.mem /\ u.mem = [j \in DOMAIN u.mem |-> u.mem[j]]
      /\ \A j \in 0 .. om.cap - 1 : u.mem[j] = om.mem[j]
      /\ DOMAIN u.nxt = S /\ u.nxt = [q \in S |-> u.nxt[q]]
  BY ONLY <1>u DEF Unlinked
<1>3. PICK m : /\ DOMAIN m = om.cap .. 3 * om.cap - 1
               /\ \A t \in DOMAIN m :
                    /\ Linked(u, t, m[t])
                    /\ \A q \in Names : (\E k \in 1 .. Len(m[t]) : m[t][k] = q)
                                           <=> q \in S \ {n} /\ Slot(om, q) = t
  BY ONLY <1>u DEF Unlinked
<1>5. i \in 0 .. om.cap - 1 /\ i < om.max /\ i \in DOMAIN om.mem /\ i \in Nat
  BY <1>1
<1> HIDE DEF i
<1>6. /\ DOMAIN mem = DOMAIN om.mem /\ mem = [j \in DOMAIN mem |-> mem[j]]
      /\ \A j \in DOMAIN om.mem : mem[j] = IF j = i THEN NoObj ELSE u.mem[j]
  BY <1>2, <1>5
<1>7. /\ DOMAIN nxt = R /\ nxt = [q \in DOMAIN nxt |-> nxt[q]] /\ \A q \in R : nxt[q] = u.nxt[q]
  BY <1>2 DEF Without, Restrict
<1>8. id \in [R -> 0 .. om.cap - 1] /\ \A q \in R : id[q] = om.id[q]
  BY <1>1 DEF Without, Restrict
<1> DEFINE count == om.count - 1
<1>9. IsFiniteSet(R) /\ Cardinality(R) = count /\ count \in Nat
  <2>1. IsFiniteSet(R) /\ Cardinality(R) = Cardinality(S) - 1
    BY <1>1, FS_RemoveElement
  <2>2. Cardinality(R) \in Nat
    BY <2>1, FS_CardinalityType
  <2> QED
    BY <1>1, <2>1, <2>2
<1>10. h = [cap |-> om.cap, max |-> om.max, count |-> count, mem |-> mem, nxt |-> nxt, id |-> id]
  <2>0. u.cap = om.cap /\ u.max = om.max /\ u.count = om.count /\ u.id = om.id
    BY <1>2
  <2> DEFINE h1 == [u EXCEPT !.mem = mem]
             h2 == [h1 EXCEPT !.count = count]
             h3 == [h2 EXCEPT !.nxt = nxt]
  <2>1. h = [h3 EXCEPT !.id = id]
    BY <2>0
  <2> HIDE DEF h, mem, count, nxt, id
  <2>2. h1 = [cap |-> om.cap, max |-> om.max, count |-> om.count, mem |-> mem,
              nxt |-> u.nxt, id |-> om.id]
    BY ONLY <1>2
  <2> HIDE DEF h1
  <2>3. h2 = [cap |-> om.cap, max |-> om.max, count |-> count, mem |-> mem,
              nxt |-> u.nxt, id |-> om.id]
    BY ONLY <2>2
  <2> HIDE DEF h2
  <2>4. h3 = [cap |-> om.cap, max |-> om.max, count |-> count, mem |-> mem,
              nxt |-> nxt, id |-> om.id]
    BY ONLY <2>3
  <2> HIDE DEF h3
  <2> QED
    BY ONLY <2>1, <2>4
<1> HIDE DEF h, mem, nxt, id, count
<1> DEFINE T == {j \in 0..(i - 1) : mem[j] # NoObj} \union {-1}
           max == IF i + 1 = om.max THEN 1 + Max(T) ELSE om.max
<1>11. Max(T) \in T /\ \A t \in T : t <= Max(T)
  <2>1. T \subseteq Int /\ T # {} /\ i \in Int /\ \A t \in T : t <= i
    BY <1>5
  <2> HIDE DEF T
  <2> QED
    BY ONLY <2>1, MaxIs
<1>12. max \in Nat /\ max <= om.cap /\ \A q \in R : id[q] < max
  <2>1. CASE i + 1 = om.max
    <3>1. max = 1 + Max(T) /\ Max(T) \in -1 .. i - 1
      BY <1>5, <1>11, <2>1
    <3>2. ASSUME NEW q \in R PROVE id[q] <= Max(T)
      <4>1. id[q] = om.id[q] /\ om.id[q] \in 0 .. om.cap - 1 /\ om.mem[om.id[q]] = q /\ om.id[q] < om.max
        BY <1>1, <1>8
      <4>2. om.id[q] # i
        BY IdsDiffer DEF i
      <4>3. q # NoObj
        BY <1>1, ObjmAssumption
      <4>4. om.id[q] \in 0 .. i - 1 /\ om.id[q] \in DOMAIN om.mem
        BY <1>1, <1>5, <2>1, <4>1, <4>2
      <4>5. mem[om.id[q]] = q
        BY <1>2, <1>6, <4>1, <4>2, <4>4
      <4>6. om.id[q] \in T
        BY <4>3, <4>4, <4>5
      <4> QED
        BY <1>11, <4>1, <4>6
    <3> HIDE DEF max, T
    <3>3. \A q \in R : id[q] \in Nat
      BY <1>1, <1>8
    <3> QED
      BY <1>1, <1>5, <3>1, <3>2, <3>3, SMTT(40)
  <2>2. CASE i + 1 # om.max
    <3>1. max = om.max
      BY <2>2
    <3> HIDE DEF max
    <3> QED
      BY <1>1, <1>8, <3>1
  <2> QED
    BY <2>1, <2>2
<1>13. o = [cap |-> om.cap, max |-> max, count |-> count, mem |-> mem, nxt |-> nxt, id |-> id]
  <2>1. h.max = om.max /\ h.mem = mem
    BY <1>10
  <2>2. o = IF i + 1 = om.max THEN [h EXCEPT !.max = 1 + Max(T)] ELSE h
    BY <1>o, <2>1 DEF Lower
  <2>3. o = IF i + 1 = om.max THEN [h EXCEPT !.max = max] ELSE h
    BY <2>2
  <2>4. i + 1 # om.max => max = om.max
    OBVIOUS
  <2> HIDE DEF max, o
  <2> QED
    BY ONLY <1>10, <2>3, <2>4
<1> HIDE DEF max, o, T
<1>14. /\ o.cap = om.cap /\ o.max = max /\ o.count = count /\ o.mem = mem /\ o.nxt = nxt /\ o.id = id
       /\ o = [cap |-> o.cap, max |-> o.max, count |-> o.count, mem |-> o.mem, nxt |-> o.nxt, id |-> o.id]
  BY <1>13
<1>15. Shaped(o)
  BY <1>1, <1>6, <1>7, <1>9, <1>12, <1>14 DEF Shaped
<1>16. Chains(o, R, m)
  <2>1. ASSUME NEW t \in DOMAIN m PROVE Linked(o, t, m[t])
    <3>1. Linked(u, t, m[t])
      BY <1>3
    <3>2. o.mem[t] = u.mem[t]
      <4>1. t \in DOMAIN om.mem /\ t # i
        BY <1>1, <1>3, <1>5
      <4> QED
        BY <1>6, <1>14, <4>1
    <3>3. \A k \in 1 .. Len(m[t]) : m[t][k] \in R
      <4>1. \A k \in 1 .. Len(m[t]) : m[t][k] \in Names
        BY <3>1 DEF Linked
      <4> QED
        BY <1>3, <4>1
    <3>4. \A k \in 1 .. Len(m[t]) : o.nxt[m[t][k]] = u.nxt[m[t][k]]
      BY <1>7, <1>14, <3>3
    <3> QED
      BY <3>1, <3>2, <3>4 DEF Linked
  <2>2. \A q \in Names : Slot(o, q) = Slot(om, q)
    BY <1>14 DEF Slot
  <2> QED
    BY <1>1, <1>3, <1>14, <2>1, <2>2 DEF Chains
<1>17. \A j \in 0 .. om.cap - 1 : mem[j] = IF j = i THEN NoObj ELSE om.mem[j]
  <2>1. \A j \in 0 .. om.cap - 1 : j \in DOMAIN om.mem
    BY <1>1
  <2> QED
    BY <1>2, <1>6, <2>1
<1>18. ASSUME NEW j \in 0 .. om.cap - 1 PROVE o.mem[j] = NoObj \/ (o.mem[j] \in R /\ o.id[o.mem[j]] = j)
  <2>1. CASE j = i
    BY <1>14, <1>17, <2>1
  <2>2. CASE j # i
    <3>1. o.mem[j] = om.mem[j]
      BY <1>14, <1>17, <2>2
    <3>2. om.mem[j] = NoObj \/ (om.mem[j] \in S /\ om.id[om.mem[j]] = j)
      BY <1>1
    <3>3. om.mem[j] # NoObj => om.mem[j] # n
      BY <2>2, <3>2 DEF i
    <3> QED
      BY <1>8, <1>14, <3>1, <3>2, <3>3
  <2> QED
    BY <2>1, <2>2
<1>19. ASSUME NEW q \in R PROVE o.mem[o.id[q]] = q /\ o.id[q] < o.max
  <2>1. id[q] = om.id[q] /\ om.id[q] \in 0 .. om.cap - 1 /\ om.mem[om.id[q]] = q
    BY <1>1, <1>8
  <2>2. om.id[q] # i
    BY IdsDiffer DEF i
  <2> QED
    BY <1>12, <1>14, <1>17, <2>1, <2>2
<1>20. Managed(o, R)
  BY <1>1, <1>7, <1>8, <1>9, <1>12, <1>14, <1>15, <1>16, <1>18, <1>19 DEF Managed
<1> QED
  BY <1>14, <1>20 DEF o, id

\* A list of the objects of S in the order of their ids.
InOrder(id, S, c) ==
    /\ c \in Seq(S)
    /\ \A q \in S : \E j \in 1 .. Len(c) : c[j] = q
    /\ \A i, j \in 1 .. Len(c) : i < j => id[c[i]] < id[c[j]]

LEMMA ListedIs ==
    ASSUME NEW om, NEW S, Managed(om, S)
    PROVE  InOrder(om.id, S, Listed(om))
<1>1. /\ om.cap \in Nat /\ om.max \in Nat /\ om.max <= om.cap /\ S \subseteq Names
      /\ om.id \in [S -> 0 .. om.cap - 1]
      /\ \A j \in 0 .. om.cap - 1 : om.mem[j] = NoObj \/ (om.mem[j] \in S /\ om.id[om.mem[j]] = j)
      /\ \A q \in S : om.mem[om.id[q]] = q /\ om.id[q] < om.max
  BY DEF Managed, Shaped
<1>2. PICK f : /\ f = CHOOSE g : g = ListLoop(0 .. om.max, om, g)
               /\ f[0] = <<>>
               /\ \A k \in 1 .. om.max : f[k] = Listing(om, k, f[k - 1])
  <2>1. ListSteps(om.max, om)
    BY <1>1, ListLoopSteps, Zenon
  <2> QED
    BY ONLY <2>1 DEF ListSteps
<1>3. Listed(om) = f[om.max]
  BY <1>2, Zenon DEF Listed, ListLoop, Listing
<1> DEFINE Good(m) == /\ f[m] \in Seq(S)
                      /\ \A j \in 1 .. Len(f[m]) : om.id[f[m][j]] < m
                      /\ \A q \in S : om.id[q] < m => \E j \in 1 .. Len(f[m]) : f[m][j] = q
                      /\ \A i, j \in 1 .. Len(f[m]) : i < j => om.id[f[m][i]] < om.id[f[m][j]]
           B == {m \in 0 .. om.max : Good(m)}
<1>4. 0 \in B
  <2>1. f[0] = <<>>
    BY <1>2
  <2>2. f[0] \in Seq(S) /\ Len(f[0]) = 0
    BY <2>1
  <2>3. \A q \in S : ~(om.id[q] < 0)
    BY <1>1
  <2>4. 0 \in 0 .. om.max
    BY <1>1
  <2> QED
    BY <2>2, <2>3, <2>4
<1>5. ASSUME NEW m \in 0 .. om.max - 1, m \in B PROVE m + 1 \in B
  <2> DEFINE c == f[m]
             d == f[m + 1]
             n == om.mem[m]
  <2>1. /\ c \in Seq(S)
        /\ \A j \in 1 .. Len(c) : om.id[c[j]] < m
        /\ \A q \in S : om.id[q] < m => \E j \in 1 .. Len(c) : c[j] = q
        /\ \A i, j \in 1 .. Len(c) : i < j => om.id[c[i]] < om.id[c[j]]
    BY <1>5
  <2>2. m \in Nat /\ m + 1 \in 1 .. om.max /\ m + 1 \in 0 .. om.max /\ (m + 1) - 1 = m /\ m \in 0 .. om.cap - 1
    BY <1>1
  <2>3. d = IF n = NoObj THEN c ELSE Append(c, n)
    BY <1>2, <2>2 DEF Listing
  <2>4. \A q \in S : om.id[q] \in Nat
    BY <1>1
  <2> HIDE DEF c, d
  <2>5. CASE n = NoObj
    <3>1. \A q \in S : om.id[q] # m
      <4>1. \A q \in S : om.mem[om.id[q]] = q /\ q # NoObj
        BY <1>1, ObjmAssumption
      <4> QED
        BY <2>5, <4>1
    <3>2. d = c
      BY <2>3, <2>5
    <3>3. \A q \in S : om.id[q] < m + 1 => om.id[q] < m
      BY <2>2, <2>4, <3>1
    <3>4. \A j \in 1 .. Len(c) : c[j] \in S
      BY <2>1
    <3>5. Good(m + 1)
      <4>1. \A j \in 1 .. Len(c) : om.id[c[j]] < m + 1
        BY <2>1, <2>2, <2>4, <3>4
      <4> QED
        BY ONLY <2>1, <3>2, <3>3, <4>1 DEF d
    <3> QED
      BY <2>2, <3>5
  <2>6. CASE n # NoObj
    <3>1. n \in S /\ om.id[n] = m
      BY <1>1, <2>2, <2>6
    <3>2. /\ d \in Seq(S) /\ Len(d) = Len(c) + 1 /\ Len(c) \in Nat
          /\ \A j \in 1 .. Len(c) : d[j] = c[j]
          /\ d[Len(c) + 1] = n
      <4>1. d = Append(c, n)
        BY <2>3, <2>6
      <4> QED
        BY <2>1, <3>1, <4>1, AppendProperties
    <3>3. \A j \in 1 .. Len(d) : j \in 1 .. Len(c) \/ j = Len(c) + 1
      BY <3>2
    <3>4. \A j \in 1 .. Len(c) : c[j] \in S
      BY <2>1
    <3>5. \A j \in 1 .. Len(d) : om.id[d[j]] < m + 1
      <4>1. ASSUME NEW j \in 1 .. Len(d) PROVE om.id[d[j]] < m + 1
        <5>1. CASE j \in 1 .. Len(c)
          <6>1. d[j] = c[j] /\ om.id[c[j]] < m /\ om.id[c[j]] \in Nat
            BY <2>1, <2>4, <3>2, <3>4, <5>1
          <6> QED
            BY <2>2, <6>1
        <5>2. CASE j = Len(c) + 1
          BY <2>2, <3>1, <3>2, <5>2
        <5> QED
          BY <3>3, <5>1, <5>2
      <4> QED
        BY <4>1
    <3>6. ASSUME NEW q \in S, om.id[q] < m + 1 PROVE \E j \in 1 .. Len(d) : d[j] = q
      <4>1. CASE q = n
        <5>1. Len(c) + 1 \in 1 .. Len(d)
          BY <3>2
        <5> QED
          BY <3>2, <4>1, <5>1
      <4>2. CASE q # n
        <5>1. om.id[q] # m
          BY <3>1, <4>2, IdsDiffer
        <5>2. om.id[q] < m
          BY <2>2, <2>4, <3>6, <5>1
        <5>3. PICK j \in 1 .. Len(c) : c[j] = q
          BY <2>1, <5>2
        <5>4. j \in 1 .. Len(d) /\ d[j] = q
          BY <3>2, <5>3
        <5> QED
          BY <5>4
      <4> QED
        BY <4>1, <4>2
    <3>7. ASSUME NEW i \in 1 .. Len(d), NEW j \in 1 .. Len(d), i < j PROVE om.id[d[i]] < om.id[d[j]]
      <4>1. CASE j = Len(c) + 1
        <5>1. i \in 1 .. Len(c)
          BY <3>2, <3>3, <3>7, <4>1
        <5> QED
          BY <2>1, <3>1, <3>2, <4>1, <5>1
      <4>2. CASE j \in 1 .. Len(c)
        <5>1. i \in 1 .. Len(c)
          BY <3>2, <3>3, <3>7, <4>2
        <5> QED
          BY <2>1, <3>2, <3>7, <4>2, <5>1
      <4> QED
        BY <3>3, <4>1, <4>2
    <3>8. Good(m + 1)
      BY ONLY <3>2, <3>5, <3>6, <3>7 DEF d
    <3> QED
      BY <2>2, <3>8
  <2> QED
    BY <2>5, <2>6
<1>6. om.max \in B
  <2> HIDE DEF B
  <2>1. om.max \in 0 .. om.max
    BY <1>1
  <2> QED
    BY <1>1, <1>4, <1>5, <2>1, UpTo
<1>7. Good(om.max)
  BY <1>6
<1> QED
  BY <1>1, <1>3, <1>7 DEF InOrder

\* The list has every object once.
LEMMA ListedOnce ==
    ASSUME NEW om, NEW S, Managed(om, S)
    PROVE  /\ Listed(om) \in Seq(S) /\ Range(Listed(om)) = S /\ IsInjective(Listed(om))
           /\ \A i, j \in 1 .. Len(Listed(om)) : Listed(om)[i] = Listed(om)[j] => i = j
<1> DEFINE c == Listed(om)
<1>1. InOrder(om.id, S, c)
  BY ListedIs
<1> HIDE DEF c
<1>2. c \in Seq(S) /\ DOMAIN c = 1 .. Len(c) /\ Len(c) \in Nat
  BY <1>1 DEF InOrder
<1>3. \A j \in 1 .. Len(c) : c[j] \in S /\ om.id[c[j]] \in Int
  <2>1. om.id \in [S -> 0 .. om.cap - 1] /\ om.cap \in Nat
    BY DEF Managed, Shaped
  <2>2. \A j \in 1 .. Len(c) : c[j] \in S
    BY <1>2
  <2>3. \A q \in S : om.id[q] \in Int
    BY ONLY <2>1
  <2> QED
    BY ONLY <2>2, <2>3
<1>4. ASSUME NEW i \in 1 .. Len(c), NEW j \in 1 .. Len(c), c[i] = c[j] PROVE i = j
  <2>1. (i < j => om.id[c[i]] < om.id[c[j]]) /\ (j < i => om.id[c[j]] < om.id[c[i]])
    BY ONLY <1>1, i \in 1 .. Len(c), j \in 1 .. Len(c) DEF InOrder
  <2>2. om.id[c[i]] \in Int /\ om.id[c[j]] = om.id[c[i]]
    BY ONLY <1>3, <1>4, i \in 1 .. Len(c)
  <2>3. ~(i < j) /\ ~(j < i)
    BY ONLY <2>1, <2>2
  <2> QED
    BY <1>2, <2>3
<1>5. Range(c) = S
  BY <1>1, <1>2, <1>3 DEF InOrder, Range
<1>6. IsInjective(c)
  BY <1>2, <1>4 DEF IsInjective
<1> QED
  BY <1>2, <1>4, <1>5, <1>6 DEF c

-------------------------------------------------------------------------------
(* The catalog.  What holds of the engine w between two statements, and of   *)
(* the parts that a statement works on while it runs.                        *)

FileData == [row : Names \union {NoRow}, ix : [Ids -> Int]]
FileSets == UNION {[S -> FileData] : S \in SUBSET Nat}

\* Entries in the order of their ids, under different names.
Sorted(s) ==
    \A j, k \in 1 .. Len(s) : (j < k => s[j].id < s[k].id) /\ (s[j].name = s[k].name => j = k)

IndexLists == {s \in Seq([name : Indexes, id : Ids]) : Sorted(s)}
Entry(d) == [name : Tables[d], id : Nat, opt : Options, indexes : IndexLists]
Schemas(d) == {s \in Seq(Entry(d)) : Sorted(s)}
Disks(d) == [cut : BOOLEAN, schema : Schemas(d), files : FileSets]

IsWorld(w) ==
    /\ w = [dm |-> w.dm, live |-> w.live, cur |-> w.cur, sys |-> w.sys, disk |-> w.disk,
            trail |-> w.trail, dep |-> w.dep]
    /\ w.dep \in BOOLEAN

\* A table and a database in memory.
TabShape(x) ==
    x = [opt |-> x.opt, im |-> x.im, data |-> x.data] /\ x.opt \in Options /\ x.data \in FileData

DbShape(v) ==
    /\ v = [tm |-> v.tm, tab |-> v.tab] /\ v.tab = [t \in DOMAIN v.tab |-> v.tab[t]]
    /\ \A t \in DOMAIN v.tab : TabShape(v.tab[t])

Loaded(w, d) == DOMAIN w.live[d].tab
IndexesOf(w, d, t) == DOMAIN Im(w, d, t).id

\* The state of database d that a statement works on.
Shape(w, d) ==
    /\ IsWorld(w)
    /\ w.live = [e \in Dbs |-> w.live[e]] /\ DbShape(w.live[d])
    /\ w.disk = [e \in FileDbs |-> w.disk[e]] /\ \A e \in FileDbs : w.disk[e] \in Disks(e)

Sound(w, d) ==
    /\ Shape(w, d)
    /\ Managed(Tm(w, d), Loaded(w, d)) /\ Loaded(w, d) \subseteq Tables[d]
    /\ \A t \in Loaded(w, d) :
          /\ Managed(Im(w, d, t), IndexesOf(w, d, t)) /\ IndexesOf(w, d, t) \subseteq Indexes
          /\ \A i \in IndexesOf(w, d, t) : Im(w, d, t).id[i] \in Ids

\* The row in a file; a file that is not there has none.
RowAt(q, f) == IF f \in DOMAIN q.files THEN q.files[f].row ELSE NoRow

\* The rows and the entries of a table: the row is its own, and every index
\* finds it once.
Filed(w, d, t) == OnDisk(w, d, t) => FileId(w, d, t) \in DOMAIN w.disk[d].files
Entries(data) == IF data.row = NoRow THEN 0 ELSE 1
DataFits(w, d, t) ==
    /\ Filed(w, d, t)
    /\ Data(w, d, t).row \in {NoRow, t}
    /\ \A i \in IndexesOf(w, d, t) :
          Data(w, d, t).ix[Im(w, d, t).id[i]] = Entries(Data(w, d, t))

Held(w, d) == Sound(w, d) /\ \A t \in Loaded(w, d) : DataFits(w, d, t)

\* A file with a row belongs to a table.
OwnedBy(w, d, f, t) == OnDisk(w, d, t) /\ FileId(w, d, t) = f /\ RowAt(w.disk[d], f) = t
Owned(w, d) ==
    d \in FileDbs => \A f \in Nat :
        RowAt(w.disk[d], f) # NoRow => \E t \in Loaded(w, d) : OwnedBy(w, d, f, t)

\* A schema file says what is in memory.
NamesIn(s) == {s[k].name : k \in DOMAIN s}
EntryOf(w, d, e) ==
    /\ e.name \in Loaded(w, d) /\ e.id = FileId(w, d, e.name) /\ e.opt = Opt(w, d, e.name)
    /\ NamesIn(e.indexes) = IndexesOf(w, d, e.name)
    /\ \A j \in DOMAIN e.indexes : e.indexes[j].id = Im(w, d, e.name).id[e.indexes[j].name]

Describes(w, d, s) == NamesIn(s) = Loaded(w, d) /\ \A k \in DOMAIN s : EntryOf(w, d, s[k])

\* What the files q of a database show of the table of an entry.
Shown(q, e) == [opt |-> e.opt, row |-> IF e.opt = "memory" THEN NoRow ELSE RowAt(q, e.id),
                indexes |-> NamesIn(e.indexes)]

\* The files q show of each table t something that is in X[t], and a file with a
\* row belongs to an entry.
Fine(d, q, X) ==
    /\ \A f \in Nat : RowAt(q, f) # NoRow =>
          \E k \in DOMAIN q.schema :
              q.schema[k].id = f /\ q.schema[k].name = RowAt(q, f) /\ q.schema[k].opt # "memory"
    /\ \A k \in DOMAIN q.schema : Shown(q, q.schema[k]) \in X[q.schema[k].name]
    /\ \A t \in Tables[d] \ NamesIn(q.schema) : NoTable \in X[t]

OpenOK(w, d, X) ==
    /\ Held(w, d) /\ Owned(w, d)
    /\ d \in FileDbs => ~w.disk[d].cut /\ Describes(w, d, w.disk[d].schema)
    /\ \A t \in Tables[d] : X[t] = {View(w, d, t)}

ClosedOK(w, d, X) ==
    /\ w.live[d] = Closed
    /\ IF d \in FileDbs THEN ~w.disk[d].cut /\ Fine(d, w.disk[d], X)
       ELSE \A t \in Tables[d] : X[t] = {NoTable}

OpenDbs(w) == Known(w.dm) \ {System}

\* The invariant, of the engine w and what the client expects.
WorldOK(w, X) ==
    /\ IsWorld(w)
    /\ w.live = [d \in Dbs |-> w.live[d]]
    /\ w.disk = [d \in FileDbs |-> w.disk[d]] /\ \A d \in FileDbs : w.disk[d] \in Disks(d)
    /\ Managed(w.dm, {System} \union OpenDbs(w)) /\ OpenDbs(w) \subseteq Dbs
    /\ w.cur \in OpenDbs(w) \union {NoObj}
    /\ X = [d \in Dbs |-> X[d]] /\ \A d \in Dbs : X[d] = [t \in Tables[d] |-> X[d][t]]
    /\ \A d \in OpenDbs(w) : OpenOK(w, d, X[d])
    /\ \A d \in Dbs \ OpenDbs(w) : ClosedOK(w, d, X[d])

CatalogInv == ~departed => WorldOK(World, want)

-------------------------------------------------------------------------------
(* What a statement on database d leaves alone, and the disks it passes.     *)

Agree(S, f, g, d) == g = [e \in S |-> g[e]] /\ \A e \in S : e # d => g[e] = f[e]

\* The disks of x that w has not had are those of w with files in Q for d.
Passes(w, x, d, Q) ==
    \A k \in x.trail : \/ k \in w.trail
                       \/ d \in FileDbs /\ Agree(FileDbs, w.disk, k, d) /\ k[d] \in Q

Frame(w, x, d) ==
    /\ IsWorld(x) /\ x.dm = w.dm /\ x.cur = w.cur /\ (w.dep => x.dep)
    /\ Agree(Dbs, w.live, x.live, d) /\ Agree(FileDbs, w.disk, x.disk, d)

LEMMA FrameTrans ==
    ASSUME NEW w, NEW x, NEW y, NEW d, Frame(w, x, d), Frame(x, y, d)
    PROVE  Frame(w, y, d)
BY DEF Frame, Agree

LEMMA PassesTrans ==
    ASSUME NEW w, NEW x, NEW y, NEW d, NEW Q, Frame(w, x, d), Passes(w, x, d, Q), Passes(x, y, d, Q)
    PROVE  Passes(w, y, d, Q)
BY DEF Frame, Passes, Agree

LEMMA FilesIs ==
    ASSUME NEW fs
    PROVE  fs \in FileSets <=>
               /\ DOMAIN fs \subseteq Nat /\ fs = [f \in DOMAIN fs |-> fs[f]]
               /\ \A f \in DOMAIN fs : fs[f] \in FileData
<1>1. ASSUME fs \in FileSets
      PROVE  /\ DOMAIN fs \subseteq Nat /\ fs = [f \in DOMAIN fs |-> fs[f]]
             /\ \A f \in DOMAIN fs : fs[f] \in FileData
  <2>1. PICK S \in SUBSET Nat : fs \in [S -> FileData]
    BY <1>1 DEF FileSets
  <2> QED
    BY <2>1
<1>2. ASSUME DOMAIN fs \subseteq Nat, fs = [f \in DOMAIN fs |-> fs[f]],
             \A f \in DOMAIN fs : fs[f] \in FileData
      PROVE  fs \in FileSets
  <2>1. fs \in [DOMAIN fs -> FileData] /\ DOMAIN fs \in SUBSET Nat
    BY <1>2
  <2> QED
    BY <2>1 DEF FileSets
<1> QED
  BY <1>1, <1>2

LEMMA DataIs ==
    ASSUME NEW data
    PROVE  data \in FileData <=>
               /\ data = [row |-> data.row, ix |-> data.ix]
               /\ data.row \in Names \union {NoRow} /\ data.ix \in [Ids -> Int]
BY DEF FileData

LEMMA DiskIs ==
    ASSUME NEW d, NEW q
    PROVE  q \in Disks(d) <=>
               /\ q = [cut |-> q.cut, schema |-> q.schema, files |-> q.files]
               /\ q.cut \in BOOLEAN /\ q.schema \in Schemas(d) /\ q.files \in FileSets
BY DEF Disks

\* A file is written, or removed.
LEMMA FileWritten ==
    ASSUME NEW fs \in FileSets, NEW f \in Nat, NEW data \in FileData
    PROVE  /\ With(fs, f, data) \in FileSets /\ DOMAIN With(fs, f, data) = DOMAIN fs \union {f}
           /\ With(fs, f, data)[f] = data /\ \A g \in DOMAIN fs : g # f => With(fs, f, data)[g] = fs[g]
<1> DEFINE gs == With(fs, f, data)
<1>1. DOMAIN gs = DOMAIN fs \union {f} /\ gs = [g \in DOMAIN gs |-> gs[g]]
  BY DEF With
<1>2. \A g \in DOMAIN gs : gs[g] = IF g = f THEN data ELSE fs[g]
  BY DEF With
<1> HIDE DEF gs
<1>3. DOMAIN fs \subseteq Nat /\ \A g \in DOMAIN fs : fs[g] \in FileData
  BY FilesIs
<1>4. DOMAIN gs \subseteq Nat /\ \A g \in DOMAIN gs : gs[g] \in FileData
  BY <1>1, <1>2, <1>3
<1>5. gs \in FileSets
  BY <1>1, <1>4, FilesIs
<1> QED
  BY <1>1, <1>2, <1>5 DEF gs

LEMMA FileRemoved ==
    ASSUME NEW fs \in FileSets, NEW f
    PROVE  /\ Without(fs, f) \in FileSets /\ DOMAIN Without(fs, f) = DOMAIN fs \ {f}
           /\ \A g \in DOMAIN fs \ {f} : Without(fs, f)[g] = fs[g]
<1> DEFINE gs == Without(fs, f)
<1>1. DOMAIN gs = DOMAIN fs \ {f} /\ gs = [g \in DOMAIN gs |-> gs[g]]
  BY DEF Without, Restrict
<1>2. \A g \in DOMAIN fs \ {f} : gs[g] = fs[g]
  BY DEF Without, Restrict
<1> HIDE DEF gs
<1>3. DOMAIN fs \subseteq Nat /\ \A g \in DOMAIN fs : fs[g] \in FileData
  BY FilesIs
<1>4. DOMAIN gs \subseteq Nat /\ \A g \in DOMAIN gs : gs[g] \in FileData
  BY <1>1, <1>2, <1>3
<1>5. gs \in FileSets
  BY <1>1, <1>4, FilesIs
<1> QED
  BY <1>1, <1>2, <1>5 DEF gs

\* What a write to the disk changes.
LEMMA NewDiskIs ==
    ASSUME NEW w, IsWorld(w), NEW k
    PROVE  LET x == NewDisk(w, k)
           IN  /\ IsWorld(x) /\ x.dm = w.dm /\ x.live = w.live /\ x.cur = w.cur /\ x.sys = w.sys
               /\ x.disk = k /\ x.trail = w.trail \union {k} /\ x.dep = w.dep
<1> DEFINE h == [w EXCEPT !.disk = k]
           x == [h EXCEPT !.trail = @ \union {k}]
<1>1. NewDisk(w, k) = x
  BY DEF NewDisk
<1>2. h = [dm |-> w.dm, live |-> w.live, cur |-> w.cur, sys |-> w.sys, disk |-> k,
           trail |-> w.trail, dep |-> w.dep]
  BY DEF IsWorld
<1> HIDE DEF h
<1> DEFINE u == w.trail \union {k}
<1>u. h.trail \union {k} = u
  BY <1>2
<1> HIDE DEF u
<1>3. x = [dm |-> w.dm, live |-> w.live, cur |-> w.cur, sys |-> w.sys, disk |-> k,
           trail |-> u, dep |-> w.dep]
  BY <1>2, <1>u
<1>4. w.dep \in BOOLEAN
  BY DEF IsWorld
<1> HIDE DEF x
<1> QED
  BY <1>1, <1>3, <1>4 DEF IsWorld, u

LEMMA SetDiskIs ==
    ASSUME NEW w, IsWorld(w), NEW d \in FileDbs, NEW q, w.disk = [e \in FileDbs |-> w.disk[e]]
    PROVE  LET x == SetDisk(w, d, q)
           IN  /\ IsWorld(x) /\ x.dm = w.dm /\ x.live = w.live /\ x.cur = w.cur /\ x.sys = w.sys
               /\ x.dep = w.dep /\ Agree(FileDbs, w.disk, x.disk, d) /\ x.disk[d] = q
               /\ x.trail = w.trail \union {x.disk}
<1> DEFINE k == [w.disk EXCEPT ![d] = q]
<1>1. Agree(FileDbs, w.disk, k, d) /\ k[d] = q
  BY DEF Agree
<1>2. SetDisk(w, d, q) = NewDisk(w, k)
  BY DEF SetDisk
<1> HIDE DEF k
<1> QED
  BY <1>1, <1>2, NewDiskIs

\* The row and the entries of a table that is not on disk.
Buffer(w, d, t) == w.live[d].tab[t].data

\* What an assignment to a part of a table in memory changes.
SameTabs(w, x, d) == Tm(x, d) = Tm(w, d) /\ Loaded(x, d) = Loaded(w, d)
Assigned(w, x, d) ==
    /\ IsWorld(x) /\ x.dm = w.dm /\ x.cur = w.cur /\ x.sys = w.sys /\ x.dep = w.dep
    /\ x.disk = w.disk /\ x.trail = w.trail /\ Agree(Dbs, w.live, x.live, d)

LEMMA AssignDb ==
    ASSUME NEW w, IsWorld(w), NEW d \in Dbs, w.live = [e \in Dbs |-> w.live[e]], NEW v
    PROVE  LET x == [w EXCEPT !.live[d] = v]
           IN  Assigned(w, x, d) /\ x.live[d] = v
BY DEF IsWorld, Assigned, Agree

SetIm(w, d, t, m) == [w EXCEPT !.live[d].tab[t].im = m]

LEMMA AssignIm ==
    ASSUME NEW w, NEW d \in Dbs, Shape(w, d), NEW t \in Loaded(w, d), NEW m
    PROVE  LET x == SetIm(w, d, t, m)
           IN  /\ Assigned(w, x, d) /\ Shape(x, d) /\ SameTabs(w, x, d) /\ Im(x, d, t) = m
               /\ \A u \in Loaded(w, d) : /\ Opt(x, d, u) = Opt(w, d, u) /\ Buffer(x, d, u) = Buffer(w, d, u)
                                          /\ u # t => Im(x, d, u) = Im(w, d, u)
<1> DEFINE v == w.live[d]
           b == [v.tab[t] EXCEPT !.im = m]
           g == [v.tab EXCEPT ![t] = b]
           v2 == [tm |-> v.tm, tab |-> g]
           x == SetIm(w, d, t, m)
<1>1. IsWorld(w) /\ w.live = [e \in Dbs |-> w.live[e]] /\ DbShape(v) /\ DOMAIN v.tab = Loaded(w, d)
  BY DEF Shape, Loaded
<1>2. x = [w EXCEPT !.live[d] = v2]
  BY <1>1 DEF IsWorld, DbShape, Loaded, SetIm
<1>3. /\ DOMAIN g = DOMAIN v.tab /\ g = [u \in DOMAIN v.tab |-> g[u]] /\ g[t] = b
      /\ \A u \in DOMAIN v.tab : u # t => g[u] = v.tab[u]
  BY <1>1 DEF DbShape, Loaded
<1>4. TabShape(v.tab[t])
  BY <1>1 DEF DbShape, Loaded
<1>5. TabShape(b) /\ b.im = m /\ b.opt = v.tab[t].opt /\ b.data = v.tab[t].data
  BY <1>4 DEF TabShape
<1> HIDE DEF g, b
<1>6. DbShape(v2) /\ v2.tm = v.tm /\ v2.tab = g
  BY <1>1, <1>3, <1>5 DEF DbShape
<1> HIDE DEF v2
<1> DEFINE y == [w EXCEPT !.live[d] = v2]
<1>y. Assigned(w, y, d) /\ y.live[d] = v2
  BY <1>1, AssignDb
<1> HIDE DEF x, y
<1>7. Assigned(w, x, d) /\ x.live[d] = v2
  BY ONLY <1>2, <1>y DEF y
<1>8. Shape(x, d)
  BY <1>6, <1>7 DEF Shape, Assigned, Agree
<1>9. SameTabs(w, x, d) /\ Im(x, d, t) = m
  BY <1>3, <1>5, <1>6, <1>7 DEF SameTabs, Tm, Im, Loaded
<1>10. ASSUME NEW u \in Loaded(w, d)
       PROVE  /\ Opt(x, d, u) = Opt(w, d, u) /\ Buffer(x, d, u) = Buffer(w, d, u)
              /\ u # t => Im(x, d, u) = Im(w, d, u)
  BY <1>3, <1>5, <1>6, <1>7 DEF Opt, Buffer, Im, Loaded
<1> QED
  BY <1>7, <1>8, <1>9, <1>10 DEF x

LEMMA AssignData ==
    ASSUME NEW w, NEW d \in Dbs, Shape(w, d), NEW t \in Loaded(w, d), NEW data \in FileData
    PROVE  LET x == [w EXCEPT !.live[d].tab[t].data = data]
           IN  /\ Assigned(w, x, d) /\ Shape(x, d) /\ SameTabs(w, x, d) /\ Buffer(x, d, t) = data
               /\ \A u \in Loaded(w, d) : /\ Opt(x, d, u) = Opt(w, d, u) /\ Im(x, d, u) = Im(w, d, u)
                                          /\ u # t => Buffer(x, d, u) = Buffer(w, d, u)
<1> DEFINE v == w.live[d]
           b == [v.tab[t] EXCEPT !.data = data]
           g == [v.tab EXCEPT ![t] = b]
           v2 == [tm |-> v.tm, tab |-> g]
           x == [w EXCEPT !.live[d].tab[t].data = data]
<1>1. IsWorld(w) /\ w.live = [e \in Dbs |-> w.live[e]] /\ DbShape(v) /\ DOMAIN v.tab = Loaded(w, d)
  BY DEF Shape, Loaded
<1>2. x = [w EXCEPT !.live[d] = v2]
  BY <1>1 DEF IsWorld, DbShape, Loaded
<1>3. /\ DOMAIN g = DOMAIN v.tab /\ g = [u \in DOMAIN v.tab |-> g[u]] /\ g[t] = b
      /\ \A u \in DOMAIN v.tab : u # t => g[u] = v.tab[u]
  BY <1>1 DEF DbShape, Loaded
<1>4. TabShape(v.tab[t])
  BY <1>1 DEF DbShape, Loaded
<1>5. TabShape(b) /\ b.data = data /\ b.opt = v.tab[t].opt /\ b.im = v.tab[t].im
  BY <1>4 DEF TabShape
<1> HIDE DEF g, b
<1>6. DbShape(v2) /\ v2.tm = v.tm /\ v2.tab = g
  BY <1>1, <1>3, <1>5 DEF DbShape
<1> HIDE DEF v2
<1> DEFINE y == [w EXCEPT !.live[d] = v2]
<1>y. Assigned(w, y, d) /\ y.live[d] = v2
  BY <1>1, AssignDb
<1> HIDE DEF x, y
<1>7. Assigned(w, x, d) /\ x.live[d] = v2
  BY ONLY <1>2, <1>y DEF y
<1>8. Shape(x, d)
  BY <1>6, <1>7 DEF Shape, Assigned, Agree
<1>9. SameTabs(w, x, d) /\ Buffer(x, d, t) = data
  BY <1>3, <1>5, <1>6, <1>7 DEF SameTabs, Tm, Buffer, Loaded
<1>10. ASSUME NEW u \in Loaded(w, d)
       PROVE  /\ Opt(x, d, u) = Opt(w, d, u) /\ Im(x, d, u) = Im(w, d, u)
              /\ u # t => Buffer(x, d, u) = Buffer(w, d, u)
  BY <1>3, <1>5, <1>6, <1>7 DEF Opt, Buffer, Im, Loaded
<1> QED
  BY <1>7, <1>8, <1>9, <1>10 DEF x

-------------------------------------------------------------------------------
(* The row and the entries of a table are written.                           *)

SameTable(w, x, d, u) == Opt(x, d, u) = Opt(w, d, u) /\ Im(x, d, u) = Im(w, d, u)
Kept(w, x, d, u) ==
    SameTable(w, x, d, u) /\ (Filed(w, d, u) => Filed(x, d, u) /\ Data(x, d, u) = Data(w, d, u))

\* The rows in the files of d are those of w, but the one of file f is row.
SameSchema(p, q) == q.cut = p.cut /\ q.schema = p.schema
SameRows(p, q) == SameSchema(p, q) /\ \A f \in Nat : RowAt(q, f) = RowAt(p, f)

Written(w, x, d, t, data) ==
    /\ Frame(w, x, d) /\ x.sys = w.sys /\ x.dep = w.dep
    /\ SameTabs(w, x, d) /\ \A u \in Loaded(w, d) : SameTable(w, x, d, u)
    /\ \A u \in Loaded(w, d) \ {t} : Kept(w, x, d, u)
    /\ Filed(x, d, t) /\ Data(x, d, t) = data
    /\ x.trail = w.trail \/ (d \in FileDbs /\ x.trail = w.trail \union {x.disk})
    /\ d \in FileDbs =>
          /\ SameSchema(w.disk[d], x.disk[d])
          /\ \A f \in Nat : RowAt(x.disk[d], f) =
                IF OnDisk(w, d, t) /\ f = FileId(w, d, t) THEN data.row ELSE RowAt(w.disk[d], f)

LEMMA SoundKept ==
    ASSUME NEW w, NEW x, NEW d, Sound(w, d), Shape(x, d), SameTabs(w, x, d),
           \A u \in Loaded(w, d) : SameTable(w, x, d, u)
    PROVE  Sound(x, d)
BY DEF Sound, SameTabs, SameTable, IndexesOf

LEMMA IdIs ==
    ASSUME NEW w, NEW d, Sound(w, d), NEW t \in Loaded(w, d)
    PROVE  FileId(w, d, t) \in Nat /\ \A u \in Loaded(w, d) : FileId(w, d, u) = FileId(w, d, t) => u = t
<1>1. Managed(Tm(w, d), Loaded(w, d))
  BY DEF Sound
<1>2. Tm(w, d).cap \in Nat /\ Tm(w, d).id \in [Loaded(w, d) -> 0 .. Tm(w, d).cap - 1]
  BY <1>1 DEF Managed, Shaped
<1>3. Tm(w, d).id[t] \in Nat
  BY <1>2
<1> QED
  BY <1>1, <1>3, IdsDiffer DEF FileId

\* Data where the table is.
LEMMA DataAt ==
    ASSUME NEW w, NEW d, NEW t
    PROVE  Data(w, d, t) = IF OnDisk(w, d, t) THEN w.disk[d].files[FileId(w, d, t)] ELSE Buffer(w, d, t)
BY DEF Data, Buffer

LEMMA DataType ==
    ASSUME NEW w, NEW d, Sound(w, d), NEW t \in Loaded(w, d), Filed(w, d, t)
    PROVE  Data(w, d, t) \in FileData
<1>1. CASE OnDisk(w, d, t)
  <2>1. d \in FileDbs /\ FileId(w, d, t) \in DOMAIN w.disk[d].files
    BY <1>1 DEF Filed, OnDisk
  <2>2. w.disk[d].files \in FileSets
    BY <2>1, DiskIs DEF Sound, Shape
  <2> QED
    BY <1>1, <2>1, <2>2, FilesIs, DataAt
<1>2. CASE ~OnDisk(w, d, t)
  <2>1. TabShape(w.live[d].tab[t])
    BY DEF Sound, Shape, DbShape, Loaded
  <2> QED
    BY <1>2, <2>1, DataAt DEF Buffer, TabShape
<1> QED
  BY <1>1, <1>2

LEMMA SetDataIs ==
    ASSUME NEW w, NEW d \in Dbs, Sound(w, d), NEW t \in Loaded(w, d), NEW data \in FileData
    PROVE  Written(w, SetData(w, d, t, data), d, t, data) /\ Sound(SetData(w, d, t, data), d)
<1> DEFINE x == SetData(w, d, t, data)
<1>1. Shape(w, d) /\ IsWorld(w)
  BY DEF Sound, Shape
<1>2. w.disk = [e \in FileDbs |-> w.disk[e]] /\ w.live = [e \in Dbs |-> w.live[e]]
  BY <1>1 DEF Shape
<1>3. CASE OnDisk(w, d, t)
  <2> DEFINE i == FileId(w, d, t)
             p == w.disk[d]
             fs == With(p.files, i, data)
             q == [p EXCEPT !.files = With(@, i, data)]
  <2>1. d \in FileDbs /\ i \in Nat
    BY <1>3, IdIs DEF OnDisk
  <2>2. /\ p = [cut |-> p.cut, schema |-> p.schema, files |-> p.files]
        /\ p.cut \in BOOLEAN /\ p.schema \in Schemas(d) /\ p.files \in FileSets
    BY <1>1, <2>1, DiskIs DEF Shape
  <2>3. x = SetDisk(w, d, q)
    BY <1>3 DEF SetData
  <2>4. q = [cut |-> p.cut, schema |-> p.schema, files |-> fs]
    BY <2>2
  <2>5. /\ fs \in FileSets /\ DOMAIN fs = DOMAIN p.files \union {i}
        /\ fs[i] = data /\ \A g \in DOMAIN p.files : g # i => fs[g] = p.files[g]
    BY <2>1, <2>2, FileWritten, ZenonT(40)
  <2> HIDE DEF q, fs
  <2>6. /\ IsWorld(x) /\ x.dm = w.dm /\ x.live = w.live /\ x.cur = w.cur /\ x.sys = w.sys
        /\ x.dep = w.dep /\ Agree(FileDbs, w.disk, x.disk, d) /\ x.disk[d] = q
        /\ x.trail = w.trail \union {x.disk}
    BY <1>1, <1>2, <2>1, <2>3, SetDiskIs
  <2> HIDE DEF x
  <2>7. q \in Disks(d) /\ q.cut = p.cut /\ q.schema = p.schema /\ q.files = fs
    BY <2>2, <2>4, <2>5, DiskIs
  <2>8. Shape(x, d)
    BY <1>1, <2>6, <2>7 DEF Shape, Agree
  <2>9. Agree(Dbs, w.live, x.live, d)
    BY <1>2, <2>6 DEF Agree
  <2>10. SameTabs(w, x, d) /\ \A u \in Loaded(w, d) : SameTable(w, x, d, u) /\ Buffer(x, d, u) = Buffer(w, d, u)
    BY <2>6 DEF SameTabs, SameTable, Tm, Loaded, Opt, Im, Buffer
  <2>11. \A u \in Loaded(w, d) : OnDisk(x, d, u) = OnDisk(w, d, u) /\ FileId(x, d, u) = FileId(w, d, u)
    BY <2>10 DEF SameTabs, SameTable, OnDisk, FileId
  <2>12. Filed(x, d, t) /\ Data(x, d, t) = data
    BY <1>3, <2>5, <2>6, <2>7, <2>11, DataAt DEF Filed
  <2>13. ASSUME NEW u \in Loaded(w, d) \ {t} PROVE Kept(w, x, d, u)
    <3>1. FileId(w, d, u) # i
      BY IdIs
    <3>2. Filed(w, d, u) => Filed(x, d, u)
      BY <2>5, <2>6, <2>7, <2>11 DEF Filed
    <3>3. CASE OnDisk(w, d, u) /\ FileId(w, d, u) \in DOMAIN p.files
      <4>1. Data(x, d, u) = fs[FileId(w, d, u)] /\ Data(w, d, u) = p.files[FileId(w, d, u)]
        BY <2>6, <2>7, <2>11, <3>3, DataAt
      <4>2. Data(x, d, u) = Data(w, d, u)
        BY <2>5, <3>1, <3>3, <4>1
      <4> QED
        BY <2>10, <3>2, <4>2 DEF Kept
    <3>4. CASE OnDisk(w, d, u) /\ FileId(w, d, u) \notin DOMAIN p.files
      BY <2>10, <3>4 DEF Kept, Filed
    <3>5. CASE ~OnDisk(w, d, u)
      BY <2>10, <2>11, <3>2, <3>5, DataAt DEF Kept
    <3> QED
      BY <3>3, <3>4, <3>5
  <2>14. \A f \in Nat : RowAt(x.disk[d], f) = IF f = i THEN data.row ELSE RowAt(p, f)
    BY <2>5, <2>6, <2>7 DEF RowAt
  <2>15. Written(w, x, d, t, data)
    BY <1>3, <2>1, <2>6, <2>7, <2>9, <2>10, <2>12, <2>13, <2>14 DEF Written, Frame, SameSchema
  <2> QED
    BY <2>8, <2>10, <2>15, SoundKept DEF x
<1>4. CASE ~OnDisk(w, d, t)
  <2>1. x = [w EXCEPT !.live[d].tab[t].data = data]
    BY <1>4 DEF SetData
  <2>2. /\ Assigned(w, x, d) /\ Shape(x, d) /\ SameTabs(w, x, d) /\ Buffer(x, d, t) = data
        /\ \A u \in Loaded(w, d) : /\ Opt(x, d, u) = Opt(w, d, u) /\ Im(x, d, u) = Im(w, d, u)
                                   /\ u # t => Buffer(x, d, u) = Buffer(w, d, u)
    BY <1>1, <2>1, AssignData
  <2> HIDE DEF x
  <2>3. \A u \in Loaded(w, d) : SameTable(w, x, d, u)
    BY <2>2 DEF SameTable
  <2>4. \A u \in Loaded(w, d) : OnDisk(x, d, u) = OnDisk(w, d, u) /\ FileId(x, d, u) = FileId(w, d, u)
    BY <2>2 DEF SameTabs, OnDisk, FileId
  <2>5. x.disk = w.disk /\ x.trail = w.trail /\ x.sys = w.sys /\ x.dep = w.dep
    BY <2>2 DEF Assigned
  <2>6. \A u \in Loaded(w, d) \ {t} : Kept(w, x, d, u)
    BY <2>2, <2>3, <2>4, <2>5, DataAt DEF Kept, Filed
  <2>7. Filed(x, d, t) /\ Data(x, d, t) = data
    BY <1>4, <2>2, <2>4, DataAt DEF Filed
  <2>8. Frame(w, x, d)
    BY <1>2, <2>2 DEF Frame, Assigned, Agree
  <2>9. Written(w, x, d, t, data)
    BY <1>4, <2>2, <2>3, <2>5, <2>6, <2>7, <2>8 DEF Written, SameSchema
  <2> QED
    BY <2>2, <2>3, <2>9, SoundKept DEF x
<1> QED
  BY <1>3, <1>4

\* A step that changes nothing but the system tables, the trail or dep.
Quiet(w, x) ==
    /\ IsWorld(x) /\ x.dm = w.dm /\ x.cur = w.cur /\ x.live = w.live /\ x.disk = w.disk
    /\ x.trail = w.trail /\ (w.dep => x.dep)

LEMMA QuietIs ==
    ASSUME NEW w, NEW x, Quiet(w, x), NEW d, Shape(w, d)
    PROVE  /\ Frame(w, x, d) /\ \A Q : Passes(w, x, d, Q)
           /\ SameTabs(w, x, d) /\ \A u : Kept(w, x, d, u) /\ Data(x, d, u) = Data(w, d, u)
           /\ \A u : (Filed(x, d, u) <=> Filed(w, d, u)) /\ (DataFits(x, d, u) <=> DataFits(w, d, u))
           /\ Shape(x, d) /\ (Sound(w, d) <=> Sound(x, d)) /\ (Held(w, d) <=> Held(x, d))
           /\ (Owned(w, d) <=> Owned(x, d))
<1>1. x.live = w.live /\ x.disk = w.disk
  BY DEF Quiet
<1>2. /\ Tm(x, d) = Tm(w, d) /\ Loaded(x, d) = Loaded(w, d)
      /\ \A u : Opt(x, d, u) = Opt(w, d, u) /\ Im(x, d, u) = Im(w, d, u)
  BY <1>1 DEF Tm, Loaded, Opt, Im
<1>3. \A u : OnDisk(x, d, u) = OnDisk(w, d, u) /\ FileId(x, d, u) = FileId(w, d, u)
  BY <1>2 DEF OnDisk, FileId
<1>4. \A u : Data(x, d, u) = Data(w, d, u) /\ Filed(x, d, u) = Filed(w, d, u)
  BY <1>1, <1>3 DEF Data, Filed
<1>5. Shape(x, d)
  BY <1>1 DEF Shape, Quiet
<1>6. Sound(w, d) <=> Sound(x, d)
  BY <1>2, <1>5 DEF Sound, IndexesOf
<1>7. \A u : DataFits(x, d, u) <=> DataFits(w, d, u)
  BY <1>2, <1>4 DEF DataFits, IndexesOf
<1>8. Owned(w, d) <=> Owned(x, d)
  BY <1>1, <1>2, <1>3 DEF Owned, OwnedBy
<1>9. Frame(w, x, d) /\ \A Q : Passes(w, x, d, Q)
  BY DEF Quiet, Frame, Passes, Agree, Shape
<1> QED
  BY <1>2, <1>4, <1>5, <1>6, <1>7, <1>8, <1>9 DEF Held, SameTabs, SameTable, Kept

\* The disks of Q have company: files with the same rows.
Steady(d, Q) == \A p \in Q, q \in Disks(d) : SameRows(p, q) => q \in Q
Follows(w, d, Q) == d \in FileDbs => w.disk[d] \in Q /\ Steady(d, Q)

\* What a statement on the indexes of a table changes.
Touches(w, x, d, t, Q) ==
    /\ Frame(w, x, d) /\ Passes(w, x, d, Q) /\ Sound(x, d) /\ SameTabs(w, x, d)
    /\ Opt(x, d, t) = Opt(w, d, t)
    /\ \A u \in Loaded(w, d) \ {t} : Kept(w, x, d, u)
    /\ d \in FileDbs => SameRows(w.disk[d], x.disk[d])

LEMMA TouchesTrans ==
    ASSUME NEW w, NEW x, NEW y, NEW d, NEW t, NEW Q, Touches(w, x, d, t, Q), Touches(x, y, d, t, Q)
    PROVE  Touches(w, y, d, t, Q)
<1>1. Frame(w, y, d) /\ Passes(w, y, d, Q)
  BY FrameTrans, PassesTrans DEF Touches
<1>2. SameTabs(w, y, d) /\ Opt(y, d, t) = Opt(w, d, t) /\ Sound(y, d)
  BY DEF Touches, SameTabs
<1>3. \A u \in Loaded(w, d) \ {t} : Kept(w, y, d, u)
  BY DEF Touches, SameTabs, Kept, SameTable
<1>4. d \in FileDbs => SameRows(w.disk[d], y.disk[d])
  BY DEF Touches, SameRows, SameSchema
<1> QED
  BY <1>1, <1>2, <1>3, <1>4 DEF Touches

LEMMA FollowsTouch ==
    ASSUME NEW w, NEW x, NEW d, NEW Q, Follows(w, d, Q), Sound(x, d),
           d \in FileDbs => SameRows(w.disk[d], x.disk[d])
    PROVE  Follows(x, d, Q)
BY DEF Follows, Steady, Sound, Shape

LEMMA QuietTouches ==
    ASSUME NEW w, NEW x, Quiet(w, x), NEW d, NEW t, NEW Q, Sound(w, d)
    PROVE  Touches(w, x, d, t, Q)
<1>1. Shape(w, d)
  BY DEF Sound
<1>2. x.disk = w.disk
  BY DEF Quiet
<1>3. d \in FileDbs => SameRows(w.disk[d], x.disk[d])
  BY <1>2 DEF SameRows, SameSchema
<1> QED
  BY <1>1, <1>3, QuietIs DEF Touches, Kept, SameTable

\* A write that leaves the rows of the files as they are.
LEMMA WrittenTouches ==
    ASSUME NEW w, NEW d, Sound(w, d), NEW t \in Loaded(w, d), NEW Q, Follows(w, d, Q),
           NEW x, NEW data, Written(w, x, d, t, data), Sound(x, d),
           OnDisk(w, d, t) => data.row = RowAt(w.disk[d], FileId(w, d, t))
    PROVE  Touches(w, x, d, t, Q)
<1>1. d \in FileDbs => SameRows(w.disk[d], x.disk[d])
  BY DEF Written, SameRows
<1>2. Follows(x, d, Q)
  BY <1>1, FollowsTouch
<1>3. Passes(w, x, d, Q)
  BY <1>2 DEF Passes, Follows, Written, Frame
<1> QED
  BY <1>1, <1>3 DEF Touches, Written, SameTable

LEMMA NoDataIs == NoData \in FileData /\ NoData.row = NoRow
BY DEF NoData, FileData, NoFile

LEMMA OpenDataIs ==
    ASSUME NEW w, NEW d \in Dbs, Sound(w, d), NEW t \in Loaded(w, d), NEW Q, Follows(w, d, Q)
    PROVE  LET x == OpenData(w, d, t)
           IN  /\ Touches(w, x, d, t, Q) /\ x.dep = w.dep /\ x.sys = w.sys /\ SameTable(w, x, d, t)
               /\ Filed(x, d, t)
               /\ Data(x, d, t) = IF OnDisk(w, d, t) /\ FileId(w, d, t) \in DOMAIN w.disk[d].files
                                  THEN w.disk[d].files[FileId(w, d, t)] ELSE NoData
<1> DEFINE x == OpenData(w, d, t)
<1>1. CASE OnDisk(w, d, t) /\ FileId(w, d, t) \in DOMAIN w.disk[d].files
  <2>1. x = w
    BY <1>1 DEF OpenData
  <2>2. Quiet(w, w)
    BY DEF Quiet, Sound, Shape
  <2>3. Touches(w, x, d, t, Q)
    BY <2>1, <2>2, QuietTouches
  <2> QED
    BY <1>1, <2>1, <2>3, DataAt DEF SameTable, Filed
<1>2. CASE ~(OnDisk(w, d, t) /\ FileId(w, d, t) \in DOMAIN w.disk[d].files)
  <2>1. x = SetData(w, d, t, NoData)
    BY <1>2 DEF OpenData
  <2>2. Written(w, x, d, t, NoData) /\ Sound(x, d)
    BY <2>1, NoDataIs, SetDataIs
  <2>3. OnDisk(w, d, t) => NoData.row = RowAt(w.disk[d], FileId(w, d, t))
    BY <1>2, NoDataIs DEF RowAt
  <2>4. Touches(w, x, d, t, Q)
    BY <2>2, <2>3, WrittenTouches
  <2> QED
    BY <1>2, <2>2, <2>4 DEF Written
<1> QED
  BY <1>1, <1>2

-------------------------------------------------------------------------------
(* Indexes are created.                                                      *)

\* An index gets an id within the number of the names.
LEMMA IdInIds ==
    ASSUME NEW om, NEW S, Managed(om, S), S \subseteq Indexes, NEW i \in Indexes, i \notin S,
           NEW xoid \in Int, xoid >= 0 => xoid \in Ids, NEW j, NewId(om, S, xoid, j)
    PROVE  j \in Ids
<1>1. IsFiniteSet(Indexes) /\ Cardinality(Indexes) \in Nat
  BY CatalogAssumption, FS_CardinalityType
<1>2. IsFiniteSet(Indexes \ {i}) /\ Cardinality(Indexes \ {i}) = Cardinality(Indexes) - 1
  BY <1>1, FS_RemoveElement
<1>3. S \subseteq Indexes \ {i}
  OBVIOUS
<1>4. Cardinality(S) <= Cardinality(Indexes \ {i}) /\ IsFiniteSet(S)
  BY <1>2, <1>3, FS_Subset
<1>5. Cardinality(S) \in Nat
  BY <1>4, FS_CardinalityType
<1>6. j \in Nat /\ IF xoid < 0 THEN j <= Cardinality(S) ELSE j = xoid
  BY DEF NewId
<1>7. CASE xoid < 0
  BY <1>1, <1>2, <1>4, <1>5, <1>6, <1>7 DEF Ids
<1>8. CASE xoid >= 0
  BY <1>6, <1>8
<1> QED
  BY <1>7, <1>8

\* The file of an index after its creation.
LEMMA FillIs ==
    ASSUME NEW w, NEW d \in Dbs, Sound(w, d), NEW t \in Loaded(w, d), Filed(w, d, t),
           NEW Q, Follows(w, d, Q), NEW j \in Ids, NEW xoid
    PROVE  LET x == Fill(w, d, t, j, xoid, Data(w, d, t))
               old == Data(w, d, t)
               new == Data(x, d, t)
           IN  /\ Touches(w, x, d, t, Q) /\ x.sys = w.sys /\ SameTable(w, x, d, t) /\ Filed(x, d, t)
               /\ new.row = old.row /\ \A k \in Ids \ {j} : new.ix[k] = old.ix[k]
               /\ x.dep \/ new.ix[j] = Entries(old)
<1> DEFINE data == Data(w, d, t)
           there == IF data.ix[j] = NoFile THEN 0 ELSE data.ix[j]
           rows == IF data.row = NoRow THEN 0 ELSE 1
           e == IF xoid < 0 THEN there + rows ELSE there
           c == w.dep \/ there # (IF xoid < 0 THEN 0 ELSE rows)
           data2 == [data EXCEPT !.ix[j] = e]
           b == [w EXCEPT !.dep = @ \/ there # (IF xoid < 0 THEN 0 ELSE rows)]
           x == Fill(w, d, t, j, xoid, data)
<1>1. data \in FileData
  BY DataType
<1>2. data = [row |-> data.row, ix |-> data.ix] /\ data.row \in Names \union {NoRow} /\ data.ix \in [Ids -> Int]
  BY <1>1, DataIs
<1>3. there \in Int /\ rows \in Int /\ rows = Entries(data)
  BY <1>2 DEF NoFile, Entries
<1>4. x = SetData(b, d, t, data2)
  BY DEF Fill
<1>5. c \in BOOLEAN /\ (w.dep => c)
  BY DEF Sound, Shape, IsWorld
<1>6. ~c => (there = IF xoid < 0 THEN 0 ELSE rows)
  OBVIOUS
<1>7. e \in Int /\ (~c => e = Entries(data))
  BY <1>3, <1>6
<1>8. b = [w EXCEPT !.dep = c]
  OBVIOUS
<1> HIDE DEF e, c, there, rows
<1>9. Quiet(w, b) /\ b.sys = w.sys /\ b.dep = c
  <2>1. IsWorld(w)
    BY DEF Sound, Shape
  <2> HIDE DEF b
  <2> QED
    BY ONLY <2>1, <1>5, <1>8 DEF Quiet, IsWorld
<1>10. /\ data2 \in FileData /\ data2.row = data.row /\ data2.ix[j] = e
       /\ \A k \in Ids \ {j} : data2.ix[k] = data.ix[k]
  <2> HIDE DEF data
  <2>1. data2 = [row |-> data.row, ix |-> [data.ix EXCEPT ![j] = e]]
    BY <1>2
  <2>2. [data.ix EXCEPT ![j] = e] \in [Ids -> Int]
    BY <1>2, <1>7
  <2> QED
    BY <1>2, <2>1, <2>2, DataIs
<1> HIDE DEF data2, b, x
<1>11. /\ Sound(b, d) /\ t \in Loaded(b, d) /\ Data(b, d, t) = data /\ SameTable(w, b, d, t)
       /\ OnDisk(b, d, t) = OnDisk(w, d, t) /\ FileId(b, d, t) = FileId(w, d, t) /\ Filed(b, d, t)
  <2>1. Shape(w, d)
    BY DEF Sound
  <2>2. SameTabs(w, b, d) /\ Kept(w, b, d, t) /\ Sound(b, d) /\ Filed(b, d, t) /\ Data(b, d, t) = data
    BY <1>9, <2>1, QuietIs
  <2> QED
    BY <2>2 DEF SameTabs, Kept, SameTable, OnDisk, FileId
<1>12. Touches(w, b, d, t, Q)
  BY <1>9, QuietTouches
<1>13. Follows(b, d, Q)
  BY <1>11, <1>12, FollowsTouch DEF Touches
<1>14. Written(b, x, d, t, data2) /\ Sound(x, d)
  BY <1>4, <1>10, <1>11, SetDataIs
<1>15. OnDisk(b, d, t) => data2.row = RowAt(b.disk[d], FileId(b, d, t))
  BY <1>10, <1>11, DataAt DEF Filed, RowAt
<1>16. Touches(b, x, d, t, Q)
  BY <1>11, <1>13, <1>14, <1>15, WrittenTouches
<1>17. Touches(w, x, d, t, Q)
  BY <1>12, <1>16, TouchesTrans
<1>18. /\ x.sys = w.sys /\ SameTable(w, x, d, t) /\ Filed(x, d, t) /\ Data(x, d, t) = data2 /\ x.dep = c
  BY <1>9, <1>11, <1>14 DEF Written, SameTable
<1>19. x.dep \/ data2.ix[j] = Entries(data)
  BY <1>5, <1>7, <1>10, <1>18
<1> QED
  BY <1>10, <1>17, <1>18, <1>19 DEF x

LEMMA NameIs == Indexes \subseteq Names /\ Dbs \subseteq Names /\ \A d \in Dbs : Tables[d] \subseteq Names
BY CatalogAssumption

\* One index more, under the id i, that finds the row once.
Indexed(w, x, d, t, n, xoid) ==
    /\ SameTabs(w, x, d) /\ DataFits(x, d, t) /\ Data(x, d, t).row = Data(w, d, t).row
    /\ IndexesOf(x, d, t) = IndexesOf(w, d, t) \union {n}
    /\ \A m \in IndexesOf(w, d, t) : Im(x, d, t).id[m] = Im(w, d, t).id[m]
    /\ xoid >= 0 => Im(x, d, t).id[n] = xoid

LEMMA AddIndexIs ==
    ASSUME NEW w, NEW d \in Dbs, Sound(w, d), NEW t \in Loaded(w, d), DataFits(w, d, t),
           NEW Q, Follows(w, d, Q), NEW n \in Indexes, n \notin IndexesOf(w, d, t), NEW xoid \in Int,
           xoid >= 0 => xoid \in Ids /\ \A m \in IndexesOf(w, d, t) : Im(w, d, t).id[m] # xoid
    PROVE  LET x == AddIndex(w, d, t, n, xoid)
           IN  /\ IsWorld(x) /\ x.sys = w.sys
               /\ x.dep \/ (Touches(w, x, d, t, Q) /\ Indexed(w, x, d, t, n, xoid))
<1> DEFINE om == Im(w, d, t)
           S == IndexesOf(w, d, t)
           m == Add(om, n, xoid)
           a == SetIm(w, d, t, m)
           x == AddIndex(w, d, t, n, xoid)
<1>1. /\ Managed(om, S) /\ S \subseteq Indexes /\ \A i \in S : om.id[i] \in Ids
      /\ Shape(w, d) /\ IsWorld(w) /\ Filed(w, d, t)
  BY DEF Sound, Shape, DataFits
<1>2. n \in Names /\ Get(om, n) = NoObj
  BY <1>1, NameIs, GetIs
<1>3. CASE Overruns(om, xoid)
  <2>1. x = [w EXCEPT !.dep = TRUE]
    BY <1>2, <1>3 DEF AddIndex, Departs
  <2> QED
    BY <1>1, <2>1 DEF IsWorld
<1>4. CASE ~Overruns(om, xoid)
  <2>1. x = Filled([w EXCEPT !.live[d].tab[t].im = Add(@, n, xoid)], d, t, n, xoid)
    BY <1>2, <1>4 DEF AddIndex
  <2>2. [w EXCEPT !.live[d].tab[t].im = Add(@, n, xoid)] = a
    BY DEF Im, SetIm
  <2>3. x = Filled(a, d, t, n, xoid)
    BY <2>1, <2>2
  <2>4. /\ Managed(m, S \union {n})
        /\ \E i : NewId(om, S, xoid, i) /\ m.id = With(om.id, n, i)
    BY <1>1, <1>2, <1>4, AddIs
  <2>5. PICK j : NewId(om, S, xoid, j) /\ m.id = With(om.id, n, j)
    BY <2>4
  <2>6. j \in Ids
    BY <1>1, <2>5, IdInIds
  <2>7. /\ DOMAIN m.id = S \union {n} /\ m.id[n] = j /\ \A i \in S : m.id[i] = om.id[i]
    <3>1. S = DOMAIN om.id
      BY DEF IndexesOf
    <3> HIDE DEF m, om, S
    <3>2. m.id = With(om.id, n, j) /\ n \notin S
      BY <2>5 DEF S
    <3> QED
      BY ONLY <3>1, <3>2 DEF With
  <2>8. (\A i \in S : om.id[i] # j) /\ (xoid >= 0 => j = xoid)
    BY <2>5 DEF NewId
  <2> HIDE DEF x
  <2> HIDE DEF m
  <2>9. /\ Assigned(w, a, d) /\ Shape(a, d) /\ SameTabs(w, a, d) /\ Im(a, d, t) = m
        /\ \A u \in Loaded(w, d) : /\ Opt(a, d, u) = Opt(w, d, u) /\ Buffer(a, d, u) = Buffer(w, d, u)
                                   /\ u # t => Im(a, d, u) = Im(w, d, u)
    BY <1>1, AssignIm
  <2> HIDE DEF a
  <2>10. IndexesOf(a, d, t) = S \union {n} /\ \A u \in Loaded(w, d) : u # t => IndexesOf(a, d, u) = IndexesOf(w, d, u)
    BY <2>7, <2>9 DEF IndexesOf
  <2>11. Sound(a, d)
    BY <1>1, <2>4, <2>6, <2>7, <2>9, <2>10 DEF Sound, SameTabs
  <2>12. \A u \in Loaded(w, d) : OnDisk(a, d, u) = OnDisk(w, d, u) /\ FileId(a, d, u) = FileId(w, d, u)
    BY <2>9 DEF SameTabs, OnDisk, FileId
  <2>13. a.disk = w.disk /\ a.trail = w.trail /\ a.sys = w.sys /\ Frame(w, a, d)
    BY <1>1, <2>9 DEF Assigned, Frame, Agree, Shape
  <2>14. \A u \in Loaded(w, d) : Data(a, d, u) = Data(w, d, u) /\ Filed(a, d, u) = Filed(w, d, u)
    BY <2>9, <2>12, <2>13, DataAt DEF Filed
  <2>15. d \in FileDbs => SameRows(w.disk[d], a.disk[d])
    BY <2>13 DEF SameRows, SameSchema
  <2>16. Touches(w, a, d, t, Q)
    BY <2>9, <2>11, <2>13, <2>14, <2>15 DEF Touches, Passes, Kept, SameTable
  <2>17. Follows(a, d, Q) /\ t \in Loaded(a, d) /\ Filed(a, d, t)
    BY <1>1, <2>9, <2>11, <2>14, <2>15, FollowsTouch DEF SameTabs
  <2>18. x = Fill(a, d, t, j, xoid, Data(a, d, t))
    BY <2>3, <2>7, <2>9 DEF Filled
  <2>19. /\ Touches(a, x, d, t, Q) /\ x.sys = a.sys /\ SameTable(a, x, d, t) /\ Filed(x, d, t)
         /\ Data(x, d, t).row = Data(a, d, t).row
         /\ \A k \in Ids \ {j} : Data(x, d, t).ix[k] = Data(a, d, t).ix[k]
         /\ x.dep \/ Data(x, d, t).ix[j] = Entries(Data(a, d, t))
    BY <2>6, <2>11, <2>17, <2>18, FillIs
  <2>20. Touches(w, x, d, t, Q) /\ IsWorld(x) /\ x.sys = w.sys
    BY <2>13, <2>16, <2>19, TouchesTrans DEF Touches, Frame
  <2>21. Im(x, d, t) = m /\ IndexesOf(x, d, t) = S \union {n} /\ Data(x, d, t).row = Data(w, d, t).row
    BY <2>9, <2>10, <2>14, <2>19 DEF SameTable, IndexesOf
  <2>22. ASSUME ~x.dep PROVE Indexed(w, x, d, t, n, xoid)
    <3>1. ASSUME NEW i \in S \union {n} PROVE Data(x, d, t).ix[m.id[i]] = Entries(Data(x, d, t))
      <4>1. Entries(Data(x, d, t)) = Entries(Data(w, d, t))
        BY <2>21 DEF Entries
      <4>2. CASE i = n
        BY <2>7, <2>14, <2>19, <2>22, <4>1, <4>2
      <4>3. CASE i # n
        <5>1. i \in S /\ om.id[i] \in Ids \ {j} /\ m.id[i] = om.id[i]
          BY <1>1, <2>7, <2>8, <4>3
        <5>2. Data(w, d, t).ix[om.id[i]] = Entries(Data(w, d, t))
          BY <5>1 DEF DataFits
        <5> QED
          BY <2>14, <2>19, <4>1, <5>1, <5>2
      <4> QED
        BY <4>2, <4>3
    <3>2. DataFits(x, d, t)
      BY <2>14, <2>19, <2>21, <3>1 DEF DataFits
    <3> QED
      BY <2>7, <2>8, <2>20, <2>21, <3>2 DEF Indexed, Touches
  <2> QED
    BY <2>20, <2>22 DEF x
<1> QED
  BY <1>3, <1>4

IndexLoop(S, w, d, t, indexes, f) == [k \in S |-> IF k = 0 THEN w ELSE AddIndex(f[k - 1], d, t, indexes[k].name, indexes[k].id)]

IndexLoopRuns(N, w, d, t, indexes) ==
    \E f : /\ f = CHOOSE g : g = IndexLoop(0 .. N, w, d, t, indexes, g)
           /\ f[0] = w
           /\ \A k \in 1 .. N : f[k] = AddIndex(f[k - 1], d, t, indexes[k].name, indexes[k].id)

LEMMA IndexLoopSteps ==
    ASSUME NEW w, NEW d, NEW t, NEW indexes, NEW N \in Nat
    PROVE  IndexLoopRuns(N, w, d, t, indexes)
<1> DEFINE B == {m \in 0 .. N : \E f : f = IndexLoop(0 .. m, w, d, t, indexes, f)}
<1>1. 0 \in B
  <2>1. \A f : IndexLoop(0 .. 0, w, d, t, indexes, f) = [k \in 0 .. 0 |-> w]
    BY DEF IndexLoop
  <2> QED
    BY <2>1
<1>2. ASSUME NEW m \in 0 .. N - 1, m \in B PROVE m + 1 \in B
  <2>1. PICK v : v = IndexLoop(0 .. m, w, d, t, indexes, v)
    BY <1>2
  <2> DEFINE e == AddIndex(v[m], d, t, indexes[(m + 1)].name, indexes[(m + 1)].id)
             f == [k \in 0 .. m + 1 |-> IF k = m + 1 THEN e ELSE v[k]]
  <2>2. ASSUME NEW k \in 0 .. m + 1
        PROVE  f[k] = IF k = 0 THEN w ELSE AddIndex(f[k - 1], d, t, indexes[k].name, indexes[k].id)
    <3>1. CASE k = m + 1
      <4>1. f[k] = e /\ k # 0 /\ k - 1 = m /\ f[m] = v[m] /\ k = m + 1
        BY <3>1
      <4> HIDE DEF f
      <4> QED
        BY <4>1
    <3>2. CASE k # m + 1
      <4>1. k \in 0 .. m /\ f[k] = v[k] /\ (k # 0 => k - 1 \in 0 .. m /\ f[k - 1] = v[k - 1])
        BY <3>2
      <4>2. v[k] = IF k = 0 THEN w ELSE AddIndex(v[k - 1], d, t, indexes[k].name, indexes[k].id)
        BY <2>1, <4>1 DEF IndexLoop
      <4> HIDE DEF f
      <4> QED
        BY <4>1, <4>2
    <3> QED
      BY <3>1, <3>2
  <2>3. f = IndexLoop(0 .. m + 1, w, d, t, indexes, f)
    <3>1. f = [k \in 0 .. m + 1 |-> f[k]]
      OBVIOUS
    <3> HIDE DEF f
    <3> QED
      BY <2>2, <3>1 DEF IndexLoop
  <2> QED
    BY <2>3
<1>3. N \in B
  <2> HIDE DEF B
  <2> QED
    BY <1>1, <1>2, UpTo
<1> DEFINE h == CHOOSE g : g = IndexLoop(0 .. N, w, d, t, indexes, g)
<1>4. h = IndexLoop(0 .. N, w, d, t, indexes, h)
  BY <1>3
<1> HIDE DEF h
<1>5. h[0] = w /\ \A k \in 1 .. N : h[k] = AddIndex(h[k - 1], d, t, indexes[k].name, indexes[k].id)
  BY <1>4 DEF IndexLoop
<1> QED
  BY <1>5 DEF h, IndexLoopRuns

-------------------------------------------------------------------------------
(* What holds of any state of the engine: a statement that departs remains so. *)

Goes(w, x) == IsWorld(x) /\ (w.dep => x.dep)

LEMMA GoesSelf == ASSUME NEW w, IsWorld(w) PROVE Goes(w, w)
BY DEF Goes

LEMMA GoesTrans ==
    ASSUME NEW w, NEW x, NEW y, Goes(w, x), Goes(x, y)
    PROVE  Goes(w, y)
BY DEF Goes

LEMMA SetDiskGoes ==
    ASSUME NEW w, IsWorld(w), NEW d, NEW q
    PROVE  Goes(w, SetDisk(w, d, q))
<1> DEFINE k == [w.disk EXCEPT ![d] = q]
<1>1. SetDisk(w, d, q) = NewDisk(w, k)
  BY DEF SetDisk
<1> HIDE DEF k
<1> QED
  BY <1>1, NewDiskIs DEF Goes

LEMMA SetDataGoes ==
    ASSUME NEW w, IsWorld(w), NEW d, NEW t, NEW data
    PROVE  Goes(w, SetData(w, d, t, data))
<1>1. CASE OnDisk(w, d, t)
  <2> DEFINE q == [w.disk[d] EXCEPT !.files = With(@, FileId(w, d, t), data)]
  <2>1. SetData(w, d, t, data) = SetDisk(w, d, q)
    BY <1>1 DEF SetData
  <2> HIDE DEF q
  <2> QED
    BY <2>1, SetDiskGoes
<1>2. CASE ~OnDisk(w, d, t)
  <2>1. SetData(w, d, t, data) = [w EXCEPT !.live[d].tab[t].data = data]
    BY <1>2 DEF SetData
  <2> QED
    BY <2>1 DEF IsWorld, Goes
<1> QED
  BY <1>1, <1>2

LEMMA FillGoes ==
    ASSUME NEW w, IsWorld(w), NEW d, NEW t, NEW j, NEW xoid, NEW data
    PROVE  Goes(w, Fill(w, d, t, j, xoid, data))
<1> DEFINE there == IF data.ix[j] = NoFile THEN 0 ELSE data.ix[j]
           rows == IF data.row = NoRow THEN 0 ELSE 1
           c == w.dep \/ there # (IF xoid < 0 THEN 0 ELSE rows)
           data2 == [data EXCEPT !.ix[j] = IF xoid < 0 THEN there + rows ELSE there]
           b == [w EXCEPT !.dep = @ \/ there # (IF xoid < 0 THEN 0 ELSE rows)]
<1>1. Fill(w, d, t, j, xoid, data) = SetData(b, d, t, data2)
  BY DEF Fill
<1>2. c \in BOOLEAN /\ (w.dep => c)
  BY DEF IsWorld
<1>3. b = [w EXCEPT !.dep = c]
  OBVIOUS
<1> HIDE DEF c, b, data2
<1>4. Goes(w, b)
  BY <1>2, <1>3 DEF Goes, IsWorld
<1>5. Goes(b, SetData(b, d, t, data2))
  BY <1>4, SetDataGoes DEF Goes
<1> QED
  BY <1>1, <1>4, <1>5, GoesTrans

WithDep(w, c) == [w EXCEPT !.dep = c]

LEMMA WithDepIs ==
    ASSUME NEW w, IsWorld(w), NEW c \in BOOLEAN
    PROVE  IsWorld(WithDep(w, c)) /\ WithDep(w, c).dep = c
BY DEF IsWorld, WithDep

LEMMA DepartsIs ==
    ASSUME NEW w, IsWorld(w)
    PROVE  Goes(w, Departs(w)) /\ Departs(w).dep
<1> DEFINE c == TRUE
           x == WithDep(w, c)
<1>1. Departs(w) = x /\ c \in BOOLEAN
  BY DEF Departs, WithDep
<1>2. c
  OBVIOUS
<1> HIDE DEF c
<1>3. IsWorld(x) /\ x.dep = c
  BY <1>1, WithDepIs
<1> HIDE DEF x
<1>4. Goes(w, x) /\ x.dep
  BY ONLY <1>2, <1>3 DEF Goes
<1> QED
  BY ONLY <1>1, <1>4

LEMMA AddIndexGoes ==
    ASSUME NEW w, IsWorld(w), NEW d, NEW t, NEW n, NEW xoid
    PROVE  Goes(w, AddIndex(w, d, t, n, xoid))
<1> DEFINE x == AddIndex(w, d, t, n, xoid)
           a == [w EXCEPT !.live[d].tab[t].im = Add(@, n, xoid)]
<1>1. x = w \/ x = Departs(w) \/ x = Fill(a, d, t, Im(a, d, t).id[n], xoid, Data(a, d, t))
  BY DEF AddIndex, Filled
<1>2. Goes(w, a)
  BY DEF Goes, IsWorld
<1> HIDE DEF a
<1>3. CASE x = w
  BY <1>3, GoesSelf
<1>4. CASE x = Departs(w)
  BY <1>4, DepartsIs
<1>5. CASE x = Fill(a, d, t, Im(a, d, t).id[n], xoid, Data(a, d, t))
  <2> DEFINE y == Fill(a, d, t, Im(a, d, t).id[n], xoid, Data(a, d, t))
  <2>1. Goes(a, y)
    BY <1>2, FillGoes DEF Goes
  <2>2. Goes(w, y)
    BY <1>2, <2>1, GoesTrans
  <2> QED
    BY <1>5, <2>2
<1> QED
  BY <1>1, <1>3, <1>4, <1>5

\* The indexes of a CREATE TABLE: all with an id, or one without.
IndexList(s) ==
    /\ s \in Seq([name : Indexes, id : Int])
    /\ \A j \in 1 .. Len(s) : s[j].id >= 0 => s[j].id \in Ids
    /\ \A j, k \in 1 .. Len(s) : j # k => s[j].id >= 0 /\ s[j].id # s[k].id /\ s[j].name # s[k].name

IndexedUpTo(w, x, d, t, s, k, Q) ==
    /\ Touches(w, x, d, t, Q) /\ x.sys = w.sys
    /\ DataFits(x, d, t) /\ Data(x, d, t).row = Data(w, d, t).row
    /\ IndexesOf(x, d, t) = {s[m].name : m \in 1 .. k}
    /\ \A m \in 1 .. k : s[m].id >= 0 => Im(x, d, t).id[s[m].name] = s[m].id

LEMMA AddIndexesIs ==
    ASSUME NEW w, NEW d \in Dbs, Sound(w, d), NEW t \in Loaded(w, d), DataFits(w, d, t),
           IndexesOf(w, d, t) = {}, NEW Q, Follows(w, d, Q), NEW s, IndexList(s)
    PROVE  LET x == AddIndexes(w, d, t, s)
           IN  IsWorld(x) /\ (x.dep \/ IndexedUpTo(w, x, d, t, s, Len(s), Q))
<1>1. Len(s) \in Nat /\ \A k \in 1 .. Len(s) : s[k] \in [name : Indexes, id : Int]
  <2> DEFINE T == [name : Indexes, id : Int]
  <2>1. s \in Seq(T)
    BY DEF IndexList
  <2> HIDE DEF T
  <2>2. Len(s) \in Nat /\ \A k \in 1 .. Len(s) : s[k] \in T
    BY ONLY <2>1
  <2> QED
    BY ONLY <2>2 DEF T
<1>i. IndexLoopRuns(Len(s), w, d, t, s)
  BY <1>1, IndexLoopSteps, Zenon
<1>2. PICK f : /\ f = CHOOSE g : g = IndexLoop(0 .. Len(s), w, d, t, s, g)
               /\ f[0] = w
               /\ \A k \in 1 .. Len(s) : f[k] = AddIndex(f[k - 1], d, t, s[k].name, s[k].id)
  BY <1>i DEF IndexLoopRuns
<1>3. AddIndexes(w, d, t, s) = f[Len(s)]
  BY <1>2, Zenon DEF AddIndexes, IndexLoop
<1> DEFINE Good(k) == IndexedUpTo(w, f[k], d, t, s, k, Q)
           B == {k \in 0 .. Len(s) : IsWorld(f[k]) /\ (f[k].dep \/ Good(k))}
<1>4. 0 \in B
  <2>1. IsWorld(w) /\ Quiet(w, w)
    BY DEF Sound, Shape, Quiet
  <2>2. Touches(w, w, d, t, Q)
    BY <2>1, QuietTouches
  <2>3. {s[m].name : m \in 1 .. 0} = {} /\ 1 .. 0 = {}
    OBVIOUS
  <2>4. Good(0)
    BY <1>2, <2>2, <2>3 DEF IndexedUpTo
  <2> HIDE DEF Good
  <2> QED
    BY <1>1, <1>2, <2>1, <2>4
<1>5. ASSUME NEW k \in 0 .. Len(s) - 1, k \in B PROVE k + 1 \in B
  <2> DEFINE x == f[k]
             y == f[k + 1]
             n == s[k + 1].name
             xoid == s[k + 1].id
  <2>1. k \in Nat /\ k + 1 \in 1 .. Len(s) /\ IsWorld(x) /\ (x.dep \/ Good(k))
    BY <1>1, <1>5
  <2>2. y = AddIndex(x, d, t, n, xoid)
    <3>1. (k + 1) - 1 = k
      BY <2>1
    <3> QED
      BY <1>2, <2>1, <3>1
  <2>3. n \in Indexes /\ xoid \in Int
    BY <1>1, <2>1
  <2> HIDE DEF n, xoid, x, y
  <2>4. Goes(x, y)
    BY <2>1, <2>2, AddIndexGoes
  <2>5. ASSUME ~y.dep PROVE Good(k + 1)
    <3>1. IndexedUpTo(w, x, d, t, s, k, Q)
      BY <2>1, <2>4, <2>5 DEF Goes, x
    <3>2. /\ Touches(w, x, d, t, Q) /\ Sound(x, d) /\ t \in Loaded(x, d) /\ DataFits(x, d, t)
          /\ IndexesOf(x, d, t) = {s[m].name : m \in 1 .. k}
          /\ \A m \in 1 .. k : s[m].id >= 0 => Im(x, d, t).id[s[m].name] = s[m].id
      BY <3>1 DEF IndexedUpTo, Touches, SameTabs
    <3>3. \A m \in 1 .. k : /\ m \in 1 .. Len(s) /\ s[m].name # n
                            /\ s[m].id >= 0 /\ s[m].id # xoid
      BY <2>1 DEF IndexList, n, xoid
    <3>4. n \notin IndexesOf(x, d, t) /\ \A m \in IndexesOf(x, d, t) : Im(x, d, t).id[m] # xoid
      BY <3>2, <3>3
    <3>5. xoid >= 0 => xoid \in Ids
      BY <2>1 DEF IndexList, xoid
    <3>6. Follows(x, d, Q)
      BY <3>2, FollowsTouch DEF Touches
    <3>7. Touches(x, y, d, t, Q) /\ Indexed(x, y, d, t, n, xoid) /\ y.sys = x.sys
      BY <2>2, <2>3, <2>5, <3>2, <3>4, <3>5, <3>6, AddIndexIs
    <3>8. Touches(w, y, d, t, Q)
      BY <3>2, <3>7, TouchesTrans
    <3>9. {s[m].name : m \in 1 .. k + 1} = {s[m].name : m \in 1 .. k} \union {n}
      BY <2>1 DEF n
    <3>10. IndexesOf(y, d, t) = {s[m].name : m \in 1 .. k + 1}
      BY <3>2, <3>7, <3>9 DEF Indexed
    <3>11. ASSUME NEW m \in 1 .. k + 1, s[m].id >= 0 PROVE Im(y, d, t).id[s[m].name] = s[m].id
      <4>1. CASE m = k + 1
        BY <3>7, <3>11, <4>1 DEF Indexed, n, xoid
      <4>2. CASE m # k + 1
        <5>1. m \in 1 .. k
          BY <2>1, <4>2
        <5>2. s[m].name \in IndexesOf(x, d, t) /\ Im(x, d, t).id[s[m].name] = s[m].id
          BY <3>2, <3>11, <5>1
        <5> QED
          BY <3>7, <5>2 DEF Indexed
      <4> QED
        BY <4>1, <4>2
    <3>12. DataFits(y, d, t) /\ Data(y, d, t).row = Data(w, d, t).row /\ y.sys = w.sys
      BY <3>1, <3>7 DEF Indexed, IndexedUpTo
    <3> QED
      BY <3>8, <3>10, <3>11, <3>12 DEF IndexedUpTo, y
  <2> HIDE DEF Good
  <2> QED
    BY <2>1, <2>4, <2>5 DEF Goes, y
<1>6. Len(s) \in B
  <2> HIDE DEF B
  <2>1. Len(s) \in 0 .. Len(s)
    BY <1>1
  <2> QED
    BY <1>1, <1>4, <1>5, <2>1, UpTo
<1> QED
  BY <1>3, <1>6

-------------------------------------------------------------------------------
(* The statements of the system database change nothing else.                *)

SysOnly(w, x) == Quiet(w, x) /\ x.dep = w.dep
WithSys(w, s) == [w EXCEPT !.sys = s]

LEMMA WithSysIs ==
    ASSUME NEW w, IsWorld(w), NEW s
    PROVE  SysOnly(w, WithSys(w, s)) /\ WithSys(w, s).sys = s
BY DEF IsWorld, SysOnly, Quiet, WithSys

LEMMA SysOnlyTrans ==
    ASSUME NEW w, NEW x, NEW y, SysOnly(w, x), SysOnly(x, y)
    PROVE  SysOnly(w, y)
BY DEF SysOnly, Quiet

LEMMA SysSchemaIs ==
    ASSUME NEW w, IsWorld(w), NEW d, NEW t
    PROVE  SysOnly(w, SysSchema(w, d, t))
<1> DEFINE v == {IF r.db = d /\ r.table = t THEN [r EXCEPT !.schema = Text(w, d, t)] ELSE r : r \in w.sys.tables}
           s == [w.sys EXCEPT !.tables = v]
<1>1. SysSchema(w, d, t) = WithSys(w, s)
  BY DEF SysSchema, WithSys
<1> HIDE DEF s
<1> QED
  BY <1>1, WithSysIs

LEMMA SysIndexIs ==
    ASSUME NEW w, IsWorld(w), NEW d, NEW t, NEW i
    PROVE  SysOnly(w, SysAddIndex(w, d, t, i)) /\ SysOnly(w, SysDelIndex(w, d, t, i))
<1> DEFINE a == [w.sys EXCEPT !.indexes = @ \union {<<d, t, i>>}]
           b == [w.sys EXCEPT !.indexes = @ \ {<<d, t, i>>}]
<1>1. SysAddIndex(w, d, t, i) = SysSchema(WithSys(w, a), d, t)
  BY DEF SysAddIndex, WithSys
<1>2. SysDelIndex(w, d, t, i) = SysSchema(WithSys(w, b), d, t)
  BY DEF SysDelIndex, WithSys
<1> HIDE DEF a, b
<1>3. SysOnly(w, WithSys(w, a)) /\ SysOnly(w, WithSys(w, b))
  BY WithSysIs
<1>4. IsWorld(WithSys(w, a)) /\ IsWorld(WithSys(w, b))
  BY <1>3 DEF SysOnly, Quiet
<1>5. /\ SysOnly(WithSys(w, a), SysSchema(WithSys(w, a), d, t))
      /\ SysOnly(WithSys(w, b), SysSchema(WithSys(w, b), d, t))
  BY <1>4, SysSchemaIs
<1> QED
  BY <1>1, <1>2, <1>3, <1>5, SysOnlyTrans

LEMMA SysDelTableIs ==
    ASSUME NEW w, IsWorld(w), NEW d, NEW t
    PROVE  SysOnly(w, SysDelTable(w, d, t))
<1> DEFINE a == w.sys.columns \ {<<d, t>>}
           b == {r \in w.sys.tables : r.db # d \/ r.table # t}
           s == [w.sys EXCEPT !.columns = a]
           h == [w EXCEPT !.sys.columns = a]
           x == [h EXCEPT !.sys.tables = b]
           s2 == [h.sys EXCEPT !.tables = b]
<1>1. SysDelTable(w, d, t) = x
  BY DEF SysDelTable
<1>2. h = WithSys(w, s)
  BY DEF WithSys
<1>3. x = WithSys(h, s2)
  BY DEF WithSys
<1> HIDE DEF s, h, s2, x
<1>4. SysOnly(w, h)
  BY <1>2, WithSysIs
<1>5. SysOnly(h, x)
  BY <1>3, <1>4, WithSysIs DEF SysOnly, Quiet
<1> QED
  BY <1>1, <1>4, <1>5, SysOnlyTrans

LEMMA SysAddTableIs ==
    ASSUME NEW w, IsWorld(w), NEW d, NEW t
    PROVE  SysOnly(w, SysAddTable(w, d, t))
<1> DEFINE known == \E r \in w.sys.tables : r.db = d /\ r.table = t
           row == [db |-> d, table |-> t, schema |-> Text(w, d, t)]
           c == {<<d, t, i>> : i \in Range(Listed(Im(w, d, t)))}
           s1 == [w.sys EXCEPT !.tables = IF known THEN @ ELSE @ \union {row}]
           h1 == [w EXCEPT !.sys.tables = IF known THEN @ ELSE @ \union {row}]
           s2 == [h1.sys EXCEPT !.columns = @ \union {<<d, t>>}]
           h2 == [h1 EXCEPT !.sys.columns = @ \union {<<d, t>>}]
           s3 == [h2.sys EXCEPT !.indexes = @ \union c]
           h3 == [h2 EXCEPT !.sys.indexes = @ \union c]
<1>1. SysAddTable(w, d, t) = SysSchema(h3, d, t)
  BY ZenonT(40) DEF SysAddTable
<1>2. h1 = WithSys(w, s1) /\ h2 = WithSys(h1, s2) /\ h3 = WithSys(h2, s3)
  BY DEF WithSys
<1> HIDE DEF s1, s2, s3, h1, h2, h3
<1>3. SysOnly(w, h1)
  BY <1>2, WithSysIs
<1>4. SysOnly(w, h2)
  BY <1>2, <1>3, WithSysIs, SysOnlyTrans DEF SysOnly, Quiet
<1>5. SysOnly(w, h3)
  BY <1>2, <1>4, WithSysIs, SysOnlyTrans DEF SysOnly, Quiet
<1>6. SysOnly(h3, SysSchema(h3, d, t))
  BY <1>5, SysSchemaIs DEF SysOnly, Quiet
<1> QED
  BY <1>1, <1>5, <1>6, SysOnlyTrans

LEMMA CloseTableIs ==
    ASSUME NEW w, IsWorld(w), NEW d, NEW t
    PROVE  SysOnly(w, CloseTable(w, d, t))
<1> DEFINE h == SysDelTable(w, d, t)
           c == {<<d, t, i>> : i \in Range(Listed(Im(w, d, t)))}
           s == [h.sys EXCEPT !.indexes = @ \ c]
<1>1. CloseTable(w, d, t) = WithSys(h, s)
  BY DEF CloseTable, WithSys
<1> HIDE DEF s, h
<1>2. SysOnly(w, h)
  BY SysDelTableIs DEF h
<1>3. SysOnly(h, WithSys(h, s))
  BY <1>2, WithSysIs DEF SysOnly, Quiet
<1> QED
  BY <1>1, <1>2, <1>3, SysOnlyTrans

-------------------------------------------------------------------------------
(* The schema file is written.                                               *)

LEMMA IsList ==
    ASSUME NEW T, NEW n \in Nat, NEW f, f \in [1 .. n -> T]
    PROVE  f \in Seq(T) /\ Len(f) = n
OBVIOUS

LEMMA DumpIndexesIs ==
    ASSUME NEW om, NEW S, Managed(om, S), S \subseteq Indexes, \A i \in S : om.id[i] \in Ids
    PROVE  LET s == DumpIndexes(om)
           IN  s \in IndexLists /\ NamesIn(s) = S /\ \A j \in DOMAIN s : s[j].id = om.id[s[j].name]
<1> DEFINE c == Listed(om)
           s == DumpIndexes(om)
<1>1. InOrder(om.id, S, c) /\ (\A i, j \in 1 .. Len(c) : c[i] = c[j] => i = j)
  BY ListedIs, ListedOnce
<1>2. s = [k \in 1 .. Len(c) |-> [name |-> c[k], id |-> om.id[c[k]]]]
  BY DEF DumpIndexes
<1> HIDE DEF c, s
<1>3. c \in Seq(S)
  BY <1>1 DEF InOrder
<1>4. Len(c) \in Nat /\ \A k \in 1 .. Len(c) : c[k] \in S
  BY ONLY <1>3
<1>5. DOMAIN s = 1 .. Len(c) /\ \A k \in 1 .. Len(c) : s[k].name = c[k] /\ s[k].id = om.id[c[k]]
  BY <1>2
<1>6. s \in [1 .. Len(c) -> [name : Indexes, id : Ids]]
  BY <1>2, <1>4
<1>7. s \in Seq([name : Indexes, id : Ids]) /\ Len(s) = Len(c)
  <2> DEFINE T == [name : Indexes, id : Ids]
  <2> HIDE DEF T
  <2>1. s \in [1 .. Len(c) -> T] => s \in Seq(T) /\ Len(s) = Len(c)
    BY <1>4, IsList
  <2> QED
    BY <1>6, <2>1 DEF T
<1>8. Sorted(s)
  BY <1>1, <1>5, <1>7 DEF Sorted, InOrder
<1>9. NamesIn(s) = S
  <2>1. \A k \in DOMAIN s : s[k].name \in S
    BY <1>4, <1>5
  <2>2. \A q \in S : \E k \in DOMAIN s : s[k].name = q
    BY <1>1, <1>5 DEF InOrder
  <2> QED
    BY <2>1, <2>2 DEF NamesIn
<1> QED
  BY <1>5, <1>7, <1>8, <1>9 DEF IndexLists, s

LEMMA DumpIs ==
    ASSUME NEW w, NEW d \in Dbs, Sound(w, d)
    PROVE  Dump(w, d) \in Schemas(d) /\ Describes(w, d, Dump(w, d))
<1> DEFINE c == Listed(Tm(w, d))
           S == Loaded(w, d)
           e(k) == [name |-> c[k], id |-> Tm(w, d).id[c[k]], opt |-> Opt(w, d, c[k]),
                    indexes |-> DumpIndexes(Im(w, d, c[k]))]
           s == Dump(w, d)
<1>0. Managed(Tm(w, d), S) /\ S \subseteq Tables[d]
  BY DEF Sound
<1>1. InOrder(Tm(w, d).id, S, c) /\ (\A i, j \in 1 .. Len(c) : c[i] = c[j] => i = j)
  BY <1>0, ListedIs, ListedOnce
<1>2. s = [k \in 1 .. Len(c) |-> e(k)]
  BY DEF Dump
<1> HIDE DEF c, s
<1>3. c \in Seq(S)
  BY <1>1 DEF InOrder
<1>4. Len(c) \in Nat /\ \A k \in 1 .. Len(c) : c[k] \in S
  BY ONLY <1>3
<1>5. ASSUME NEW k \in 1 .. Len(c) PROVE e(k) \in Entry(d) /\ EntryOf(w, d, e(k))
  <2> DEFINE t == c[k]
             im == Im(w, d, t)
  <2>1. t \in S /\ t \in Tables[d]
    BY <1>0, <1>4
  <2>2. Managed(im, IndexesOf(w, d, t)) /\ IndexesOf(w, d, t) \subseteq Indexes
        /\ \A i \in IndexesOf(w, d, t) : im.id[i] \in Ids
    BY <2>1 DEF Sound
  <2> DEFINE x == DumpIndexes(im)
  <2>3. /\ x \in IndexLists /\ NamesIn(x) = IndexesOf(w, d, t)
        /\ \A j \in DOMAIN x : x[j].id = im.id[x[j].name]
    BY <2>2, DumpIndexesIs
  <2>4. Opt(w, d, t) \in Options
    BY <2>1 DEF Sound, Shape, DbShape, TabShape, Opt, Loaded
  <2>5. FileId(w, d, t) \in Nat /\ FileId(w, d, t) = Tm(w, d).id[t]
    BY <2>1, IdIs DEF FileId
  <2> HIDE DEF x, im, t
  <2>6. e(k) = [name |-> t, id |-> FileId(w, d, t), opt |-> Opt(w, d, t), indexes |-> x]
    BY <2>5 DEF x, im, t
  <2> HIDE DEF e
  <2>7. e(k) \in Entry(d)
    BY <2>1, <2>3, <2>4, <2>5, <2>6 DEF Entry
  <2>8. EntryOf(w, d, e(k))
    BY <2>1, <2>3, <2>6 DEF EntryOf, im
  <2> QED
    BY <2>7, <2>8
<1>6. DOMAIN s = 1 .. Len(c) /\ \A k \in 1 .. Len(c) : s[k] = e(k)
  BY <1>2
<1>7. \A k \in 1 .. Len(c) : s[k].name = c[k] /\ s[k].id = Tm(w, d).id[c[k]]
  BY <1>6
<1> HIDE DEF e
<1>8. s \in Seq(Entry(d)) /\ Len(s) = Len(c)
  <2> DEFINE T == Entry(d)
  <2>1. s = [k \in 1 .. Len(c) |-> s[k]]
    BY <1>2
  <2> HIDE DEF T
  <2>2. \A k \in 1 .. Len(c) : s[k] \in T
    BY <1>5, <1>6 DEF T
  <2>3. s \in [1 .. Len(c) -> T]
    BY ONLY <2>1, <2>2
  <2>4. s \in Seq(T) /\ Len(s) = Len(c)
    BY <1>4, <2>3, IsList
  <2> QED
    BY <2>4 DEF T
<1>9. Sorted(s)
  BY <1>1, <1>7, <1>8 DEF Sorted, InOrder
<1>10. NamesIn(s) = S
  <2>1. \A k \in DOMAIN s : s[k].name \in S
    BY <1>4, <1>6, <1>7
  <2>2. \A q \in S : \E k \in DOMAIN s : s[k].name = q
    BY <1>1, <1>6, <1>7, SMTT(40) DEF InOrder
  <2> QED
    BY <2>1, <2>2 DEF NamesIn
<1>11. \A k \in DOMAIN s : EntryOf(w, d, s[k])
  BY <1>5, <1>6
<1> QED
  BY <1>8, <1>9, <1>10, <1>11 DEF Schemas, Describes, s

Rewritten(p, c, s) == [p EXCEPT !.cut = c, !.schema = s]

LEMMA RewrittenIs ==
    ASSUME NEW d, NEW p \in Disks(d), NEW c \in BOOLEAN, NEW s \in Schemas(d)
    PROVE  LET q == Rewritten(p, c, s)
           IN  q \in Disks(d) /\ q.cut = c /\ q.schema = s /\ q.files = p.files
<1> DEFINE h == [p EXCEPT !.cut = c]
           q == [h EXCEPT !.schema = s]
<1>1. Rewritten(p, c, s) = q
  BY DEF Rewritten
<1>2. p = [cut |-> p.cut, schema |-> p.schema, files |-> p.files] /\ p.files \in FileSets
  BY DiskIs
<1>3. h = [cut |-> c, schema |-> p.schema, files |-> p.files]
  BY <1>2
<1> HIDE DEF h
<1>4. q = [cut |-> c, schema |-> s, files |-> p.files]
  BY <1>3
<1> HIDE DEF q
<1>5. q.cut = c /\ q.schema = s /\ q.files = p.files
  BY <1>4
<1>6. q \in Disks(d)
  BY <1>2, <1>4, <1>5, DiskIs
<1> QED
  BY <1>1, <1>5, <1>6

\* A schema file that says what is in memory, and nothing else changed.
Recorded(w, x, d) ==
    /\ Frame(w, x, d) /\ Sound(x, d) /\ SameTabs(w, x, d) /\ x.sys = w.sys /\ x.dep = w.dep
    /\ x.live = w.live
    /\ \A u : Kept(w, x, d, u) /\ Data(x, d, u) = Data(w, d, u) /\ Filed(x, d, u) = Filed(w, d, u)
    /\ d \in FileDbs => /\ x.disk[d].files = w.disk[d].files /\ ~x.disk[d].cut
                        /\ Describes(x, d, x.disk[d].schema)

\* Q has the files of w with an empty schema file and with what is in memory.
Admits(w, d, Q) ==
    d \in FileDbs => \A q \in Disks(d) :
        q.files = w.disk[d].files /\ (q.cut \/ q.schema = Dump(w, d)) => q \in Q

LEMMA GenSchemaIs ==
    ASSUME NEW w, NEW d \in Dbs, Sound(w, d), NEW Q, Admits(w, d, Q)
    PROVE  Recorded(w, GenSchema(w, d), d) /\ Passes(w, GenSchema(w, d), d, Q)
<1> DEFINE y == GenSchema(w, d)
<1>1. Shape(w, d) /\ IsWorld(w)
  BY DEF Sound, Shape
<1>2. CASE d \notin FileDbs
  <2>1. y = w /\ Quiet(w, w)
    BY <1>1, <1>2 DEF GenSchema, Quiet
  <2>2. /\ Frame(w, y, d) /\ Passes(w, y, d, Q) /\ Sound(y, d) /\ SameTabs(w, y, d)
        /\ \A u : Kept(w, y, d, u)
    BY <1>1, <2>1, QuietIs
  <2> QED
    BY <1>2, <2>1, <2>2 DEF Recorded
<1>3. CASE d \in FileDbs
  <2> DEFINE p == w.disk[d]
             s == Dump(w, d)
             c == TRUE
             e == FALSE
             n == <<>>
             q1 == Rewritten(p, c, n)
             x == SetDisk(w, d, q1)
             q2 == Rewritten(x.disk[d], e, s)
  <2>1. y = SetDisk(x, d, q2)
    BY <1>3 DEF GenSchema, Write, Rewritten
  <2>2. c \in BOOLEAN /\ e \in BOOLEAN
    OBVIOUS
  <2>t. c /\ ~e
    OBVIOUS
  <2>3. p \in Disks(d) /\ w.disk = [i \in FileDbs |-> w.disk[i]] /\ s \in Schemas(d)
    BY <1>1, <1>3, DumpIs DEF Shape
  <2>4. n \in Schemas(d)
    BY DEF Schemas, Sorted
  <2> HIDE DEF c, e, n
  <2>5. q1 \in Disks(d) /\ q1.cut = c /\ q1.files = p.files
    BY <2>2, <2>3, <2>4, RewrittenIs
  <2> HIDE DEF q1
  <2>6. /\ IsWorld(x) /\ x.dm = w.dm /\ x.live = w.live /\ x.cur = w.cur /\ x.sys = w.sys
        /\ x.dep = w.dep /\ Agree(FileDbs, w.disk, x.disk, d) /\ x.disk[d] = q1
        /\ x.trail = w.trail \union {x.disk}
    BY <1>1, <1>3, <2>3, SetDiskIs
  <2> HIDE DEF x
  <2>7. q2 \in Disks(d) /\ q2.cut = e /\ q2.schema = s /\ q2.files = p.files
    BY <2>2, <2>3, <2>5, <2>6, RewrittenIs
  <2>8. x.disk = [i \in FileDbs |-> x.disk[i]]
    BY <2>6 DEF Agree
  <2> HIDE DEF q2
  <2>9. /\ IsWorld(y) /\ y.dm = x.dm /\ y.live = x.live /\ y.cur = x.cur /\ y.sys = x.sys
        /\ y.dep = x.dep /\ Agree(FileDbs, x.disk, y.disk, d) /\ y.disk[d] = q2
        /\ y.trail = x.trail \union {y.disk}
    BY <1>3, <2>1, <2>6, <2>8, SetDiskIs
  <2> HIDE DEF y, p
  <2>10. q1.cut /\ ~q2.cut
    BY ONLY <2>2, <2>t, <2>5, <2>7
  <2>11. q1 \in Q /\ q2 \in Q
    BY <1>3, <2>5, <2>7, <2>10 DEF Admits, p
  <2>12. Agree(FileDbs, w.disk, y.disk, d)
    BY <2>6, <2>9 DEF Agree
  <2>13. Passes(w, y, d, Q)
    BY <1>3, <2>6, <2>9, <2>11, <2>12 DEF Passes
  <2>14. Frame(w, y, d)
    BY <1>1, <2>6, <2>9, <2>12 DEF Frame, Agree, Shape
  <2>15. Shape(y, d)
    BY <1>1, <2>6, <2>7, <2>9, <2>12 DEF Shape, Agree
  <2>16. SameTabs(w, y, d) /\ \A u : SameTable(w, y, d, u) /\ Buffer(y, d, u) = Buffer(w, d, u)
    BY <2>6, <2>9 DEF SameTabs, SameTable, Tm, Loaded, Opt, Im, Buffer
  <2>17. \A u : OnDisk(y, d, u) = OnDisk(w, d, u) /\ FileId(y, d, u) = FileId(w, d, u)
    BY <2>16 DEF SameTabs, SameTable, OnDisk, FileId
  <2>18. y.disk[d].files = w.disk[d].files /\ ~y.disk[d].cut /\ y.disk[d].schema = s
    BY <2>7, <2>9, <2>10 DEF p
  <2>19. \A u : Data(y, d, u) = Data(w, d, u) /\ Filed(y, d, u) = Filed(w, d, u)
    BY <2>16, <2>17, <2>18, DataAt DEF Filed
  <2>20. Sound(y, d)
    BY <2>15, <2>16, SoundKept
  <2>21. Describes(w, d, s)
    BY DumpIs
  <2>22. Describes(y, d, s)
    BY <2>16, <2>17, <2>21 DEF Describes, EntryOf, SameTabs, SameTable, IndexesOf
  <2>23. Recorded(w, y, d)
    BY <2>6, <2>9, <2>14, <2>16, <2>18, <2>19, <2>20, <2>22 DEF Recorded, Kept
  <2> QED
    BY <2>13, <2>23 DEF y
<1> QED
  BY <1>2, <1>3

LEMMA GenSchemaGoes ==
    ASSUME NEW w, IsWorld(w), NEW d
    PROVE  Goes(w, GenSchema(w, d))
<1> DEFINE q1 == [w.disk[d] EXCEPT !.cut = TRUE, !.schema = <<>>]
           x == SetDisk(w, d, q1)
           q2 == [x.disk[d] EXCEPT !.cut = FALSE, !.schema = Dump(w, d)]
           y == SetDisk(x, d, q2)
<1>1. GenSchema(w, d) = w \/ GenSchema(w, d) = y
  BY DEF GenSchema, Write
<1> HIDE DEF q1
<1>2. Goes(w, x)
  BY SetDiskGoes
<1> HIDE DEF x, q2
<1>3. Goes(w, y)
  BY <1>2, SetDiskGoes, GoesTrans DEF Goes
<1> QED
  BY <1>1, <1>3, GoesSelf

LEMMA IndexLoopGoes ==
    ASSUME NEW w, IsWorld(w), NEW d, NEW t, NEW s, Len(s) \in Nat
    PROVE  Goes(w, AddIndexes(w, d, t, s))
<1>i. IndexLoopRuns(Len(s), w, d, t, s)
  BY IndexLoopSteps
<1>2. PICK f : /\ f = CHOOSE g : g = IndexLoop(0 .. Len(s), w, d, t, s, g)
               /\ f[0] = w
               /\ \A k \in 1 .. Len(s) : f[k] = AddIndex(f[k - 1], d, t, s[k].name, s[k].id)
  BY <1>i DEF IndexLoopRuns
<1>3. AddIndexes(w, d, t, s) = f[Len(s)]
  BY <1>2, Zenon DEF AddIndexes, IndexLoop
<1> DEFINE B == {k \in 0 .. Len(s) : Goes(w, f[k])}
<1>4. 0 \in B
  BY <1>2, GoesSelf
<1>5. ASSUME NEW k \in 0 .. Len(s) - 1, k \in B PROVE k + 1 \in B
  <2>1. k + 1 \in 1 .. Len(s) /\ (k + 1) - 1 = k /\ k + 1 \in 0 .. Len(s)
    OBVIOUS
  <2>2. f[k + 1] = AddIndex(f[k], d, t, s[k + 1].name, s[k + 1].id)
    BY <1>2, <2>1
  <2>3. Goes(w, f[k])
    BY <1>5
  <2> DEFINE x == f[k]
             y == f[k + 1]
  <2> HIDE DEF x, y
  <2>4. Goes(w, x) /\ IsWorld(x) /\ y = AddIndex(x, d, t, s[k + 1].name, s[k + 1].id)
    BY <2>2, <2>3 DEF Goes, x, y
  <2>5. Goes(x, y)
    BY <2>4, AddIndexGoes
  <2>6. Goes(w, y)
    BY <2>4, <2>5, GoesTrans
  <2> QED
    BY <2>1, <2>6 DEF y
<1>6. Len(s) \in B
  <2> HIDE DEF B
  <2>1. Len(s) \in 0 .. Len(s)
    OBVIOUS
  <2> QED
    BY <1>4, <1>5, <2>1, UpTo
<1> QED
  BY <1>3, <1>6

-------------------------------------------------------------------------------
(* Tables are created.                                                       *)

SetTabs(w, d, m, g) == [w EXCEPT !.live[d].tm = m, !.live[d].tab = g]

LEMMA AssignTabs ==
    ASSUME NEW w, IsWorld(w), NEW d \in Dbs, w.live = [e \in Dbs |-> w.live[e]], DbShape(w.live[d]),
           NEW m, NEW g
    PROVE  Assigned(w, SetTabs(w, d, m, g), d) /\ SetTabs(w, d, m, g).live[d] = [tm |-> m, tab |-> g]
<1> DEFINE v == w.live[d]
           v1 == [tm |-> m, tab |-> v.tab]
           v2 == [tm |-> m, tab |-> g]
           h1 == [w EXCEPT !.live[d].tm = m]
           h2 == [h1 EXCEPT !.live[d].tab = g]
           y1 == [w EXCEPT !.live[d] = v1]
           y2 == [y1 EXCEPT !.live[d] = v2]
<1>1. SetTabs(w, d, m, g) = h2
  BY DEF SetTabs
<1>2. v = [tm |-> v.tm, tab |-> v.tab]
  BY DEF DbShape
<1>3. [v EXCEPT !.tm = m] = v1
  BY <1>2
<1>4. h1 = y1
  BY <1>3
<1> HIDE DEF v1, v
<1>5. Assigned(w, y1, d) /\ y1.live[d] = v1
  BY AssignDb
<1> HIDE DEF h1, y1
<1>6. [h1.live[d] EXCEPT !.tab = g] = v2
  BY <1>4, <1>5 DEF v1
<1>7. h2 = y2
  BY <1>4, <1>6
<1> HIDE DEF v2
<1>8. IsWorld(y1) /\ y1.live = [e \in Dbs |-> y1.live[e]]
  BY <1>5 DEF Assigned, Agree
<1>9. Assigned(y1, y2, d) /\ y2.live[d] = v2
  BY <1>8, AssignDb
<1> HIDE DEF h2, y2
<1>10. Assigned(w, y2, d)
  BY <1>5, <1>9 DEF Assigned, Agree
<1> QED
  BY <1>1, <1>7, <1>9, <1>10 DEF v2

LEMMA FitsKept ==
    ASSUME NEW w, NEW x, NEW d, NEW u, Kept(w, x, d, u), DataFits(w, d, u)
    PROVE  DataFits(x, d, u)
BY DEF Kept, SameTable, DataFits, IndexesOf

\* A table in memory, without indexes, and its files not yet opened.
NewTable(opt) == [opt |-> opt, im |-> EmptyObjm, data |-> NoData]
Entered(w, x, d, t, opt, i) ==
    /\ Frame(w, x, d) /\ x.disk = w.disk /\ x.trail = w.trail /\ x.sys = w.sys /\ x.dep = w.dep
    /\ Sound(x, d) /\ Loaded(x, d) = Loaded(w, d) \union {t}
    /\ \A u \in Loaded(w, d) : Kept(w, x, d, u) /\ FileId(x, d, u) = FileId(w, d, u)
    /\ FileId(x, d, t) = i /\ Opt(x, d, t) = opt /\ IndexesOf(x, d, t) = {}

LEMMA EnteredIs ==
    ASSUME NEW w, NEW d \in Dbs, Sound(w, d), NEW t \in Tables[d], t \notin Loaded(w, d),
           NEW opt \in Options, NEW m, NEW i, Managed(m, Loaded(w, d) \union {t}),
           m.id = With(Tm(w, d).id, t, i)
    PROVE  Entered(w, SetTabs(w, d, m, With(w.live[d].tab, t, NewTable(opt))), d, t, opt, i)
<1> DEFINE v == w.live[d]
           b == NewTable(opt)
           g == With(v.tab, t, b)
           v2 == [tm |-> m, tab |-> g]
           x == SetTabs(w, d, m, g)
           S == Loaded(w, d)
<1>1. /\ IsWorld(w) /\ w.live = [e \in Dbs |-> w.live[e]] /\ DbShape(v) /\ DOMAIN v.tab = S /\ Shape(w, d)
      /\ Managed(Tm(w, d), S)
  BY DEF Sound, Shape, Loaded
<1>2. /\ DOMAIN g = S \union {t} /\ g = [u \in DOMAIN g |-> g[u]] /\ g[t] = b
      /\ \A u \in S : g[u] = v.tab[u]
  BY <1>1 DEF With
<1>3. b = [opt |-> opt, im |-> EmptyObjm, data |-> NoData] /\ NoData \in FileData
  BY NoDataIs DEF NewTable
<1> HIDE DEF g, b
<1>4. TabShape(b) /\ b.opt = opt /\ b.im = EmptyObjm
  BY <1>3 DEF TabShape
<1>5. DbShape(v2) /\ v2.tm = m /\ v2.tab = g
  BY <1>1, <1>2, <1>4 DEF DbShape
<1> HIDE DEF v2
<1>6. Assigned(w, x, d) /\ x.live[d] = v2
  BY <1>1, AssignTabs DEF v2
<1> HIDE DEF x
<1>7. Shape(x, d)
  BY <1>1, <1>5, <1>6 DEF Shape, Assigned, Agree
<1>8. Tm(x, d) = m /\ Loaded(x, d) = S \union {t}
  BY <1>2, <1>5, <1>6 DEF Tm, Loaded
<1>9. /\ Opt(x, d, t) = opt /\ Im(x, d, t) = EmptyObjm
      /\ \A u \in S : SameTable(w, x, d, u) /\ Buffer(x, d, u) = Buffer(w, d, u)
  BY <1>2, <1>4, <1>5, <1>6 DEF Opt, Im, SameTable, Buffer
<1>10. DOMAIN Tm(w, d).id = S
  BY <1>1 DEF Managed
<1>11. m.id[t] = i /\ \A u \in S : m.id[u] = Tm(w, d).id[u]
  BY <1>10 DEF With
<1>12. FileId(x, d, t) = i /\ \A u \in S : FileId(x, d, u) = FileId(w, d, u)
  BY <1>8, <1>11 DEF FileId
<1>13. IndexesOf(x, d, t) = {} /\ Managed(EmptyObjm, {})
  BY <1>9, EmptyIs DEF IndexesOf, EmptyObjm
<1>14. Sound(x, d)
  <2>1. ASSUME NEW u \in S \union {t}
        PROVE  /\ Managed(Im(x, d, u), IndexesOf(x, d, u)) /\ IndexesOf(x, d, u) \subseteq Indexes
               /\ \A j \in IndexesOf(x, d, u) : Im(x, d, u).id[j] \in Ids
    <3>1. CASE u = t
      BY <1>9, <1>13, <3>1
    <3>2. CASE u # t
      BY <1>9, <3>2 DEF Sound, SameTable, IndexesOf
    <3> QED
      BY <3>1, <3>2
  <2>2. S \union {t} \subseteq Tables[d]
    BY DEF Sound
  <2> QED
    BY <1>7, <1>8, <2>1, <2>2 DEF Sound
<1>15. x.disk = w.disk /\ x.trail = w.trail /\ x.sys = w.sys /\ x.dep = w.dep /\ Frame(w, x, d)
  BY <1>1, <1>6 DEF Assigned, Frame, Agree, Shape
<1>16. \A u \in S : Kept(w, x, d, u)
  <2>1. \A u \in S : OnDisk(x, d, u) = OnDisk(w, d, u)
    BY <1>9 DEF OnDisk, SameTable
  <2> QED
    BY <1>9, <1>12, <1>15, <2>1, DataAt DEF Kept, Filed
<1>17. Entered(w, x, d, t, opt, i)
  BY <1>8, <1>9, <1>12, <1>13, <1>14, <1>15, <1>16 DEF Entered
<1> QED
  BY ONLY <1>17 DEF x, g, b

\* The id that a new table gets is one whose file has no row of another.
FileFor(w, d, t, opt, xoid) ==
    d \in FileDbs /\ opt # "memory" =>
        \A i \in Nat : NewId(Tm(w, d), Loaded(w, d), xoid, i) => RowAt(w.disk[d], i) \in {NoRow, t}

Created(w, x, d, t, opt, xoid, s, Q) ==
    /\ Frame(w, x, d) /\ Passes(w, x, d, Q) /\ Held(x, d)
    /\ Loaded(x, d) = Loaded(w, d) \union {t}
    /\ \A u \in Loaded(w, d) : Kept(w, x, d, u) /\ FileId(x, d, u) = FileId(w, d, u)
    /\ NewId(Tm(w, d), Loaded(w, d), xoid, FileId(x, d, t)) /\ Opt(x, d, t) = opt
    /\ IndexesOf(x, d, t) = {s[m].name : m \in 1 .. Len(s)}
    /\ \A m \in 1 .. Len(s) : s[m].id >= 0 => Im(x, d, t).id[s[m].name] = s[m].id
    /\ Data(x, d, t).row = IF OnDisk(x, d, t) THEN RowAt(w.disk[d], FileId(x, d, t)) ELSE NoRow
    /\ d \in FileDbs => SameRows(w.disk[d], x.disk[d])

\* The table before it is known to the system tables and in the schema file.
Begun(w, d, t, opt, xoid) ==
    SetTabs(w, d, Add(Tm(w, d), t, xoid), With(w.live[d].tab, t, NewTable(opt)))
Prepared(w, d, t, opt, xoid) == OpenData(Begun(w, d, t, opt, xoid), d, t)
Made(w, d, t, opt, xoid, s) == AddIndexes(Prepared(w, d, t, opt, xoid), d, t, s)
Enlisted(w, d, t, opt, xoid, s) == SysAddTable(Made(w, d, t, opt, xoid, s), d, t)

LEMMA AddTableSteps ==
    ASSUME NEW w, NEW d, NEW t, NEW opt, NEW xoid, NEW s
    PROVE  AddTable(w, d, t, opt, xoid, s) =
             IF Overruns(Tm(w, d), xoid) THEN Departs(w)
             ELSE Saved(Enlisted(w, d, t, opt, xoid, s), d, xoid)
BY DEF AddTable, Begun, Prepared, Made, Enlisted, SetTabs, NewTable, Tm

LEMMA MadeIs ==
    ASSUME NEW w, NEW d \in Dbs, Held(w, d), NEW t \in Tables[d], t \notin Loaded(w, d),
           NEW opt \in Options, NEW xoid \in Int, ~Overruns(Tm(w, d), xoid),
           xoid >= 0 => \A u \in Loaded(w, d) : FileId(w, d, u) # xoid,
           NEW s, IndexList(s), NEW Q, Follows(w, d, Q), FileFor(w, d, t, opt, xoid)
    PROVE  LET z == Made(w, d, t, opt, xoid, s)
           IN  IsWorld(z) /\ (z.dep \/ Created(w, z, d, t, opt, xoid, s, Q))
<1> DEFINE om == Tm(w, d)
           S == Loaded(w, d)
           m == Add(om, t, xoid)
           x == Begun(w, d, t, opt, xoid)
           y == Prepared(w, d, t, opt, xoid)
           z == Made(w, d, t, opt, xoid, s)
<1>1. Sound(w, d) /\ Managed(om, S) /\ t \in Names
  BY NameIs DEF Held, Sound
<1>2. xoid >= 0 => \A u \in S : om.id[u] # xoid
  BY DEF FileId
<1>3. Managed(m, S \union {t}) /\ \E i : NewId(om, S, xoid, i) /\ m.id = With(om.id, t, i)
  BY <1>1, <1>2, AddIs
<1>4. PICK i : NewId(om, S, xoid, i) /\ m.id = With(om.id, t, i)
  BY <1>3
<1> HIDE DEF m
<1>5. Entered(w, x, d, t, opt, i)
  BY <1>1, <1>3, <1>4, EnteredIs DEF Begun, m
<1> HIDE DEF x
<1>6. Sound(x, d) /\ t \in Loaded(x, d) /\ x.disk = w.disk /\ IndexesOf(x, d, t) = {}
  BY <1>5 DEF Entered
<1>7. Follows(x, d, Q)
  BY <1>6 DEF Follows
<1>8. y = OpenData(x, d, t)
  BY DEF Prepared, x
<1> HIDE DEF y
<1>9. /\ Touches(x, y, d, t, Q) /\ y.dep = x.dep /\ y.sys = x.sys /\ SameTable(x, y, d, t)
      /\ Filed(y, d, t)
      /\ Data(y, d, t) = IF OnDisk(x, d, t) /\ FileId(x, d, t) \in DOMAIN x.disk[d].files
                         THEN x.disk[d].files[FileId(x, d, t)] ELSE NoData
  BY <1>6, <1>7, <1>8, OpenDataIs
<1>10. i \in Nat /\ FileId(x, d, t) = i /\ Opt(x, d, t) = opt
  BY <1>4, <1>5 DEF NewId, Entered
<1>11. Data(y, d, t).row = IF OnDisk(x, d, t) THEN RowAt(w.disk[d], i) ELSE NoRow
  BY <1>6, <1>9, <1>10, NoDataIs DEF RowAt
<1>12. Data(y, d, t).row \in {NoRow, t}
  BY <1>4, <1>10, <1>11 DEF FileFor, OnDisk
<1>13. IndexesOf(y, d, t) = {}
  BY <1>6, <1>9 DEF SameTable, IndexesOf
<1>14. DataFits(y, d, t)
  BY <1>9, <1>12, <1>13 DEF DataFits
<1>15. Sound(y, d) /\ t \in Loaded(y, d) /\ Follows(y, d, Q)
  BY <1>6, <1>7, <1>9, FollowsTouch DEF Touches, SameTabs
<1>16. z = AddIndexes(y, d, t, s)
  BY DEF Made, y
<1> HIDE DEF z
<1>17. IsWorld(z) /\ (z.dep \/ IndexedUpTo(y, z, d, t, s, Len(s), Q))
  BY <1>13, <1>14, <1>15, <1>16, AddIndexesIs
<1>18. ASSUME IndexedUpTo(y, z, d, t, s, Len(s), Q)
       PROVE  Created(w, z, d, t, opt, xoid, s, Q)
  <2>1. Touches(y, z, d, t, Q) /\ DataFits(z, d, t) /\ Data(z, d, t).row = Data(y, d, t).row
    BY <1>18 DEF IndexedUpTo
  <2>2. Touches(x, z, d, t, Q)
    BY <1>9, <2>1, TouchesTrans
  <2>3. Frame(w, z, d) /\ Passes(w, z, d, Q)
    <3>1. Frame(w, x, d) /\ Passes(w, x, d, Q)
      BY <1>5 DEF Entered, Passes
    <3> QED
      BY <2>2, <3>1, FrameTrans, PassesTrans DEF Touches
  <2>4. Loaded(z, d) = S \union {t} /\ Tm(z, d) = Tm(x, d)
    BY <1>5, <2>2 DEF Entered, Touches, SameTabs
  <2>5. \A u \in S : Kept(w, z, d, u) /\ FileId(z, d, u) = FileId(w, d, u)
    <3>1. \A u \in S : u # t /\ u \in Loaded(x, d)
      BY <1>5 DEF Entered
    <3>2. \A u \in S : Kept(x, z, d, u) /\ Kept(w, x, d, u) /\ FileId(x, d, u) = FileId(w, d, u)
      BY <1>5, <2>2, <3>1 DEF Entered, Touches
    <3> QED
      BY <2>4, <3>2 DEF Kept, SameTable, FileId
  <2>6. FileId(z, d, t) = i /\ Opt(z, d, t) = opt
    BY <1>10, <2>2, <2>4 DEF FileId, Touches
  <2>7. OnDisk(z, d, t) = OnDisk(x, d, t)
    BY <1>10, <2>6 DEF OnDisk
  <2>8. d \in FileDbs => SameRows(w.disk[d], z.disk[d])
    BY <1>6, <2>2 DEF Touches
  <2>9. Held(z, d)
    <3>1. \A u \in S : DataFits(z, d, u)
      BY <2>5, FitsKept DEF Held
    <3> QED
      BY <2>1, <2>2, <2>4, <3>1 DEF Held, Touches
  <2> QED
    BY <1>4, <1>11, <1>18, <2>1, <2>3, <2>4, <2>5, <2>6, <2>7, <2>8, <2>9 DEF Created, IndexedUpTo
<1> QED
  BY <1>17, <1>18 DEF z

LEMMA CreatedQuiet ==
    ASSUME NEW w, NEW y, NEW z, NEW d, NEW t, NEW opt, NEW xoid, NEW s, NEW Q,
           Created(w, y, d, t, opt, xoid, s, Q), SysOnly(y, z)
    PROVE  Created(w, z, d, t, opt, xoid, s, Q)
<1>1. Quiet(y, z) /\ Shape(y, d) /\ z.disk = y.disk /\ z.live = y.live
  BY DEF SysOnly, Created, Held, Sound, Quiet
<1>2. /\ Frame(y, z, d) /\ Passes(y, z, d, Q) /\ SameTabs(y, z, d) /\ (Held(y, d) <=> Held(z, d))
      /\ \A u : Kept(y, z, d, u) /\ Data(z, d, u) = Data(y, d, u)
  BY <1>1, QuietIs
<1>3. Frame(w, z, d) /\ Passes(w, z, d, Q)
  BY <1>2, FrameTrans, PassesTrans DEF Created
<1>4. \A u : FileId(z, d, u) = FileId(y, d, u) /\ Opt(z, d, u) = Opt(y, d, u) /\ Im(z, d, u) = Im(y, d, u)
  BY <1>1 DEF FileId, Opt, Im, Tm
<1>5. OnDisk(z, d, t) = OnDisk(y, d, t) /\ IndexesOf(z, d, t) = IndexesOf(y, d, t)
  BY <1>4 DEF OnDisk, IndexesOf
<1>6. \A u \in Loaded(w, d) : Kept(w, z, d, u) /\ FileId(z, d, u) = FileId(w, d, u)
  BY <1>2, <1>4 DEF Created, Kept, SameTable
<1> QED
  BY <1>1, <1>2, <1>3, <1>4, <1>5, <1>6 DEF Created, SameTabs

\* xdb_create_table: a table is there with its indexes, and with the row of the
\* file that it finds, or the statement departs.
LEMMA AddTableIs ==
    ASSUME NEW w, NEW d \in Dbs, Held(w, d), NEW t \in Tables[d], t \notin Loaded(w, d),
           NEW opt \in Options, NEW xoid \in Int,
           xoid >= 0 => \A u \in Loaded(w, d) : FileId(w, d, u) # xoid,
           NEW s, IndexList(s), NEW Q, Follows(w, d, Q), FileFor(w, d, t, opt, xoid)
    PROVE  LET x == AddTable(w, d, t, opt, xoid, s)
               z == Enlisted(w, d, t, opt, xoid, s)
           IN  /\ IsWorld(x)
               /\ \/ x.dep
                  \/ Created(w, z, d, t, opt, xoid, s, Q) /\ x = Saved(z, d, xoid)
<1> DEFINE x == AddTable(w, d, t, opt, xoid, s)
           y == Made(w, d, t, opt, xoid, s)
           z == Enlisted(w, d, t, opt, xoid, s)
<1>1. IsWorld(w)
  BY DEF Held, Sound, Shape
<1>2. CASE Overruns(Tm(w, d), xoid)
  <2>1. x = Departs(w)
    BY <1>2, AddTableSteps
  <2> HIDE DEF x
  <2>2. IsWorld(x) /\ x.dep
    BY <1>1, <2>1, DepartsIs DEF Goes
  <2> QED
    BY <2>2 DEF x
<1>3. CASE ~Overruns(Tm(w, d), xoid)
  <2>1. x = Saved(z, d, xoid)
    BY <1>3, AddTableSteps
  <2>2. z = SysAddTable(y, d, t)
    BY DEF Enlisted
  <2>3. IsWorld(y) /\ (y.dep \/ Created(w, y, d, t, opt, xoid, s, Q))
    BY <1>3, MadeIs
  <2> HIDE DEF x, y, z
  <2>4. SysOnly(y, z)
    BY <2>2, <2>3, SysAddTableIs
  <2>5. IsWorld(z) /\ z.dep = y.dep
    BY <2>4 DEF SysOnly, Quiet
  <2>6. Goes(z, x)
    BY <2>1, <2>5, GenSchemaGoes, GoesSelf DEF Saved
  <2>7. y.dep \/ Created(w, z, d, t, opt, xoid, s, Q)
    BY <2>3, <2>4, CreatedQuiet
  <2>8. IsWorld(x) /\ (x.dep \/ (Created(w, z, d, t, opt, xoid, s, Q) /\ x = Saved(z, d, xoid)))
    BY <2>1, <2>5, <2>6, <2>7 DEF Goes
  <2> QED
    BY <2>8 DEF x, z
<1> QED
  BY <1>2, <1>3

LEMMA SetTabsGoes ==
    ASSUME NEW w, IsWorld(w), NEW d, NEW m, NEW g
    PROVE  Goes(w, SetTabs(w, d, m, g))
<1> DEFINE h1 == [w EXCEPT !.live[d].tm = m]
           h2 == [h1 EXCEPT !.live[d].tab = g]
<1>1. SetTabs(w, d, m, g) = h2
  BY DEF SetTabs
<1>2. Goes(w, h1)
  BY DEF Goes, IsWorld
<1> HIDE DEF h1
<1>3. Goes(h1, h2)
  BY <1>2 DEF Goes, IsWorld
<1> HIDE DEF h2
<1> QED
  BY <1>1, <1>2, <1>3, GoesTrans

LEMMA AddTableGoes ==
    ASSUME NEW w, IsWorld(w), NEW d, NEW t, NEW opt, NEW xoid, NEW s, Len(s) \in Nat
    PROVE  Goes(w, AddTable(w, d, t, opt, xoid, s))
<1> DEFINE x == AddTable(w, d, t, opt, xoid, s)
           b == Begun(w, d, t, opt, xoid)
           o == Prepared(w, d, t, opt, xoid)
           y == Made(w, d, t, opt, xoid, s)
           z == Enlisted(w, d, t, opt, xoid, s)
<1>1. x = Departs(w) \/ x = z \/ x = GenSchema(z, d)
  BY AddTableSteps DEF Saved
<1>2. Goes(w, b)
  BY SetTabsGoes DEF Begun
<1>3. (o = b \/ o = SetData(b, d, t, NoData)) /\ y = AddIndexes(o, d, t, s) /\ z = SysAddTable(y, d, t)
  BY DEF Prepared, OpenData, Made, Enlisted
<1> HIDE DEF x, b, o, y, z
<1>4. Goes(w, o)
  BY <1>2, <1>3, SetDataGoes, GoesTrans DEF Goes
<1>5. Goes(w, y)
  BY <1>3, <1>4, IndexLoopGoes, GoesTrans DEF Goes
<1>6. SysOnly(y, z)
  BY <1>3, <1>5, SysAddTableIs DEF Goes
<1>7. Goes(w, z)
  BY <1>5, <1>6 DEF Goes, SysOnly, Quiet
<1>8. Goes(z, GenSchema(z, d)) /\ Goes(w, Departs(w))
  BY <1>7, GenSchemaGoes, DepartsIs DEF Goes
<1>9. Goes(w, GenSchema(z, d))
  BY <1>7, <1>8, GoesTrans
<1>10. Goes(w, x)
  BY <1>1, <1>7, <1>8, <1>9
<1> QED
  BY <1>10 DEF x

-------------------------------------------------------------------------------
(* What the client sees, and what the files show when the memory is gone.    *)

LEMMA ViewIs ==
    ASSUME NEW w, NEW d \in Dbs, Held(w, d), NEW t \in Tables[d]
    PROVE  View(w, d, t) = IF t \in Loaded(w, d)
                           THEN [opt |-> Opt(w, d, t), row |-> Data(w, d, t).row,
                                 indexes |-> IndexesOf(w, d, t)]
                           ELSE NoTable
<1>1. t \in Names /\ Managed(Tm(w, d), Loaded(w, d))
  BY NameIs DEF Held, Sound
<1>2. Get(Tm(w, d), t) = IF t \in Loaded(w, d) THEN t ELSE NoObj
  BY <1>1, GetIs
<1>3. t # NoObj
  BY <1>1, ObjmAssumption
<1>4. CASE t \notin Loaded(w, d)
  BY <1>2, <1>4 DEF View
<1>5. CASE t \in Loaded(w, d)
  <2> DEFINE im == Im(w, d, t)
             data == Data(w, d, t)
             e == IF data.row = NoRow THEN 0 ELSE 1
             S == {i \in Known(im) : data.ix[im.id[i]] = e}
  <2>1. View(w, d, t) = [opt |-> Opt(w, d, t), row |-> data.row, indexes |-> S]
    BY <1>2, <1>3, <1>5 DEF View
  <2>2. Managed(im, IndexesOf(w, d, t))
    BY <1>5 DEF Held, Sound
  <2>3. Known(im) = IndexesOf(w, d, t)
    BY <2>2, GetIs
  <2>4. \A i \in IndexesOf(w, d, t) : data.ix[im.id[i]] = e
    BY <1>5 DEF Held, DataFits, Entries
  <2>5. S = IndexesOf(w, d, t)
    BY <2>3, <2>4
  <2> HIDE DEF S, im, data
  <2> QED
    BY <1>5, <2>1, <2>5 DEF data
<1> QED
  BY <1>4, <1>5

\* What is left of a table, or of all tables, when the memory is gone.
Forgotten(d, X) == [t \in Tables[d] |-> {Forgets(d, r) : r \in X[t]}]

LEMMA FineMono ==
    ASSUME NEW d, NEW q \in Disks(d), NEW X, NEW Y, Fine(d, q, X),
           \A t \in Tables[d] : X[t] \subseteq Y[t]
    PROVE  Fine(d, q, Y)
<1>1. q.schema \in Seq(Entry(d))
  BY DiskIs DEF Schemas
<1>2. \A k \in DOMAIN q.schema : q.schema[k].name \in Tables[d]
  <2> DEFINE T == Entry(d)
  <2> HIDE DEF T
  <2>1. \A k \in DOMAIN q.schema : q.schema[k] \in T
    BY ONLY q.schema \in Seq(T), <1>1 DEF T
  <2> QED
    BY <2>1 DEF T, Entry
<1>3. \A k \in DOMAIN q.schema : Shown(q, q.schema[k]) \in Y[q.schema[k].name]
  BY <1>2 DEF Fine
<1>4. \A t \in Tables[d] \ NamesIn(q.schema) : NoTable \in Y[t]
  BY DEF Fine
<1> QED
  BY <1>3, <1>4 DEF Fine

\* The wishes of the files are those of which nothing is forgotten.
LEMMA FineForgotten ==
    ASSUME NEW d \in FileDbs, NEW q \in Disks(d), NEW X, Fine(d, q, X)
    PROVE  Fine(d, q, Forgotten(d, X))
<1> DEFINE s == q.schema
<1>2. \A k \in DOMAIN s : s[k].name \in Tables[d]
  <2> DEFINE T == Entry(d)
  <2>0. s \in Seq(T)
    BY DiskIs DEF Schemas
  <2> HIDE DEF T, s
  <2>1. \A k \in DOMAIN s : s[k] \in T
    BY ONLY <2>0
  <2> QED
    BY <2>1 DEF T, Entry
<1>3. ASSUME NEW k \in DOMAIN s PROVE Shown(q, s[k]) \in Forgotten(d, X)[s[k].name]
  <2> DEFINE v == Shown(q, s[k])
  <2>1. v \in X[s[k].name] /\ s[k].name \in Tables[d]
    BY <1>2, <1>3 DEF Fine
  <2>2. /\ v = [opt |-> v.opt, row |-> v.row, indexes |-> v.indexes]
        /\ v.opt = "memory" => v.row = NoRow
    BY DEF Shown
  <2> HIDE DEF v, s
  <2>3. [v EXCEPT !.row = NoRow] = v \/ v.opt # "memory"
    BY ONLY <2>2
  <2>4. Forgets(d, v) = v
    BY <2>3 DEF Forgets
  <2>5. v \in Forgotten(d, X)[s[k].name]
    BY <2>1, <2>4 DEF Forgotten
  <2> QED
    BY <2>5 DEF v
<1>4. ASSUME NEW t \in Tables[d] \ NamesIn(s) PROVE NoTable \in Forgotten(d, X)[t]
  <2>1. NoTable \in X[t]
    BY <1>4 DEF Fine
  <2>2. Forgets(d, NoTable) = NoTable
    BY DEF Forgets, NoTable
  <2> QED
    BY <2>1, <2>2 DEF Forgotten
<1> QED
  BY <1>3, <1>4 DEF Fine

\* Files under a schema that says what is in memory show the tables without the
\* rows of memory.
LEMMA DescribedFine ==
    ASSUME NEW w, NEW d \in FileDbs, Held(w, d), Owned(w, d), NEW q \in Disks(d),
           q.files = w.disk[d].files, Describes(w, d, q.schema), NEW X,
           \A t \in Tables[d] : Forgets(d, View(w, d, t)) \in X[t]
    PROVE  Fine(d, q, X)
<1> DEFINE s == q.schema
<1>1. d \in Dbs
  BY CatalogAssumption
<1>2. NamesIn(s) = Loaded(w, d) /\ \A k \in DOMAIN s : EntryOf(w, d, s[k])
  BY DEF Describes
<1>3. Loaded(w, d) \subseteq Tables[d]
  BY DEF Held, Sound
<1>4. \A f \in Nat : RowAt(q, f) = RowAt(w.disk[d], f)
  BY DEF RowAt
<1> HIDE DEF s
<1>5. ASSUME NEW k \in DOMAIN s PROVE Shown(q, s[k]) \in X[s[k].name]
  <2> DEFINE e == s[k]
             t == e.name
  <2>1. /\ t \in Loaded(w, d) /\ t \in Tables[d] /\ e.id = FileId(w, d, t) /\ e.opt = Opt(w, d, t)
        /\ NamesIn(e.indexes) = IndexesOf(w, d, t)
    BY <1>2, <1>3, <1>5 DEF EntryOf
  <2> DEFINE v == [opt |-> e.opt, row |-> Data(w, d, t).row, indexes |-> NamesIn(e.indexes)]
  <2>2. View(w, d, t) = v
    BY <1>1, <2>1, ViewIs
  <2>3. Forgets(d, v) = [v EXCEPT !.row = IF e.opt = "memory" THEN NoRow ELSE @]
    BY DEF Forgets
  <2>4. e.opt # "memory" => Data(w, d, t).row = RowAt(q, e.id)
    <3>1. e.opt # "memory" => OnDisk(w, d, t) /\ Filed(w, d, t)
      BY <2>1 DEF OnDisk, Held, DataFits
    <3>2. FileId(w, d, t) \in Nat
      BY <2>1, IdIs DEF Held
    <3> QED
      BY <1>4, <2>1, <3>1, <3>2, DataAt DEF Filed, RowAt
  <2>5. Forgets(d, v) = Shown(q, e)
    BY <2>3, <2>4 DEF Shown
  <2> QED
    BY <2>1, <2>2, <2>5
<1>6. ASSUME NEW t \in Tables[d] \ NamesIn(s) PROVE NoTable \in X[t]
  <2>1. View(w, d, t) = NoTable
    BY <1>1, <1>2, ViewIs
  <2>2. Forgets(d, NoTable) = NoTable
    BY DEF Forgets, NoTable
  <2> QED
    BY <2>1, <2>2
<1>7. ASSUME NEW f \in Nat, RowAt(q, f) # NoRow
      PROVE  \E k \in DOMAIN s : s[k].id = f /\ s[k].name = RowAt(q, f) /\ s[k].opt # "memory"
  <2>1. PICK t \in Loaded(w, d) : OwnedBy(w, d, f, t)
    BY <1>4, <1>7 DEF Owned
  <2>2. PICK k \in DOMAIN s : s[k].name = t
    BY <1>2 DEF NamesIn
  <2> QED
    BY <1>2, <1>4, <2>1, <2>2 DEF EntryOf, OwnedBy, OnDisk
<1> QED
  BY <1>5, <1>6, <1>7 DEF Fine, s

\* The files of d at which the process may die in a statement.
Trail(d, X) == {q \in Disks(d) : q.cut \/ Fine(d, q, X)}

LEMMA TrailSteady ==
    ASSUME NEW d, NEW X
    PROVE  Steady(d, Trail(d, X))
<1> SUFFICES ASSUME NEW p \in Trail(d, X), NEW q \in Disks(d), SameRows(p, q) PROVE q \in Trail(d, X)
  BY DEF Steady
<1>1. q.cut = p.cut /\ q.schema = p.schema /\ \A f \in Nat : RowAt(q, f) = RowAt(p, f)
  BY DEF SameRows, SameSchema
<1>2. CASE p.cut
  BY <1>1, <1>2 DEF Trail
<1>3. CASE Fine(d, p, X)
  <2> DEFINE s == q.schema
  <2>1. \A k \in DOMAIN s : s[k].id \in Nat
    <3> DEFINE T == Entry(d)
    <3>0. s \in Seq(T)
      BY DiskIs DEF Schemas
    <3> HIDE DEF T, s
    <3>1. \A k \in DOMAIN s : s[k] \in T
      BY ONLY <3>0
    <3> QED
      BY <3>1 DEF T, Entry
  <2>2. \A k \in DOMAIN s : Shown(q, s[k]) = Shown(p, s[k])
    BY <1>1, <2>1 DEF Shown
  <2>3. \A f \in Nat : RowAt(q, f) # NoRow =>
          \E k \in DOMAIN s : s[k].id = f /\ s[k].name = RowAt(q, f) /\ s[k].opt # "memory"
    BY <1>1, <1>3 DEF Fine
  <2>4. \A k \in DOMAIN s : Shown(q, s[k]) \in X[s[k].name]
    BY <1>1, <1>3, <2>2 DEF Fine
  <2>5. \A t \in Tables[d] \ NamesIn(s) : NoTable \in X[t]
    BY <1>1, <1>3 DEF Fine
  <2>6. Fine(d, q, X)
    BY <2>3, <2>4, <2>5 DEF Fine
  <2> QED
    BY <2>6 DEF Trail
<1> QED
  BY <1>2, <1>3 DEF Trail

LEMMA TrailFollows ==
    ASSUME NEW w, NEW d, Shape(w, d), NEW X, d \in FileDbs => Fine(d, w.disk[d], X)
    PROVE  Follows(w, d, Trail(d, X))
BY TrailSteady DEF Follows, Trail, Shape

LEMMA TrailAdmits ==
    ASSUME NEW w, NEW d \in Dbs, Held(w, d), Owned(w, d), NEW X,
           \A t \in Tables[d] : Forgets(d, View(w, d, t)) \in X[t]
    PROVE  Admits(w, d, Trail(d, X))
<1> SUFFICES ASSUME d \in FileDbs, NEW q \in Disks(d), q.files = w.disk[d].files,
                    q.cut \/ q.schema = Dump(w, d)
             PROVE  q \in Trail(d, X)
  BY DEF Admits
<1>1. CASE q.cut
  BY <1>1 DEF Trail
<1>2. CASE q.schema = Dump(w, d)
  <2>1. Describes(w, d, q.schema)
    BY <1>2, DumpIs DEF Held
  <2>2. Fine(d, q, X)
    BY <2>1, DescribedFine
  <2> QED
    BY <2>2 DEF Trail
<1> QED
  BY <1>1, <1>2

LEMMA OpenFine ==
    ASSUME NEW w, NEW d \in FileDbs, NEW X, OpenOK(w, d, X)
    PROVE  ~w.disk[d].cut /\ Fine(d, w.disk[d], Forgotten(d, X))
<1>1. Held(w, d) /\ Owned(w, d) /\ ~w.disk[d].cut /\ Describes(w, d, w.disk[d].schema)
  BY DEF OpenOK
<1>2. w.disk[d] \in Disks(d)
  BY <1>1 DEF Held, Sound, Shape
<1>3. \A t \in Tables[d] : Forgets(d, View(w, d, t)) \in Forgotten(d, X)[t]
  BY DEF Forgotten, OpenOK
<1> QED
  BY <1>1, <1>2, <1>3, DescribedFine

\* What a statement leaves alone is as it was.
Seeing(tm, o, data, im, t) ==
    IF Get(tm, t) = NoObj THEN NoTable
    ELSE [opt |-> o, row |-> data.row,
          indexes |-> {i \in Known(im) : data.ix[im.id[i]] = IF data.row = NoRow THEN 0 ELSE 1}]

LEMMA OtherKept ==
    ASSUME NEW w, NEW x, NEW d \in Dbs, IsWorld(x), x.live[d] = w.live[d],
           x.live = [e \in Dbs |-> x.live[e]],
           x.disk = [e \in FileDbs |-> x.disk[e]], \A e \in FileDbs : x.disk[e] \in Disks(e),
           d \in FileDbs => x.disk[d] = w.disk[d], NEW X
    PROVE  (OpenOK(w, d, X) => OpenOK(x, d, X)) /\ (ClosedOK(w, d, X) => ClosedOK(x, d, X))
<1>1. /\ Tm(x, d) = Tm(w, d) /\ Loaded(x, d) = Loaded(w, d)
      /\ \A u : Opt(x, d, u) = Opt(w, d, u) /\ Im(x, d, u) = Im(w, d, u)
  BY DEF Tm, Loaded, Opt, Im
<1>2. \A u : OnDisk(x, d, u) = OnDisk(w, d, u) /\ FileId(x, d, u) = FileId(w, d, u)
  BY <1>1 DEF OnDisk, FileId
<1>3. \A u : Data(x, d, u) = Data(w, d, u) /\ Filed(x, d, u) = Filed(w, d, u)
  BY <1>2 DEF Data, Filed, OnDisk
<1>4. ASSUME NEW u PROVE View(x, d, u) = View(w, d, u)
  <2>1. \A z : View(z, d, u) = Seeing(Tm(z, d), Opt(z, d, u), Data(z, d, u), Im(z, d, u), u)
    BY DEF View, Seeing
  <2> QED
    BY <1>1, <1>3, <2>1
<1>5. ASSUME OpenOK(w, d, X) PROVE OpenOK(x, d, X)
  <2>1. Shape(x, d)
    BY <1>5 DEF OpenOK, Held, Sound, Shape
  <2>2. Sound(x, d)
    BY <1>1, <1>5, <2>1 DEF OpenOK, Held, Sound, IndexesOf
  <2>3. Held(x, d)
    BY <1>1, <1>3, <1>5, <2>2 DEF OpenOK, Held, DataFits, IndexesOf
  <2>4. Owned(x, d)
    BY <1>1, <1>2, <1>5 DEF OpenOK, Owned, OwnedBy
  <2>5. ASSUME NEW s, Describes(w, d, s) PROVE Describes(x, d, s)
    BY <1>1, <1>2, <2>5 DEF Describes, EntryOf, IndexesOf
  <2>6. d \in FileDbs => ~x.disk[d].cut /\ Describes(x, d, x.disk[d].schema)
    BY <1>5, <2>5 DEF OpenOK
  <2> QED
    BY <1>4, <1>5, <2>3, <2>4, <2>6 DEF OpenOK
<1>6. ClosedOK(w, d, X) => ClosedOK(x, d, X)
  BY DEF ClosedOK
<1> QED
  BY <1>5, <1>6

LEMMA SameWorld ==
    ASSUME NEW w, NEW x, NEW X, WorldOK(w, X), IsWorld(x),
           x.dm = w.dm, x.live = w.live, x.cur = w.cur, x.disk = w.disk
    PROVE  WorldOK(x, X)
<1>1. OpenDbs(x) = OpenDbs(w)
  BY DEF OpenDbs
<1>2. \A d \in OpenDbs(w) : d \in Dbs
  BY DEF WorldOK
<1>5. /\ x.live = [e \in Dbs |-> x.live[e]]
      /\ x.disk = [e \in FileDbs |-> x.disk[e]] /\ \A e \in FileDbs : x.disk[e] \in Disks(e)
  BY DEF WorldOK
<1>6. ASSUME NEW d \in Dbs
      PROVE  /\ OpenOK(w, d, X[d]) => OpenOK(x, d, X[d])
             /\ ClosedOK(w, d, X[d]) => ClosedOK(x, d, X[d])
  <2> DEFINE Y == X[d]
  <2> HIDE DEF Y
  <2>1. (OpenOK(w, d, Y) => OpenOK(x, d, Y)) /\ (ClosedOK(w, d, Y) => ClosedOK(x, d, Y))
    BY <1>5, OtherKept
  <2> QED
    BY <2>1 DEF Y
<1>3. \A d \in OpenDbs(w) : OpenOK(x, d, X[d])
  BY <1>2, <1>6 DEF WorldOK
<1>4. \A d \in Dbs \ OpenDbs(w) : ClosedOK(x, d, X[d])
  BY <1>6 DEF WorldOK
<1> QED
  BY <1>1, <1>3, <1>4 DEF WorldOK

LEMMA FrameOK ==
    ASSUME NEW w, NEW x, NEW X, WorldOK(w, X), NEW d \in OpenDbs(w), Frame(w, x, d),
           NEW Y, OpenOK(x, d, Y), Y = [t \in Tables[d] |-> Y[t]]
    PROVE  WorldOK(x, [X EXCEPT ![d] = Y])
<1> DEFINE Z == [X EXCEPT ![d] = Y]
<1>1. OpenDbs(x) = OpenDbs(w) /\ OpenDbs(w) \subseteq Dbs /\ d \in Dbs /\ d \in OpenDbs(w)
  BY DEF OpenDbs, Frame, WorldOK
<1>2. Z = [e \in Dbs |-> Z[e]] /\ Z[d] = Y /\ \A e \in Dbs \ {d} : Z[e] = X[e]
  BY <1>1 DEF WorldOK
<1> HIDE DEF Z
<1>3. \A e \in Dbs : Z[e] = [t \in Tables[e] |-> Z[e][t]]
  BY <1>2 DEF WorldOK
<1>4. /\ IsWorld(x) /\ x.live = [e \in Dbs |-> x.live[e]]
      /\ x.disk = [e \in FileDbs |-> x.disk[e]] /\ \A e \in FileDbs : x.disk[e] \in Disks(e)
  BY DEF OpenOK, Held, Sound, Shape
<1>5. ASSUME NEW e \in Dbs \ {d} PROVE x.live[e] = w.live[e] /\ (e \in FileDbs => x.disk[e] = w.disk[e])
  BY DEF Frame, Agree
<1>6. \A e \in OpenDbs(w) \ {d} : OpenOK(x, e, Z[e])
  BY <1>1, <1>2, <1>4, <1>5, OtherKept DEF WorldOK
<1>7. \A e \in Dbs \ OpenDbs(w) : ClosedOK(x, e, Z[e])
  BY <1>1, <1>2, <1>4, <1>5, OtherKept DEF WorldOK
<1>8. \A e \in OpenDbs(x) : OpenOK(x, e, Z[e])
  BY <1>1, <1>2, <1>6
<1>9. x.dm = w.dm /\ x.cur = w.cur
  BY DEF Frame
<1> QED
  BY <1>1, <1>2, <1>3, <1>4, <1>7, <1>8, <1>9 DEF WorldOK, Z

-------------------------------------------------------------------------------
(* The ends of a statement.                                                  *)

LEMMA BecomeIs ==
    ASSUME NEW w, NEW wish, Become(w, wish), IsWorld(w), w.dep \/ WorldOK(w, wish)
    PROVE  CatalogInv'
<1>1. CASE w.dep
  BY <1>1 DEF Become, CatalogInv
<1>2. CASE ~w.dep
  <2> DEFINE x == [dm |-> dm', live |-> live', cur |-> cur', sys |-> sys', disk |-> disk',
                   trail |-> {disk'}, dep |-> FALSE]
  <2>1. /\ x.dm = dm' /\ x.live = live' /\ x.cur = cur' /\ x.disk = disk'
        /\ IsWorld(x)
    BY DEF IsWorld
  <2>2. /\ dm' = w.dm /\ live' = w.live /\ cur' = w.cur /\ disk' = w.disk /\ want' = wish
    BY <1>2 DEF Become, Set
  <2> HIDE DEF x
  <2>3. WorldOK(x, wish)
    BY <1>2, <2>1, <2>2, SameWorld
  <2> QED
    BY <2>2, <2>3 DEF CatalogInv, World, x
<1> QED
  BY <1>1, <1>2

\* The engine begins.
LEMMA FreshIs ==
    ASSUME NEW k
    PROVE  LET x == Fresh(k)
           IN  /\ IsWorld(x) /\ x.live = [d \in Dbs |-> Closed] /\ x.cur = NoObj /\ x.disk = k
               /\ Managed(x.dm, {System}) /\ OpenDbs(x) = {}
<1>1. ~Overruns(EmptyObjm, -1) /\ System \in Names
  BY CatalogAssumption DEF Overruns, EmptyObjm
<1>2. Managed(Add(EmptyObjm, System, -1), {System})
  <2>1. -1 \in Int /\ ~(-1 >= 0)
    OBVIOUS
  <2>2. Managed(Add(EmptyObjm, System, -1), {} \union {System})
    BY <1>1, <2>1, EmptyIs, AddIs
  <2> QED
    BY <2>2
<1> DEFINE m == Add(EmptyObjm, System, -1)
           v == [d \in Dbs |-> Closed]
           c == FALSE
           x == Fresh(k)
<1>3. x = [dm |-> m, live |-> v, cur |-> NoObj, sys |-> NoSys, disk |-> k, trail |-> {k}, dep |-> c]
  BY DEF Fresh
<1>4. c \in BOOLEAN
  OBVIOUS
<1> HIDE DEF m, v, c, x
<1>5. IsWorld(x) /\ x.live = v /\ x.cur = NoObj /\ x.disk = k /\ x.dm = m
  BY ONLY <1>3, <1>4 DEF IsWorld
<1>6. Known(m) = {System}
  BY <1>2, GetIs DEF m
<1> QED
  BY <1>2, <1>5, <1>6 DEF OpenDbs, x, m, v

LEMMA RestartIs ==
    ASSUME NEW w, NEW k, NEW wish, Restart(w, k, wish),
           k = [d \in FileDbs |-> k[d]], \A d \in FileDbs : k[d] \in Disks(d),
           ~w.dep => \A d \in FileDbs : k[d].cut \/ Fine(d, k[d], Forgotten(d, wish[d])),
           \A d \in Dbs : \A t \in Tables[d] : wish[d][t] # {}
    PROVE  CatalogInv'
<1> DEFINE c == w.dep \/ \E d \in FileDbs : k[d].cut
           f == Fresh(k)
           x == WithDep(f, c)
           X == ForgetsAll(wish)
<1>1. Become(x, X)
  BY DEF Restart, WithDep
<1>2. /\ IsWorld(f) /\ f.live = [d \in Dbs |-> Closed] /\ f.cur = NoObj /\ f.disk = k
      /\ Managed(f.dm, {System}) /\ OpenDbs(f) = {}
  BY FreshIs
<1>3. c \in BOOLEAN
  OBVIOUS
<1> HIDE DEF f
<1>4. /\ IsWorld(x) /\ x.dep = c
      /\ x.live = f.live /\ x.cur = f.cur /\ x.disk = f.disk /\ x.dm = f.dm
  <2> HIDE DEF c
  <2> QED
    BY <1>2, <1>3, WithDepIs DEF WithDep, IsWorld
<1> HIDE DEF x
<1>5. X = [d \in Dbs |-> X[d]] /\ \A d \in Dbs : X[d] = Forgotten(d, wish[d])
  BY DEF ForgetsAll, Forgotten
<1> HIDE DEF X
<1>6. \A d \in Dbs : X[d] = [t \in Tables[d] |-> X[d][t]]
  BY <1>5 DEF Forgotten
<1>7. ASSUME ~x.dep PROVE WorldOK(x, X)
  <2>1. ~w.dep /\ \A d \in FileDbs : ~k[d].cut
    BY <1>4, <1>7
  <2>2. OpenDbs(x) = {}
    BY <1>2, <1>4 DEF OpenDbs
  <2>3. ASSUME NEW d \in Dbs PROVE ClosedOK(x, d, X[d])
    <3>1. x.live[d] = Closed
      BY <1>2, <1>4
    <3>2. CASE d \in FileDbs
      BY <1>2, <1>4, <1>5, <2>1, <3>1, <3>2 DEF ClosedOK
    <3>3. CASE d \notin FileDbs
      <4>1. ASSUME NEW t \in Tables[d] PROVE X[d][t] = {NoTable}
        <5> DEFINE Y == wish[d]
        <5>0. X[d] = Forgotten(d, Y)
          BY <1>5
        <5> HIDE DEF Y
        <5>1. X[d][t] = {Forgets(d, r) : r \in Y[t]} /\ Y[t] # {}
          BY <5>0, Zenon DEF Forgotten, Y
        <5>2. \A r : Forgets(d, r) = NoTable
          BY <3>3 DEF Forgets
        <5> QED
          BY <5>1, <5>2
      <4> QED
        BY <3>1, <3>3, <4>1 DEF ClosedOK
    <3> QED
      BY <3>2, <3>3
  <2>4. /\ x.live = [d \in Dbs |-> x.live[d]] /\ x.disk = [d \in FileDbs |-> x.disk[d]]
        /\ \A d \in FileDbs : x.disk[d] \in Disks(d)
    BY <1>2, <1>4
  <2>5. {System} = {System} \union OpenDbs(x) /\ x.cur \in OpenDbs(x) \union {NoObj}
    BY <1>2, <1>4, <2>2
  <2> QED
    BY <1>2, <1>4, <1>5, <1>6, <2>2, <2>3, <2>4, <2>5 DEF WorldOK
<1> QED
  BY <1>1, <1>4, <1>7, BecomeIs

\* The disk before a statement.
LEMMA StandsFine ==
    ASSUME NEW w, NEW X, WorldOK(w, X), NEW d \in FileDbs
    PROVE  ~w.disk[d].cut /\ Fine(d, w.disk[d], Forgotten(d, X[d]))
<1>1. d \in Dbs /\ w.disk[d] \in Disks(d)
  BY CatalogAssumption DEF WorldOK
<1>2. CASE d \in OpenDbs(w)
  BY <1>2, OpenFine DEF WorldOK
<1>3. CASE d \notin OpenDbs(w)
  <2>1. ClosedOK(w, d, X[d])
    BY <1>1, <1>3 DEF WorldOK
  <2> QED
    BY <1>1, <2>1, FineForgotten DEF ClosedOK
<1> QED
  BY <1>2, <1>3

LEMMA WishesThere ==
    ASSUME NEW w, NEW X, WorldOK(w, X), NEW d \in Dbs, NEW t \in Tables[d]
    PROVE  X[d][t] # {}
<1>1. CASE d \in OpenDbs(w)
  BY <1>1 DEF WorldOK, OpenOK
<1>2. CASE d \notin OpenDbs(w)
  <2>1. ClosedOK(w, d, X[d])
    BY <1>2 DEF WorldOK
  <2>2. CASE d \in FileDbs
    <3>1. Fine(d, w.disk[d], X[d])
      BY <2>1, <2>2 DEF ClosedOK
    <3> QED
      BY <3>1 DEF Fine, NamesIn
  <2>3. CASE d \notin FileDbs
    BY <2>1, <2>3 DEF ClosedOK
  <2> QED
    BY <2>2, <2>3
<1> QED
  BY <1>1, <1>2

LEMMA WorldIs ==
    /\ IsWorld(World) /\ ~World.dep /\ World.trail = {disk} /\ World.disk = disk /\ World.dm = dm
    /\ World.live = live /\ World.cur = cur /\ World.sys = sys
BY DEF World, IsWorld

\* What each table may be when the process dies in a statement.
Mixed(d, X, done, between) == [t \in Tables[d] |-> X[t] \union {done[t]} \union between[t]]

\* The process of a statement that departed.
LEMMA RestartDeparts ==
    ASSUME NEW w, NEW k, NEW wish, Restart(w, k, wish), w.dep
    PROVE  CatalogInv'
<1> DEFINE c == w.dep \/ \E e \in FileDbs : k[e].cut
           f == Fresh(k)
           y == WithDep(f, c)
<1>1. \E Z : Become(y, Z)
  BY DEF Restart, WithDep
<1>2. c \in BOOLEAN /\ c
  OBVIOUS
<1>3. IsWorld(f)
  BY FreshIs
<1> HIDE DEF c, f
<1>4. y.dep
  BY <1>2, <1>3, WithDepIs
<1> HIDE DEF y
<1>5. departed'
  BY <1>1, <1>4 DEF Become
<1> QED
  BY <1>5 DEF CatalogInv

LEMMA StatementIs ==
    ASSUME CatalogInv, ~departed, NEW d \in Dbs, NEW x, NEW done, NEW between,
           Statement(x, d, done, between), IsWorld(x),
           \/ x.dep
           \/ /\ WorldOK(x, [want EXCEPT ![d] = [t \in Tables[d] |-> {done[t]}]])
              /\ Passes(World, x, d, Trail(d, Forgotten(d, Mixed(d, want[d], done, between))))
    PROVE  CatalogInv'
<1> DEFINE Y == Mixed(d, want[d], done, between)
           X == [want EXCEPT ![d] = [t \in Tables[d] |-> {done[t]}]]
           wish == [want EXCEPT ![d] = [t \in Tables[d] |-> @[t] \union {done[t]} \union between[t]]]
<1>1. WorldOK(World, want)
  BY DEF CatalogInv
<1>2. CASE Become(x, X)
  BY <1>2, BecomeIs
<1>3. ASSUME NEW k \in x.trail, Restart(x, k, wish)
      PROVE  CatalogInv'
  <2>1. want = [e \in Dbs |-> want[e]]
    BY <1>1 DEF WorldOK
  <2>2. wish[d] = Y /\ \A e \in Dbs \ {d} : wish[e] = want[e]
    BY <2>1 DEF Mixed
  <2> HIDE DEF wish
  <2>3. ASSUME NEW e \in Dbs, NEW t \in Tables[e] PROVE want[e][t] \subseteq wish[e][t]
    <3>1. CASE e = d
      <4>1. wish[e][t] = want[e][t] \union {done[t]} \union between[t]
        BY <2>2, <3>1 DEF Mixed
      <4> QED
        BY <4>1
    <3>2. CASE e # d
      BY <2>2, <3>2
    <3> QED
      BY <3>1, <3>2
  <2>4. \A e \in Dbs : \A t \in Tables[e] : wish[e][t] # {}
    <3>1. ASSUME NEW e \in Dbs, NEW t \in Tables[e] PROVE wish[e][t] # {}
      <4>1. want[e][t] # {}
        BY <1>1, WishesThere
      <4> QED
        BY <2>3, <4>1
    <3> QED
      BY <3>1
  <2>5. ASSUME NEW e \in FileDbs
        PROVE  disk[e] \in Disks(e) /\ Fine(e, disk[e], Forgotten(e, wish[e]))
    <3>1. e \in Dbs /\ disk[e] \in Disks(e)
      BY <1>1, WorldIs, CatalogAssumption DEF WorldOK
    <3>2. Fine(e, disk[e], Forgotten(e, want[e]))
      BY <1>1, StandsFine, WorldIs
    <3> DEFINE A == Forgotten(e, want[e])
               B == Forgotten(e, wish[e])
    <3>3. \A t \in Tables[e] : A[t] \subseteq B[t]
      BY <2>3, <3>1 DEF Forgotten
    <3> HIDE DEF A, B
    <3>4. Fine(e, disk[e], B)
      BY <3>1, <3>2, <3>3, FineMono DEF A
    <3> QED
      BY <3>1, <3>4 DEF B
  <2>6. CASE x.dep
    BY <1>3, <2>6, RestartDeparts
  <2>7. CASE ~x.dep
    <3>1. Passes(World, x, d, Trail(d, Forgotten(d, Y)))
      BY <2>7
    <3>2. /\ k = [e \in FileDbs |-> k[e]]
          /\ \A e \in FileDbs : k[e] \in Disks(e) /\ (k[e].cut \/ Fine(e, k[e], Forgotten(e, wish[e])))
      <4>1. CASE k = disk
        <5>1. disk = [e \in FileDbs |-> disk[e]]
          BY <1>1, WorldIs DEF WorldOK
        <5> QED
          BY <2>5, <4>1, <5>1
      <4>2. CASE d \in FileDbs /\ Agree(FileDbs, disk, k, d) /\ k[d] \in Trail(d, Forgotten(d, Y))
        <5>1. k = [e \in FileDbs |-> k[e]] /\ \A e \in FileDbs \ {d} : k[e] = disk[e]
          BY <4>2 DEF Agree
        <5>2. k[d] \in Disks(d) /\ (k[d].cut \/ Fine(d, k[d], Forgotten(d, wish[d])))
          BY <2>2, <4>2 DEF Trail
        <5>3. \A e \in FileDbs \ {d} : k[e] \in Disks(e) /\ Fine(e, k[e], Forgotten(e, wish[e]))
          BY <2>5, <5>1
        <5> QED
          BY <5>1, <5>2, <5>3
      <4> QED
        BY <3>1, <4>1, <4>2, WorldIs DEF Passes
    <3> QED
      BY <1>3, <2>4, <3>2, RestartIs
  <2> QED
    BY <2>6, <2>7
<1> QED
  BY <1>2, <1>3 DEF Statement

-------------------------------------------------------------------------------
(* The statements on an open database.                                       *)

Promised(d, done) == [t \in Tables[d] |-> {done[t]}]

\* What a statement that has done its work has come to.
Ended(w, x, d, X, done, between) ==
    /\ OpenOK(x, d, Promised(d, done)) /\ Frame(w, x, d)
    /\ Passes(w, x, d, Trail(d, Forgotten(d, Mixed(d, X, done, between))))

LEMMA OpenQuiet ==
    ASSUME NEW w, NEW x, NEW d \in Dbs, Quiet(w, x), NEW X, OpenOK(w, d, X)
    PROVE  OpenOK(x, d, X)
<1>1. Shape(w, d) /\ x.live = w.live /\ x.disk = w.disk /\ IsWorld(x)
  BY DEF OpenOK, Held, Sound, Quiet
<1>2. /\ x.live[d] = w.live[d] /\ x.live = [e \in Dbs |-> x.live[e]]
      /\ x.disk = [e \in FileDbs |-> x.disk[e]] /\ \A e \in FileDbs : x.disk[e] \in Disks(e)
  BY <1>1 DEF Shape
<1> QED
  BY <1>1, <1>2, OtherKept

LEMMA EndedQuiet ==
    ASSUME NEW w, NEW x, NEW y, NEW d \in Dbs, NEW X, NEW done, NEW between,
           Ended(w, x, d, X, done, between), Quiet(x, y)
    PROVE  Ended(w, y, d, X, done, between)
<1>1. Shape(x, d)
  BY DEF Ended, OpenOK, Held, Sound
<1>2. Frame(x, y, d) /\ \A Q : Passes(x, y, d, Q)
  BY <1>1, QuietIs
<1>3. OpenOK(y, d, Promised(d, done))
  BY OpenQuiet DEF Ended
<1> QED
  BY <1>2, <1>3, FrameTrans, PassesTrans DEF Ended

LEMMA RecordedIs ==
    ASSUME NEW w, NEW x, NEW d \in Dbs, Held(w, d), Owned(w, d), Recorded(w, x, d)
    PROVE  Held(x, d) /\ Owned(x, d) /\ \A u : View(x, d, u) = View(w, d, u)
<1>1. /\ Tm(x, d) = Tm(w, d) /\ Loaded(x, d) = Loaded(w, d)
      /\ \A u : Opt(x, d, u) = Opt(w, d, u) /\ Im(x, d, u) = Im(w, d, u)
  BY DEF Recorded, Tm, Loaded, Opt, Im
<1>2. \A u : OnDisk(x, d, u) = OnDisk(w, d, u) /\ FileId(x, d, u) = FileId(w, d, u)
  BY <1>1 DEF OnDisk, FileId
<1>3. ASSUME NEW u PROVE View(x, d, u) = View(w, d, u)
  <2>1. \A z : View(z, d, u) = Seeing(Tm(z, d), Opt(z, d, u), Data(z, d, u), Im(z, d, u), u)
    BY DEF View, Seeing
  <2>2. Data(x, d, u) = Data(w, d, u)
    BY DEF Recorded
  <2> QED
    BY <1>1, <2>1, <2>2
<1>4. Held(x, d)
  <2>1. \A u \in Loaded(x, d) : DataFits(x, d, u)
    BY <1>1, FitsKept DEF Recorded, Held
  <2> QED
    BY <2>1 DEF Held, Recorded
<1>5. Owned(x, d)
  <2>1. ASSUME d \in FileDbs, NEW f \in Nat, RowAt(x.disk[d], f) # NoRow
        PROVE  \E t \in Loaded(x, d) : OwnedBy(x, d, f, t)
    <3>1. RowAt(x.disk[d], f) = RowAt(w.disk[d], f)
      BY <2>1 DEF Recorded, RowAt
    <3>2. PICK t \in Loaded(w, d) : OwnedBy(w, d, f, t)
      BY <2>1, <3>1 DEF Owned
    <3> QED
      BY <1>1, <1>2, <3>1, <3>2 DEF OwnedBy
  <2> QED
    BY <2>1 DEF Owned
<1> QED
  BY <1>3, <1>4, <1>5

LEMMA EndsRecorded ==
    ASSUME NEW w, NEW z, NEW d \in Dbs, NEW X, NEW done, NEW between,
           Frame(w, z, d), Passes(w, z, d, Trail(d, Forgotten(d, Mixed(d, X, done, between)))),
           Held(z, d), Owned(z, d), \A u \in Tables[d] : View(z, d, u) = done[u]
    PROVE  Ended(w, GenSchema(z, d), d, X, done, between)
<1> DEFINE Y == Forgotten(d, Mixed(d, X, done, between))
           x == GenSchema(z, d)
<1>1. \A u \in Tables[d] : Forgets(d, View(z, d, u)) \in Y[u]
  BY DEF Forgotten, Mixed
<1> HIDE DEF Y
<1>2. Admits(z, d, Trail(d, Y))
  BY <1>1, TrailAdmits
<1>3. Recorded(z, x, d) /\ Passes(z, x, d, Trail(d, Y))
  BY <1>2, GenSchemaIs DEF Held
<1> HIDE DEF x
<1>4. Held(x, d) /\ Owned(x, d) /\ \A u \in Tables[d] : View(x, d, u) = done[u]
  BY <1>3, RecordedIs
<1>5. OpenOK(x, d, Promised(d, done))
  BY <1>3, <1>4 DEF OpenOK, Promised, Recorded
<1>6. Frame(w, x, d) /\ Passes(w, x, d, Trail(d, Y))
  BY <1>3, FrameTrans, PassesTrans DEF Recorded, Y
<1> QED
  BY <1>5, <1>6 DEF Ended, Y, x

\* The files before a statement are among those it passes.
LEMMA TrailBegins ==
    ASSUME NEW w, NEW d \in Dbs, NEW X, OpenOK(w, d, X), NEW done, NEW between
    PROVE  Follows(w, d, Trail(d, Forgotten(d, Mixed(d, X, done, between))))
<1> DEFINE A == Forgotten(d, X)
           B == Forgotten(d, Mixed(d, X, done, between))
<1>1. \A t \in Tables[d] : A[t] \subseteq B[t]
  BY DEF Forgotten, Mixed
<1> HIDE DEF B
<1>2. Shape(w, d)
  BY DEF OpenOK, Held, Sound
<1>3. d \in FileDbs => Fine(d, w.disk[d], A)
  BY OpenFine
<1> HIDE DEF A
<1>4. d \in FileDbs => Fine(d, w.disk[d], B)
  BY <1>1, <1>2, <1>3, FineMono DEF Shape
<1> QED
  BY <1>2, <1>4, TrailFollows DEF B

\* The indexes that a CREATE TABLE of the client names.
NewIndexes == {<<>>} \union {<<[name |-> i, id |-> -1]>> : i \in Indexes}

LEMMA NewIndexesIs == \A s \in NewIndexes : IndexList(s) /\ {s[k].name : k \in DOMAIN s} = {s[m].name : m \in 1 .. Len(s)}
<1>1. ASSUME NEW s, s = <<>> PROVE IndexList(s) /\ DOMAIN s = 1 .. Len(s)
  BY <1>1 DEF IndexList
<1>2. ASSUME NEW i \in Indexes, NEW s, s = <<[name |-> i, id |-> -1]>>
      PROVE  IndexList(s) /\ DOMAIN s = 1 .. Len(s)
  <2>1. Len(s) = 1 /\ s[1] = [name |-> i, id |-> -1] /\ DOMAIN s = 1 .. 1
    BY <1>2
  <2>2. s \in Seq([name : Indexes, id : Int])
    BY <1>2
  <2>3. \A j \in 1 .. Len(s) : j = 1 /\ s[j].id = -1
    BY <2>1
  <2> QED
    BY <2>1, <2>2, <2>3 DEF IndexList
<1> QED
  BY <1>1, <1>2 DEF NewIndexes

\* A new table has the files of no other.
LEMMA FreshFile ==
    ASSUME NEW w, NEW d, Held(w, d), Owned(w, d), d \in FileDbs, NEW i,
           NewId(Tm(w, d), Loaded(w, d), -1, i)
    PROVE  RowAt(w.disk[d], i) = NoRow
<1> SUFFICES ASSUME RowAt(w.disk[d], i) # NoRow PROVE FALSE
  OBVIOUS
<1>1. i \in Nat /\ \A m \in Loaded(w, d) : Tm(w, d).id[m] # i
  BY DEF NewId
<1>2. PICK u \in Loaded(w, d) : OwnedBy(w, d, i, u)
  BY <1>1 DEF Owned
<1> QED
  BY <1>1, <1>2 DEF OwnedBy, FileId

LEMMA TableCreated ==
    ASSUME NEW w, NEW d \in Dbs, NEW X, OpenOK(w, d, X), NEW t \in Tables[d], t \notin Loaded(w, d),
           NEW opt \in Options, NEW s \in NewIndexes, NEW done, NEW between,
           \A u \in Tables[d] \ {t} : done[u] = View(w, d, u),
           done[t] = [opt |-> opt, row |-> NoRow, indexes |-> {s[k].name : k \in DOMAIN s}]
    PROVE  LET x == AddTable(w, d, t, opt, -1, s)
           IN  IsWorld(x) /\ (x.dep \/ Ended(w, x, d, X, done, between))
<1> DEFINE x == AddTable(w, d, t, opt, -1, s)
           z == Enlisted(w, d, t, opt, -1, s)
           Q == Trail(d, Forgotten(d, Mixed(d, X, done, between)))
           n == -1
<1>1. Held(w, d) /\ Owned(w, d) /\ Follows(w, d, Q)
  BY TrailBegins DEF OpenOK
<1> HIDE DEF Q
<1>2. IndexList(s) /\ n \in Int /\ ~(n >= 0) /\ n < 0
  BY NewIndexesIs
<1>3. FileFor(w, d, t, opt, n)
  BY <1>1, FreshFile DEF FileFor
<1> DEFINE xn == AddTable(w, d, t, opt, n, s)
           zn == Enlisted(w, d, t, opt, n, s)
<1>4. x = xn /\ z = zn
  OBVIOUS
<1>n. n = -1
  OBVIOUS
<1> HIDE DEF n, x, z
<1>5. IsWorld(x) /\ (x.dep \/ (Created(w, z, d, t, opt, n, s, Q) /\ x = Saved(z, d, n)))
  <2>1. IsWorld(xn) /\ (xn.dep \/ (Created(w, zn, d, t, opt, n, s, Q) /\ xn = Saved(zn, d, n)))
    BY <1>1, <1>2, <1>3, AddTableIs
  <2> QED
    BY <1>4, <2>1
<1> HIDE DEF xn, zn
<1>6. ASSUME Created(w, z, d, t, opt, n, s, Q), x = Saved(z, d, n)
      PROVE  Ended(w, x, d, X, done, between)
  <2>1. /\ Frame(w, z, d) /\ Passes(w, z, d, Q) /\ Held(z, d) /\ Loaded(z, d) = Loaded(w, d) \union {t}
        /\ \A u \in Loaded(w, d) : Kept(w, z, d, u) /\ FileId(z, d, u) = FileId(w, d, u)
        /\ NewId(Tm(w, d), Loaded(w, d), n, FileId(z, d, t)) /\ Opt(z, d, t) = opt
        /\ IndexesOf(z, d, t) = {s[m].name : m \in 1 .. Len(s)}
        /\ Data(z, d, t).row = IF OnDisk(z, d, t) THEN RowAt(w.disk[d], FileId(z, d, t)) ELSE NoRow
        /\ d \in FileDbs => SameRows(w.disk[d], z.disk[d])
    BY <1>6 DEF Created
  <2>2. Data(z, d, t).row = NoRow
    BY <1>1, <1>n, <2>1, FreshFile DEF OnDisk
  <2>3. View(z, d, t) = done[t]
    <3>1. View(z, d, t) = [opt |-> Opt(z, d, t), row |-> Data(z, d, t).row, indexes |-> IndexesOf(z, d, t)]
      BY <2>1, ViewIs
    <3>2. {s[k].name : k \in DOMAIN s} = {s[m].name : m \in 1 .. Len(s)}
      BY NewIndexesIs
    <3> QED
      BY <2>1, <2>2, <3>1, <3>2
  <2>4. ASSUME NEW u \in Tables[d] \ {t} PROVE View(z, d, u) = done[u]
    <3>1. CASE u \in Loaded(w, d)
      <4>1. /\ Opt(z, d, u) = Opt(w, d, u) /\ IndexesOf(z, d, u) = IndexesOf(w, d, u)
            /\ Data(z, d, u) = Data(w, d, u)
        BY <1>1, <2>1, <3>1 DEF Kept, SameTable, IndexesOf, Held, DataFits
      <4>2. View(z, d, u) = [opt |-> Opt(z, d, u), row |-> Data(z, d, u).row, indexes |-> IndexesOf(z, d, u)]
        BY <2>1, <3>1, ViewIs
      <4>3. View(w, d, u) = [opt |-> Opt(w, d, u), row |-> Data(w, d, u).row, indexes |-> IndexesOf(w, d, u)]
        BY <1>1, <3>1, ViewIs
      <4> QED
        BY <4>1, <4>2, <4>3
    <3>2. CASE u \notin Loaded(w, d)
      BY <1>1, <2>1, <3>2, ViewIs
    <3> QED
      BY <3>1, <3>2
  <2>5. Owned(z, d)
    <3>1. ASSUME d \in FileDbs, NEW f \in Nat, RowAt(z.disk[d], f) # NoRow
          PROVE  \E u \in Loaded(z, d) : OwnedBy(z, d, f, u)
      <4>1. RowAt(z.disk[d], f) = RowAt(w.disk[d], f)
        BY <2>1, <3>1 DEF SameRows
      <4>2. PICK u \in Loaded(w, d) : OwnedBy(w, d, f, u)
        BY <1>1, <3>1, <4>1 DEF Owned
      <4> QED
        BY <2>1, <4>1, <4>2 DEF OwnedBy, OnDisk, Kept, SameTable
    <3> QED
      BY <3>1 DEF Owned
  <2>6. x = GenSchema(z, d)
    BY <1>2, <1>6 DEF Saved
  <2>7. \A u \in Tables[d] : View(z, d, u) = done[u]
    BY <2>3, <2>4
  <2> QED
    BY <2>1, <2>5, <2>6, <2>7, EndsRecorded DEF Q
<1>7. IsWorld(x) /\ (x.dep \/ Ended(w, x, d, X, done, between))
  BY <1>5, <1>6
<1> QED
  BY <1>7 DEF x

\* What an action on an open database begins with.
LEMMA OpenedIs ==
    ASSUME CatalogInv, ~departed, NEW d \in Opened
    PROVE  /\ WorldOK(World, want) /\ d \in OpenDbs(World) /\ d \in Dbs /\ OpenOK(World, d, want[d])
           /\ Wish(d) = [t \in Tables[d] |-> Wish(d)[t]]
           /\ \A t \in Tables[d] : /\ want[d][t] = {View(World, d, t)} /\ Wish(d)[t] = View(World, d, t)
                                   /\ Get(Tm(World, d), t) = IF t \in Loaded(World, d) THEN t ELSE NoObj
                                   /\ t # NoObj
           /\ \A t \in Loaded(World, d) : \A i \in Indexes :
                 Get(Im(World, d, t), i) = IF i \in IndexesOf(World, d, t) THEN i ELSE NoObj
<1>1. WorldOK(World, want)
  BY DEF CatalogInv
<1>2. d \in OpenDbs(World)
  BY WorldIs DEF Opened, OpenDbs
<1>3. d \in Dbs /\ OpenOK(World, d, want[d])
  BY <1>1, <1>2 DEF WorldOK
<1>4. \A t \in Tables[d] : want[d][t] = {View(World, d, t)}
  BY <1>3 DEF OpenOK
<1>5. Wish(d) = [t \in Tables[d] |-> Wish(d)[t]] /\ \A t \in Tables[d] : Wish(d)[t] = View(World, d, t)
  BY <1>4 DEF Wish
<1>6. Sound(World, d)
  BY <1>3 DEF OpenOK, Held
<1>7. \A t \in Tables[d] : Get(Tm(World, d), t) = IF t \in Loaded(World, d) THEN t ELSE NoObj
  <2>1. Managed(Tm(World, d), Loaded(World, d))
    BY <1>6 DEF Sound
  <2> QED
    BY <1>3, <2>1, GetIs, NameIs
<1>8. \A t \in Tables[d] : t # NoObj
  BY <1>3, NameIs, ObjmAssumption
<1>9. \A t \in Loaded(World, d) : \A i \in Indexes :
          Get(Im(World, d, t), i) = IF i \in IndexesOf(World, d, t) THEN i ELSE NoObj
  BY <1>6, GetIs, NameIs DEF Sound
<1> QED
  BY <1>1, <1>2, <1>3, <1>4, <1>5, <1>7, <1>8, <1>9

LEMMA StatementEnds ==
    ASSUME CatalogInv, ~departed, NEW d \in Opened, NEW x, NEW done, NEW between,
           Statement(x, d, done, between), IsWorld(x),
           x.dep \/ Ended(World, x, d, want[d], done, between)
    PROVE  CatalogInv'
<1>1. WorldOK(World, want) /\ d \in OpenDbs(World) /\ d \in Dbs
  BY OpenedIs
<1>2. ASSUME Ended(World, x, d, want[d], done, between)
      PROVE  /\ WorldOK(x, [want EXCEPT ![d] = [t \in Tables[d] |-> {done[t]}]])
             /\ Passes(World, x, d, Trail(d, Forgotten(d, Mixed(d, want[d], done, between))))
  <2> DEFINE Y == Promised(d, done)
  <2>1. Y = [t \in Tables[d] |-> Y[t]] /\ Y = [t \in Tables[d] |-> {done[t]}]
    BY DEF Promised
  <2>2. OpenOK(x, d, Y) /\ Frame(World, x, d)
    BY <1>2 DEF Ended
  <2> HIDE DEF Y
  <2>3. WorldOK(x, [want EXCEPT ![d] = Y])
    BY <1>1, <2>1, <2>2, FrameOK
  <2> QED
    BY <1>2, <2>1, <2>3 DEF Ended
<1> QED
  BY <1>1, <1>2, StatementIs

LEMMA CreateTableIs ==
    ASSUME CatalogInv, ~departed, room \in Rooms, NEW d \in Dbs, NEW t \in Tables[d], CreateTable(d, t)
    PROVE  CatalogInv'
<1>1. d \in Opened /\ Get(Tm(World, d), t) = NoObj
  BY DEF CreateTable
<1>2. PICK opt \in room[d].options, s \in NewIndexes :
        Statement(AddTable(World, d, t, opt, -1, s), d,
                  [Wish(d) EXCEPT ![t] = [opt |-> opt, row |-> NoRow,
                                          indexes |-> {s[k].name : k \in DOMAIN s}]],
                  Nothing(d))
  BY DEF CreateTable, NewIndexes
<1> DEFINE done == [Wish(d) EXCEPT ![t] = [opt |-> opt, row |-> NoRow,
                                           indexes |-> {s[k].name : k \in DOMAIN s}]]
           x == AddTable(World, d, t, opt, -1, s)
           Z == want[d]
           n == Nothing(d)
<1>3. opt \in Options
  BY CatalogAssumption
<1>4. OpenOK(World, d, Z) /\ t \notin Loaded(World, d)
  BY <1>1, OpenedIs
<1>5. Wish(d) = [u \in Tables[d] |-> Wish(d)[u]] /\ \A u \in Tables[d] : Wish(d)[u] = View(World, d, u)
  BY <1>1, OpenedIs
<1>6. /\ \A u \in Tables[d] \ {t} : done[u] = View(World, d, u)
      /\ done[t] = [opt |-> opt, row |-> NoRow, indexes |-> {s[k].name : k \in DOMAIN s}]
  BY <1>5
<1> HIDE DEF done, Z, n
<1>7. IsWorld(x) /\ (x.dep \/ Ended(World, x, d, Z, done, n))
  BY <1>3, <1>4, <1>6, TableCreated
<1>8. Statement(x, d, done, n)
  BY <1>2 DEF done, n
<1> HIDE DEF x
<1> QED
  BY <1>1, <1>7, <1>8, StatementEnds DEF Z

LEMMA DescribesKept ==
    ASSUME NEW w, NEW x, NEW d, SameTabs(w, x, d), \A u \in Loaded(w, d) : SameTable(w, x, d, u), NEW s,
           Describes(w, d, s)
    PROVE  Describes(x, d, s)
BY DEF Describes, EntryOf, SameTabs, SameTable, IndexesOf, FileId

\* A row is written.
LEMMA RowInserted ==
    ASSUME NEW w, NEW d \in Dbs, NEW X, OpenOK(w, d, X), NEW t \in Loaded(w, d), Data(w, d, t).row = NoRow,
           NEW data, data = [row |-> t, ix |-> [j \in Ids |->
                                 IF \E i \in Range(Listed(Im(w, d, t))) : Im(w, d, t).id[i] = j
                                 THEN Data(w, d, t).ix[j] + 1 ELSE Data(w, d, t).ix[j]]]
    PROVE  LET x == SetData(w, d, t, data)
           IN  /\ Frame(w, x, d) /\ x.dep = w.dep
               /\ OpenOK(x, d, [u \in Tables[d] |-> IF u = t THEN {[View(w, d, t) EXCEPT !.row = t]} ELSE X[u]])
<1> DEFINE x == SetData(w, d, t, data)
           im == Im(w, d, t)
           old == Data(w, d, t)
           S == IndexesOf(w, d, t)
<1>1. Held(w, d) /\ Sound(w, d) /\ Owned(w, d) /\ DataFits(w, d, t) /\ Filed(w, d, t)
  BY DEF OpenOK, Held, DataFits
<1>2. old \in FileData
  BY <1>1, DataType
<1>3. Managed(im, S) /\ \A i \in S : im.id[i] \in Ids
  BY <1>1 DEF Sound
<1>4. Range(Listed(im)) = S
  BY <1>3, ListedOnce
<1>5. \A i \in S : old.ix[im.id[i]] = 0
  BY <1>1 DEF DataFits, Entries
<1>6. t \in Names /\ t # NoRow /\ t \in Tables[d]
  BY <1>1, NameIs, CatalogAssumption DEF Sound
<1>7. old.ix \in [Ids -> Int]
  BY <1>2, DataIs
<1> DEFINE g == [j \in Ids |-> IF \E i \in Range(Listed(im)) : im.id[i] = j THEN old.ix[j] + 1 ELSE old.ix[j]]
<1>8. g \in [Ids -> Int] /\ \A i \in S : g[im.id[i]] = 1
  BY <1>3, <1>4, <1>5, <1>7
<1>9. data = [row |-> t, ix |-> g]
  OBVIOUS
<1> HIDE DEF g
<1>10. data.row = t /\ data.ix = g /\ data \in FileData
  BY <1>6, <1>8, <1>9 DEF FileData
<1>11. Entries(data) = 1
  BY <1>6, <1>10 DEF Entries
<1>12. Written(w, x, d, t, data) /\ Sound(x, d)
  BY <1>1, <1>10, SetDataIs
<1> HIDE DEF x, old
<1>13. /\ Frame(w, x, d) /\ x.dep = w.dep /\ SameTabs(w, x, d) /\ Loaded(x, d) = Loaded(w, d)
       /\ \A u \in Loaded(w, d) : SameTable(w, x, d, u)
       /\ \A u \in Loaded(w, d) \ {t} : Kept(w, x, d, u)
       /\ Filed(x, d, t) /\ Data(x, d, t) = data
  BY <1>12 DEF Written, SameTabs
<1>14. \A u \in Loaded(w, d) : OnDisk(x, d, u) = OnDisk(w, d, u) /\ FileId(x, d, u) = FileId(w, d, u)
  BY <1>13 DEF OnDisk, FileId, SameTabs, SameTable
<1>15. DataFits(x, d, t)
  BY <1>8, <1>10, <1>11, <1>13 DEF DataFits, SameTable, IndexesOf
<1>16. Held(x, d)
  <2>1. \A u \in Loaded(w, d) \ {t} : DataFits(x, d, u)
    BY <1>1, <1>13, FitsKept DEF Held
  <2> QED
    BY <1>12, <1>13, <1>15, <2>1 DEF Held
<1>17. Owned(x, d)
  <2>1. ASSUME d \in FileDbs, NEW f \in Nat, RowAt(x.disk[d], f) # NoRow
        PROVE  \E u \in Loaded(x, d) : OwnedBy(x, d, f, u)
    <3>1. RowAt(x.disk[d], f) = IF OnDisk(w, d, t) /\ f = FileId(w, d, t) THEN t ELSE RowAt(w.disk[d], f)
      BY <1>10, <1>12, <2>1 DEF Written
    <3>2. CASE OnDisk(w, d, t) /\ f = FileId(w, d, t)
      BY <1>13, <1>14, <3>1, <3>2 DEF OwnedBy
    <3>3. CASE ~(OnDisk(w, d, t) /\ f = FileId(w, d, t))
      <4>1. PICK u \in Loaded(w, d) : OwnedBy(w, d, f, u)
        BY <1>1, <2>1, <3>1, <3>3 DEF Owned
      <4> QED
        BY <1>13, <1>14, <3>1, <3>3, <4>1 DEF OwnedBy
    <3> QED
      BY <3>2, <3>3
  <2> QED
    BY <2>1 DEF Owned
<1>18. d \in FileDbs => ~x.disk[d].cut /\ Describes(x, d, x.disk[d].schema)
  <2>1. ASSUME d \in FileDbs PROVE ~x.disk[d].cut /\ Describes(x, d, x.disk[d].schema)
    <3>1. x.disk[d].cut = w.disk[d].cut /\ x.disk[d].schema = w.disk[d].schema
      BY <1>12, <2>1 DEF Written, SameSchema
    <3>2. ~w.disk[d].cut /\ Describes(w, d, w.disk[d].schema)
      BY <2>1 DEF OpenOK
    <3> QED
      BY <1>13, <3>1, <3>2, DescribesKept
  <2> QED
    BY <2>1
<1>19. ASSUME NEW u \in Tables[d]
       PROVE  View(x, d, u) = IF u = t THEN [View(w, d, t) EXCEPT !.row = t] ELSE View(w, d, u)
  <2>1. CASE u \notin Loaded(w, d)
    BY <1>1, <1>13, <1>16, <2>1, ViewIs
  <2>2. CASE u \in Loaded(w, d)
    <3>1. View(x, d, u) = [opt |-> Opt(x, d, u), row |-> Data(x, d, u).row, indexes |-> IndexesOf(x, d, u)]
      BY <1>13, <1>16, <2>2, ViewIs
    <3>2. View(w, d, u) = [opt |-> Opt(w, d, u), row |-> Data(w, d, u).row, indexes |-> IndexesOf(w, d, u)]
      BY <1>1, <2>2, ViewIs
    <3>3. Opt(x, d, u) = Opt(w, d, u) /\ IndexesOf(x, d, u) = IndexesOf(w, d, u)
      BY <1>13, <2>2 DEF SameTable, IndexesOf
    <3>4. CASE u = t
      BY <1>10, <1>13, <3>1, <3>2, <3>3, <3>4
    <3>5. CASE u # t
      <4>1. Data(x, d, u) = Data(w, d, u)
        BY <1>1, <1>13, <2>2, <3>5 DEF Kept, Held, DataFits
      <4> QED
        BY <3>1, <3>2, <3>3, <3>5, <4>1
    <3> QED
      BY <3>4, <3>5
  <2> QED
    BY <2>1, <2>2
<1> DEFINE Y == [u \in Tables[d] |-> IF u = t THEN {[View(w, d, t) EXCEPT !.row = t]} ELSE X[u]]
<1>20. \A u \in Tables[d] : Y[u] = {View(x, d, u)}
  BY <1>19 DEF OpenOK
<1> HIDE DEF Y
<1>21. OpenOK(x, d, Y)
  BY <1>16, <1>17, <1>18, <1>20 DEF OpenOK
<1> QED
  BY <1>13, <1>21 DEF x, Y

LEMMA InsertIs ==
    ASSUME CatalogInv, ~departed, NEW d \in Dbs, NEW t \in Tables[d], Insert(d, t)
    PROVE  CatalogInv'
<1> DEFINE w == World
           im == Im(w, d, t)
           data == [row |-> t, ix |-> [j \in Ids |->
                      IF \E i \in Range(Listed(im)) : im.id[i] = j
                      THEN Data(w, d, t).ix[j] + 1 ELSE Data(w, d, t).ix[j]]]
           x == SetData(w, d, t, data)
           X == want[d]
           wish == [want EXCEPT ![d][t] = {[r EXCEPT !.row = t] : r \in @}]
           Y == [u \in Tables[d] |-> IF u = t THEN {[View(w, d, t) EXCEPT !.row = t]} ELSE X[u]]
<1>1. d \in Opened /\ Get(Tm(w, d), t) # NoObj /\ Data(w, d, t).row = NoRow
  BY DEF Insert, HasTable
<1>2. Become(x, wish)
  BY DEF Insert
<1>3. WorldOK(w, want) /\ d \in OpenDbs(w) /\ OpenOK(w, d, X) /\ t \in Loaded(w, d) /\ X[t] = {View(w, d, t)}
  BY <1>1, OpenedIs
<1> DEFINE dt == data
<1>4. dt = data
  OBVIOUS
<1>5. Frame(w, x, d) /\ x.dep = w.dep /\ OpenOK(x, d, Y)
  <2> HIDE DEF w, dt, X
  <2>1. LET y == SetData(w, d, t, dt)
        IN  /\ Frame(w, y, d) /\ y.dep = w.dep
            /\ OpenOK(y, d, Y)
    BY <1>1, <1>3, <1>4, RowInserted
  <2> QED
    BY <1>4, <2>1
<1>6. Y = [u \in Tables[d] |-> Y[u]]
  OBVIOUS
<1> HIDE DEF x, data, w
<1>7. wish = [want EXCEPT ![d] = Y]
  <2>1. X = [u \in Tables[d] |-> X[u]] /\ want = [e \in Dbs |-> want[e]]
    BY <1>3 DEF WorldOK
  <2>2. {[r EXCEPT !.row = t] : r \in X[t]} = {[View(w, d, t) EXCEPT !.row = t]}
    BY <1>3
  <2>3. [X EXCEPT ![t] = {[r EXCEPT !.row = t] : r \in X[t]}] = Y
    BY <2>1, <2>2
  <2>4. wish = [want EXCEPT ![d] = [X EXCEPT ![t] = {[r EXCEPT !.row = t] : r \in X[t]}]]
    OBVIOUS
  <2> HIDE DEF wish, Y, X
  <2> QED
    BY <2>3, <2>4
<1> HIDE DEF wish, Y
<1>8. WorldOK(x, wish) /\ IsWorld(x)
  BY <1>3, <1>5, <1>6, <1>7, FrameOK DEF Frame
<1> QED
  BY <1>2, <1>8, BecomeIs

LEMMA TouchesOwned ==
    ASSUME NEW w, NEW x, NEW d, NEW t, NEW Q, Sound(w, d), Owned(w, d), Touches(w, x, d, t, Q)
    PROVE  Owned(x, d)
<1> SUFFICES ASSUME d \in FileDbs, NEW f \in Nat, RowAt(x.disk[d], f) # NoRow
             PROVE  \E u \in Loaded(x, d) : OwnedBy(x, d, f, u)
  BY DEF Owned
<1>1. RowAt(x.disk[d], f) = RowAt(w.disk[d], f)
  BY DEF Touches, SameRows
<1>2. PICK u \in Loaded(w, d) : OwnedBy(w, d, f, u)
  BY <1>1 DEF Owned
<1>3. u \in Loaded(x, d) /\ Tm(x, d) = Tm(w, d) /\ Opt(x, d, u) = Opt(w, d, u)
  BY DEF Touches, SameTabs, Kept, SameTable
<1> QED
  BY <1>1, <1>2, <1>3 DEF OwnedBy, OnDisk, FileId

LEMMA KeptView ==
    ASSUME NEW w, NEW x, NEW d \in Dbs, Held(w, d), Held(x, d), NEW u \in Loaded(w, d), u \in Loaded(x, d),
           Kept(w, x, d, u)
    PROVE  View(x, d, u) = View(w, d, u)
<1>1. u \in Tables[d] /\ Filed(w, d, u)
  BY DEF Held, Sound, DataFits
<1>2. /\ View(x, d, u) = [opt |-> Opt(x, d, u), row |-> Data(x, d, u).row, indexes |-> IndexesOf(x, d, u)]
      /\ View(w, d, u) = [opt |-> Opt(w, d, u), row |-> Data(w, d, u).row, indexes |-> IndexesOf(w, d, u)]
  BY <1>1, ViewIs
<1>3. Opt(x, d, u) = Opt(w, d, u) /\ IndexesOf(x, d, u) = IndexesOf(w, d, u) /\ Data(x, d, u) = Data(w, d, u)
  BY <1>1 DEF Kept, SameTable, IndexesOf
<1> QED
  BY <1>2, <1>3

\* A statement on the indexes of table t that leaves it fit.
LEMMA TouchesHeld ==
    ASSUME NEW w, NEW x, NEW d \in Dbs, NEW t \in Loaded(w, d), NEW Q, Held(w, d), Owned(w, d),
           Touches(w, x, d, t, Q), DataFits(x, d, t)
    PROVE  /\ Held(x, d) /\ Owned(x, d)
           /\ \A u \in Tables[d] \ {t} : View(x, d, u) = View(w, d, u)
           /\ View(x, d, t) = [opt |-> Opt(w, d, t), row |-> Data(x, d, t).row, indexes |-> IndexesOf(x, d, t)]
<1>1. Loaded(x, d) = Loaded(w, d) /\ Sound(x, d) /\ Sound(w, d)
  BY DEF Touches, SameTabs, Held
<1>2. Held(x, d)
  <2>1. \A u \in Loaded(w, d) \ {t} : DataFits(x, d, u)
    BY FitsKept DEF Held, Touches
  <2> QED
    BY <1>1, <2>1 DEF Held
<1>3. Owned(x, d)
  BY <1>1, TouchesOwned
<1>4. ASSUME NEW u \in Tables[d] \ {t} PROVE View(x, d, u) = View(w, d, u)
  <2>1. CASE u \in Loaded(w, d)
    BY <1>1, <1>2, <2>1, KeptView DEF Touches
  <2>2. CASE u \notin Loaded(w, d)
    BY <1>1, <1>2, <2>2, ViewIs
  <2> QED
    BY <2>1, <2>2
<1>5. t \in Tables[d] /\ t \in Loaded(x, d) /\ Opt(x, d, t) = Opt(w, d, t)
  BY <1>1 DEF Sound, Touches
<1>6. View(x, d, t) = [opt |-> Opt(w, d, t), row |-> Data(x, d, t).row, indexes |-> IndexesOf(x, d, t)]
  BY <1>2, <1>5, ViewIs
<1> QED
  BY <1>2, <1>3, <1>4, <1>6

LEMMA IndexCreated ==
    ASSUME NEW w, NEW d \in Dbs, NEW X, OpenOK(w, d, X), NEW t \in Loaded(w, d),
           NEW i \in Indexes, i \notin IndexesOf(w, d, t), NEW done, NEW between,
           \A u \in Tables[d] \ {t} : done[u] = View(w, d, u),
           done[t] = [View(w, d, t) EXCEPT !.indexes = @ \union {i}]
    PROVE  LET x == SysAddIndex(GenSchema(AddIndex(w, d, t, i, -1), d), d, t, i)
           IN  IsWorld(x) /\ (x.dep \/ Ended(w, x, d, X, done, between))
<1> DEFINE n == -1
           y == AddIndex(w, d, t, i, n)
           z == GenSchema(y, d)
           x == SysAddIndex(z, d, t, i)
           Q == Trail(d, Forgotten(d, Mixed(d, X, done, between)))
<1>1. Held(w, d) /\ Sound(w, d) /\ Owned(w, d) /\ DataFits(w, d, t) /\ Follows(w, d, Q)
  BY TrailBegins DEF OpenOK, Held
<1>n. n \in Int /\ ~(n >= 0)
  OBVIOUS
<1> HIDE DEF n, y, z, x, Q
<1>2. IsWorld(y) /\ y.sys = w.sys /\ (y.dep \/ (Touches(w, y, d, t, Q) /\ Indexed(w, y, d, t, i, n)))
  BY <1>1, <1>n, AddIndexIs DEF y
<1>3. Goes(y, z) /\ IsWorld(z)
  BY <1>2, GenSchemaGoes DEF z, Goes
<1>4. SysOnly(z, x)
  BY <1>3, SysIndexIs DEF x
<1>5. IsWorld(x) /\ Quiet(z, x) /\ (y.dep => x.dep)
  BY <1>3, <1>4 DEF SysOnly, Quiet, Goes
<1>6. ASSUME Touches(w, y, d, t, Q), Indexed(w, y, d, t, i, n)
      PROVE  Ended(w, x, d, X, done, between)
  <2>1. /\ Held(y, d) /\ Owned(y, d) /\ \A u \in Tables[d] \ {t} : View(y, d, u) = View(w, d, u)
        /\ View(y, d, t) = [opt |-> Opt(w, d, t), row |-> Data(y, d, t).row, indexes |-> IndexesOf(y, d, t)]
    BY <1>1, <1>6, TouchesHeld DEF Indexed
  <2>2. View(w, d, t) = [opt |-> Opt(w, d, t), row |-> Data(w, d, t).row, indexes |-> IndexesOf(w, d, t)]
    BY <1>1, ViewIs DEF Sound
  <2>3. View(y, d, t) = done[t]
    BY <1>6, <2>1, <2>2 DEF Indexed
  <2>4. \A u \in Tables[d] : View(y, d, u) = done[u]
    BY <2>1, <2>3
  <2>5. Frame(w, y, d) /\ Passes(w, y, d, Q)
    BY <1>6 DEF Touches
  <2>6. Ended(w, z, d, X, done, between)
    BY <2>1, <2>4, <2>5, EndsRecorded DEF z, Q
  <2> QED
    BY <1>5, <2>6, EndedQuiet
<1>7. IsWorld(x) /\ (x.dep \/ Ended(w, x, d, X, done, between))
  BY <1>2, <1>5, <1>6
<1> QED
  BY <1>7 DEF x, z, y, n

LEMMA CreateIndexIs ==
    ASSUME CatalogInv, ~departed, NEW d \in Dbs, NEW t \in Tables[d], NEW i \in Indexes, CreateIndex(d, t, i)
    PROVE  CatalogInv'
<1>1. d \in Opened /\ Get(Tm(World, d), t) # NoObj /\ ~HasIndex(d, t, i)
  BY DEF CreateIndex, HasTable
<1> DEFINE done == [Wish(d) EXCEPT ![t].indexes = @ \union {i}]
           x == SysAddIndex(GenSchema(AddIndex(World, d, t, i, -1), d), d, t, i)
           Z == want[d]
           n == Nothing(d)
<1>2. Statement(x, d, done, n)
  BY DEF CreateIndex
<1>3. OpenOK(World, d, Z) /\ t \in Loaded(World, d)
  BY <1>1, OpenedIs
<1>4. i \notin IndexesOf(World, d, t)
  <2>1. Get(Im(World, d, t), i) = NoObj
    BY <1>1 DEF HasIndex, HasTable
  <2>2. i # NoObj
    BY NameIs, ObjmAssumption
  <2> QED
    BY <1>1, <1>3, <2>1, <2>2, OpenedIs
<1>5. Wish(d) = [u \in Tables[d] |-> Wish(d)[u]] /\ \A u \in Tables[d] : Wish(d)[u] = View(World, d, u)
  BY <1>1, OpenedIs
<1>6. /\ \A u \in Tables[d] \ {t} : done[u] = View(World, d, u)
      /\ done[t] = [View(World, d, t) EXCEPT !.indexes = @ \union {i}]
  BY <1>5
<1> HIDE DEF done, Z, n
<1>7. IsWorld(x) /\ (x.dep \/ Ended(World, x, d, Z, done, n))
  BY <1>3, <1>4, <1>6, IndexCreated
<1> HIDE DEF x
<1> QED
  BY <1>1, <1>2, <1>7, StatementEnds DEF Z

-------------------------------------------------------------------------------
(* An index is dropped.                                                      *)

\* The entries are gone, and the index is out of memory.
Cleared(w, d, t, i) ==
    LET data == [Data(w, d, t) EXCEPT !.ix[Im(w, d, t).id[i]] = NoFile]
    IN  SetIm(SetData(w, d, t, data), d, t, Del(Im(SetData(w, d, t, data), d, t), i))

LEMMA RemIndexSteps ==
    ASSUME NEW w, NEW d, NEW t, NEW i
    PROVE  RemIndex(w, d, t, i) = GenSchema(SysDelIndex(Cleared(w, d, t, i), d, t, i), d)
BY DEF RemIndex, Cleared, SetIm, Im

\* One index less.
Unindexed(w, x, d, t, i) ==
    /\ DataFits(x, d, t) /\ Data(x, d, t).row = Data(w, d, t).row /\ x.dep = w.dep
    /\ IndexesOf(x, d, t) = IndexesOf(w, d, t) \ {i}
    /\ Im(x, d, t).id = Without(Im(w, d, t).id, i)

LEMMA ClearedIs ==
    ASSUME NEW w, NEW d \in Dbs, Sound(w, d), NEW t \in Loaded(w, d), DataFits(w, d, t),
           NEW Q, Follows(w, d, Q), NEW i \in IndexesOf(w, d, t)
    PROVE  LET x == Cleared(w, d, t, i)
           IN  Touches(w, x, d, t, Q) /\ Unindexed(w, x, d, t, i)
<1> DEFINE om == Im(w, d, t)
           S == IndexesOf(w, d, t)
           j == om.id[i]
           old == Data(w, d, t)
           data == [old EXCEPT !.ix[j] = NoFile]
           a == SetData(w, d, t, data)
           m == Del(Im(a, d, t), i)
           x == SetIm(a, d, t, m)
<1>1. /\ Managed(om, S) /\ S \subseteq Indexes /\ (\A n \in S : om.id[n] \in Ids) /\ Filed(w, d, t)
      /\ \A n \in S : old.ix[om.id[n]] = Entries(old)
  BY DEF Sound, DataFits
<1>2. old \in FileData
  BY <1>1, DataType
<1>3. old = [row |-> old.row, ix |-> old.ix] /\ old.row \in Names \union {NoRow} /\ old.ix \in [Ids -> Int]
  BY <1>2, DataIs
<1> DEFINE g == [old.ix EXCEPT ![j] = NoFile]
<1>4. j \in Ids
  BY <1>1
<1>5. g \in [Ids -> Int] /\ \A k \in Ids \ {j} : g[k] = old.ix[k]
  BY <1>3, <1>4 DEF NoFile
<1>6. data = [row |-> old.row, ix |-> g]
  BY <1>3
<1> HIDE DEF g
<1>7. data \in FileData /\ data.row = old.row /\ data.ix = g
  BY <1>3, <1>5, <1>6 DEF FileData
<1> HIDE DEF data
<1>8. Written(w, a, d, t, data) /\ Sound(a, d)
  BY <1>7, SetDataIs
<1>9. OnDisk(w, d, t) => data.row = RowAt(w.disk[d], FileId(w, d, t))
  BY <1>1, <1>7, DataAt DEF Filed, RowAt
<1>10. Touches(w, a, d, t, Q)
  BY <1>8, <1>9, WrittenTouches
<1> HIDE DEF a
<1>11. SameTabs(w, a, d) /\ Im(a, d, t) = om /\ t \in Loaded(a, d) /\ Shape(a, d) /\ Filed(a, d, t) /\ Data(a, d, t) = data
       /\ a.dep = w.dep /\ a.sys = w.sys /\ IsWorld(a)
  BY <1>8 DEF Written, SameTabs, SameTable, Sound, Shape
<1>12. Managed(m, S \ {i}) /\ m.id = Without(om.id, i)
  BY <1>1, <1>11, DelIs
<1> HIDE DEF m, x
<1>13. /\ Assigned(a, x, d) /\ Shape(x, d) /\ SameTabs(a, x, d) /\ Im(x, d, t) = m
       /\ \A u \in Loaded(a, d) : /\ Opt(x, d, u) = Opt(a, d, u) /\ Buffer(x, d, u) = Buffer(a, d, u)
                                  /\ u # t => Im(x, d, u) = Im(a, d, u)
  BY <1>11, AssignIm DEF x
<1>14. S = DOMAIN om.id
  BY DEF IndexesOf
<1>15. DOMAIN m.id = S \ {i} /\ \A n \in S \ {i} : m.id[n] = om.id[n]
  BY <1>12, <1>14 DEF Without, Restrict
<1>16. IndexesOf(x, d, t) = S \ {i} /\ \A u \in Loaded(a, d) : u # t => IndexesOf(x, d, u) = IndexesOf(a, d, u)
  BY <1>13, <1>15 DEF IndexesOf
<1>17. Sound(x, d)
  BY <1>1, <1>8, <1>12, <1>13, <1>15, <1>16 DEF Sound, SameTabs
<1>18. \A u \in Loaded(a, d) : OnDisk(x, d, u) = OnDisk(a, d, u) /\ FileId(x, d, u) = FileId(a, d, u)
  BY <1>13 DEF SameTabs, OnDisk, FileId
<1>19. x.disk = a.disk /\ x.trail = a.trail /\ x.sys = a.sys /\ x.dep = a.dep /\ Frame(a, x, d)
  BY <1>11, <1>13 DEF Assigned, Frame, Agree, Shape
<1>20. \A u \in Loaded(a, d) : Data(x, d, u) = Data(a, d, u) /\ Filed(x, d, u) = Filed(a, d, u)
  BY <1>13, <1>18, <1>19, DataAt DEF Filed
<1>21. d \in FileDbs => SameRows(a.disk[d], x.disk[d])
  BY <1>19 DEF SameRows, SameSchema
<1>22. Touches(a, x, d, t, Q)
  BY <1>11, <1>13, <1>17, <1>19, <1>20, <1>21 DEF Touches, Passes, Kept, SameTable
<1>23. Touches(w, x, d, t, Q)
  BY <1>10, <1>22, TouchesTrans
<1>24. DataFits(x, d, t)
  <2>1. Data(x, d, t) = data /\ Filed(x, d, t)
    BY <1>11, <1>20
  <2>2. ASSUME NEW n \in S \ {i} PROVE data.ix[m.id[n]] = Entries(data)
    <3>1. m.id[n] = om.id[n] /\ om.id[n] # j /\ om.id[n] \in Ids
      BY <1>1, <1>15, IdsDiffer
    <3>2. data.ix[om.id[n]] = old.ix[om.id[n]]
      BY <1>5, <1>7, <3>1
    <3>3. Entries(data) = Entries(old)
      BY <1>7 DEF Entries
    <3> QED
      BY <1>1, <3>1, <3>2, <3>3
  <2>3. data.row \in {NoRow, t}
    BY <1>7 DEF DataFits
  <2> QED
    BY <1>13, <1>16, <2>1, <2>2, <2>3 DEF DataFits
<1>25. Unindexed(w, x, d, t, i)
  BY <1>7, <1>11, <1>12, <1>13, <1>16, <1>19, <1>20, <1>24 DEF Unindexed
<1>26. x = Cleared(w, d, t, i)
  BY Zenon DEF Cleared, x, m, a, data
<1> QED
  BY <1>23, <1>25, <1>26

LEMMA QuietView ==
    ASSUME NEW w, NEW x, NEW d, Quiet(w, x), Shape(w, d)
    PROVE  \A u : View(x, d, u) = View(w, d, u)
<1>1. Tm(x, d) = Tm(w, d) /\ \A u : Opt(x, d, u) = Opt(w, d, u) /\ Im(x, d, u) = Im(w, d, u)
  BY DEF Quiet, Tm, Opt, Im
<1>2. \A u : Data(x, d, u) = Data(w, d, u)
  BY QuietIs
<1>3. \A z : \A u : View(z, d, u) = Seeing(Tm(z, d), Opt(z, d, u), Data(z, d, u), Im(z, d, u), u)
  BY DEF View, Seeing
<1> QED
  BY <1>1, <1>2, <1>3

\* Between two statements, but for what the client expects.
Settled(w, d) ==
    /\ Held(w, d) /\ Owned(w, d)
    /\ d \in FileDbs => ~w.disk[d].cut /\ Describes(w, d, w.disk[d].schema)

\* The schema file is written of what Held and Owned.
LEMMA Settles ==
    ASSUME NEW w, NEW d \in Dbs, Held(w, d), Owned(w, d), NEW X,
           \A u \in Tables[d] : Forgets(d, View(w, d, u)) \in X[u]
    PROVE  LET x == GenSchema(w, d)
           IN  /\ Recorded(w, x, d) /\ Passes(w, x, d, Trail(d, X)) /\ Settled(x, d)
               /\ \A u : View(x, d, u) = View(w, d, u)
<1>1. Admits(w, d, Trail(d, X))
  BY TrailAdmits
<1> DEFINE x == GenSchema(w, d)
           Q == Trail(d, X)
<1> HIDE DEF Q
<1>2. Recorded(w, x, d) /\ Passes(w, x, d, Q)
  BY <1>1, GenSchemaIs DEF Held, Q
<1> HIDE DEF x
<1>3. Held(x, d) /\ Owned(x, d) /\ \A u : View(x, d, u) = View(w, d, u)
  BY <1>2, RecordedIs
<1>4. Settled(x, d)
  BY <1>2, <1>3 DEF Settled, Recorded
<1> QED
  BY <1>2, <1>3, <1>4 DEF x, Q

\* Files that are settled are those of a trail that has what is seen.
LEMMA SettledFollows ==
    ASSUME NEW w, NEW d \in Dbs, Settled(w, d), NEW X,
           \A u \in Tables[d] : Forgets(d, View(w, d, u)) \in X[u]
    PROVE  Follows(w, d, Trail(d, X))
<1>1. Shape(w, d)
  BY DEF Settled, Held, Sound
<1>2. ASSUME d \in FileDbs PROVE Fine(d, w.disk[d], X)
  <2>1. w.disk[d] \in Disks(d)
    BY <1>1, <1>2 DEF Shape
  <2> QED
    BY <1>2, <2>1, DescribedFine DEF Settled
<1> QED
  BY <1>1, <1>2, TrailFollows

IndexGone(w, x, d, t, i, Q) ==
    /\ Frame(w, x, d) /\ Passes(w, x, d, Q) /\ Settled(x, d) /\ x.dep = w.dep /\ SameTabs(w, x, d)
    /\ Opt(x, d, t) = Opt(w, d, t) /\ Im(x, d, t).id = Without(Im(w, d, t).id, i)
    /\ \A u \in Tables[d] \ {t} : View(x, d, u) = View(w, d, u)
    /\ View(x, d, t) = [View(w, d, t) EXCEPT !.indexes = @ \ {i}]

LEMMA RemIndexIs ==
    ASSUME NEW w, NEW d \in Dbs, Settled(w, d), NEW t \in Loaded(w, d), NEW i \in IndexesOf(w, d, t), NEW X,
           \A u \in Tables[d] : Forgets(d, View(w, d, u)) \in X[u],
           Forgets(d, [View(w, d, t) EXCEPT !.indexes = @ \ {i}]) \in X[t]
    PROVE  IndexGone(w, RemIndex(w, d, t, i), d, t, i, Trail(d, X))
<1> DEFINE Q == Trail(d, X)
           b == Cleared(w, d, t, i)
           c == SysDelIndex(b, d, t, i)
           x == GenSchema(c, d)
<1>1. Held(w, d) /\ Owned(w, d) /\ Sound(w, d) /\ DataFits(w, d, t) /\ Follows(w, d, Q)
  BY SettledFollows DEF Settled, Held
<1> HIDE DEF Q, b, c, x
<1>2. Touches(w, b, d, t, Q) /\ Unindexed(w, b, d, t, i)
  BY <1>1, ClearedIs DEF b
<1>3. /\ Held(b, d) /\ Owned(b, d) /\ \A u \in Tables[d] \ {t} : View(b, d, u) = View(w, d, u)
      /\ View(b, d, t) = [opt |-> Opt(w, d, t), row |-> Data(b, d, t).row, indexes |-> IndexesOf(b, d, t)]
  <2>1. DataFits(b, d, t) /\ Touches(w, b, d, t, Q)
    BY <1>2 DEF Unindexed
  <2> QED
    BY ONLY <1>1, <2>1, d \in Dbs, t \in Loaded(w, d), TouchesHeld
<1>4. View(w, d, t) = [opt |-> Opt(w, d, t), row |-> Data(w, d, t).row, indexes |-> IndexesOf(w, d, t)]
  BY <1>1, ViewIs DEF Sound
<1>5. View(b, d, t) = [View(w, d, t) EXCEPT !.indexes = @ \ {i}]
  <2> DEFINE v == View(w, d, t)
             y == View(b, d, t)
             o == Opt(w, d, t)
             r == Data(w, d, t).row
             S == IndexesOf(w, d, t)
             T == S \ {i}
  <2>1. v = [opt |-> o, row |-> r, indexes |-> S] /\ y = [opt |-> o, row |-> r, indexes |-> T]
    BY <1>2, <1>3, <1>4 DEF Unindexed
  <2> HIDE DEF v, y, o, r, S
  <2>2. y = [v EXCEPT !.indexes = @ \ {i}]
    BY ONLY <2>1
  <2> QED
    BY <2>2 DEF v, y
<1>6. Shape(b, d) /\ IsWorld(b) /\ Frame(w, b, d) /\ Passes(w, b, d, Q) /\ SameTabs(w, b, d) /\ Opt(b, d, t) = Opt(w, d, t)
  BY <1>2, <1>3 DEF Touches, Held, Sound, Shape
<1>7. SysOnly(b, c) /\ Quiet(b, c) /\ c.dep = b.dep
  BY <1>6, SysIndexIs DEF c, SysOnly
<1>8. /\ Held(c, d) /\ Owned(c, d) /\ Frame(b, c, d) /\ Passes(b, c, d, Q) /\ SameTabs(b, c, d)
      /\ Opt(c, d, t) = Opt(b, d, t) /\ Im(c, d, t) = Im(b, d, t)
  BY <1>3, <1>6, <1>7, QuietIs DEF Kept, SameTable
<1>9. \A u : View(c, d, u) = View(b, d, u)
  BY <1>6, <1>7, QuietView
<1>10. \A u \in Tables[d] : Forgets(d, View(c, d, u)) \in X[u]
  BY <1>3, <1>5, <1>9
<1>11. Recorded(c, x, d) /\ Passes(c, x, d, Q) /\ Settled(x, d) /\ \A u : View(x, d, u) = View(c, d, u)
  BY <1>8, <1>10, Settles DEF x, Q
<1>12. Frame(w, x, d) /\ Passes(w, x, d, Q)
  <2>1. Frame(w, c, d) /\ Passes(w, c, d, Q)
    BY <1>6, <1>8, FrameTrans, PassesTrans
  <2> QED
    BY <1>11, <2>1, FrameTrans, PassesTrans DEF Recorded
<1>13. SameTabs(w, x, d) /\ x.dep = w.dep /\ Opt(x, d, t) = Opt(w, d, t) /\ Im(x, d, t) = Im(b, d, t)
  BY <1>2, <1>6, <1>7, <1>8, <1>11 DEF Recorded, SameTabs, Kept, SameTable, Unindexed
<1>14. IndexGone(w, x, d, t, i, Q)
  BY <1>2, <1>3, <1>5, <1>9, <1>11, <1>12, <1>13 DEF IndexGone, Unindexed
<1>15. RemIndex(w, d, t, i) = x
  BY RemIndexSteps DEF x, c, b
<1> QED
  BY <1>14, <1>15 DEF Q

LEMMA DropIndexIs ==
    ASSUME CatalogInv, ~departed, NEW d \in Dbs, NEW t \in Tables[d], NEW i \in Indexes, DropIndex(d, t, i)
    PROVE  CatalogInv'
<1>1. d \in Opened /\ Get(Tm(World, d), t) # NoObj /\ Get(Im(World, d, t), i) # NoObj
  BY DEF DropIndex, HasIndex, HasTable
<1> DEFINE done == [Wish(d) EXCEPT ![t].indexes = @ \ {i}]
           x == RemIndex(World, d, t, i)
           Z == want[d]
           n == Nothing(d)
           X == Forgotten(d, Mixed(d, Z, done, n))
<1>2. Statement(x, d, done, n)
  BY DEF DropIndex
<1>3. OpenOK(World, d, Z) /\ t \in Loaded(World, d) /\ i \in IndexesOf(World, d, t)
  BY <1>1, OpenedIs
<1>4. \A u \in Tables[d] : Wish(d)[u] = View(World, d, u) /\ View(World, d, u) \in Z[u]
  BY <1>1, OpenedIs
<1>5. Wish(d) = [u \in Tables[d] |-> Wish(d)[u]]
  BY <1>1, OpenedIs
<1>6. /\ \A u \in Tables[d] \ {t} : done[u] = View(World, d, u)
      /\ done[t] = [View(World, d, t) EXCEPT !.indexes = @ \ {i}]
  BY <1>4, <1>5
<1> HIDE DEF done, Z, n
<1>7. (\A u \in Tables[d] : Forgets(d, View(World, d, u)) \in X[u]) /\ Forgets(d, done[t]) \in X[t]
  BY <1>4 DEF Forgotten, Mixed
<1>8. Settled(World, d)
  BY <1>3 DEF OpenOK, Settled
<1> HIDE DEF X
<1>9. IndexGone(World, x, d, t, i, Trail(d, X))
  BY <1>3, <1>6, <1>7, <1>8, RemIndexIs
<1> HIDE DEF x
<1>10. OpenOK(x, d, Promised(d, done))
  BY <1>6, <1>9 DEF IndexGone, Settled, OpenOK, Promised
<1>11. IsWorld(x) /\ Ended(World, x, d, Z, done, n)
  BY <1>9, <1>10 DEF IndexGone, Frame, Ended, X
<1> QED
  BY <1>1, <1>2, <1>11, StatementEnds DEF Z

-------------------------------------------------------------------------------
(* A table is dropped: its indexes, its files, and the table.                *)

DropLoop(S, w, d, t, order, f) == [k \in S |-> IF k = 0 THEN w ELSE RemIndex(f[k - 1], d, t, order[k])]

DropLoopRuns(N, w, d, t, order) ==
    \E f : /\ f = CHOOSE g : g = DropLoop(0 .. N, w, d, t, order, g)
           /\ f[0] = w
           /\ \A k \in 1 .. N : f[k] = RemIndex(f[k - 1], d, t, order[k])

LEMMA DropLoopSteps ==
    ASSUME NEW w, NEW d, NEW t, NEW order, NEW N \in Nat
    PROVE  DropLoopRuns(N, w, d, t, order)
<1> DEFINE B == {m \in 0 .. N : \E f : f = DropLoop(0 .. m, w, d, t, order, f)}
<1>1. 0 \in B
  <2>1. \A f : DropLoop(0 .. 0, w, d, t, order, f) = [k \in 0 .. 0 |-> w]
    BY DEF DropLoop
  <2> QED
    BY <2>1
<1>2. ASSUME NEW m \in 0 .. N - 1, m \in B PROVE m + 1 \in B
  <2>1. PICK v : v = DropLoop(0 .. m, w, d, t, order, v)
    BY <1>2
  <2> DEFINE e == RemIndex(v[m], d, t, order[(m + 1)])
             f == [k \in 0 .. m + 1 |-> IF k = m + 1 THEN e ELSE v[k]]
  <2>2. ASSUME NEW k \in 0 .. m + 1
        PROVE  f[k] = IF k = 0 THEN w ELSE RemIndex(f[k - 1], d, t, order[k])
    <3>1. CASE k = m + 1
      <4>1. f[k] = e /\ k # 0 /\ k - 1 = m /\ f[m] = v[m] /\ k = m + 1
        BY <3>1
      <4> HIDE DEF f
      <4> QED
        BY <4>1
    <3>2. CASE k # m + 1
      <4>1. k \in 0 .. m /\ f[k] = v[k] /\ (k # 0 => k - 1 \in 0 .. m /\ f[k - 1] = v[k - 1])
        BY <3>2
      <4>2. v[k] = IF k = 0 THEN w ELSE RemIndex(v[k - 1], d, t, order[k])
        BY <2>1, <4>1 DEF DropLoop
      <4> HIDE DEF f
      <4> QED
        BY <4>1, <4>2
    <3> QED
      BY <3>1, <3>2
  <2>3. f = DropLoop(0 .. m + 1, w, d, t, order, f)
    <3>1. f = [k \in 0 .. m + 1 |-> f[k]]
      OBVIOUS
    <3> HIDE DEF f
    <3> QED
      BY <2>2, <3>1 DEF DropLoop
  <2> QED
    BY <2>3
<1>3. N \in B
  <2> HIDE DEF B
  <2> QED
    BY <1>1, <1>2, UpTo
<1> DEFINE h == CHOOSE g : g = DropLoop(0 .. N, w, d, t, order, g)
<1>4. h = DropLoop(0 .. N, w, d, t, order, h)
  BY <1>3
<1> HIDE DEF h
<1>5. h[0] = w /\ \A k \in 1 .. N : h[k] = RemIndex(h[k - 1], d, t, order[k])
  BY <1>4 DEF DropLoop
<1> QED
  BY <1>5 DEF h, DropLoopRuns

\* A table with the indexes that are left.
Cleaned(w, x, d, t, S, Q) ==
    /\ Frame(w, x, d) /\ Passes(w, x, d, Q) /\ Settled(x, d) /\ x.dep = w.dep /\ SameTabs(w, x, d)
    /\ Opt(x, d, t) = Opt(w, d, t) /\ IndexesOf(x, d, t) = S
    /\ \A u \in Tables[d] \ {t} : View(x, d, u) = View(w, d, u)
    /\ View(x, d, t) = [View(w, d, t) EXCEPT !.indexes = S]

LEMMA RestrictedIs ==
    ASSUME NEW f, NEW i
    PROVE  DOMAIN Without(f, i) = DOMAIN f \ {i} /\ \A j \in DOMAIN f \ {i} : Without(f, i)[j] = f[j]
BY DEF Without, Restrict

\* What the trail of a drop has of a table that looks like v.
Leaves(d, v, Z) == \A r \in Remains(v) \union {v, NoTable} : Forgets(d, r) \in Z

LEMMA CleanedOne ==
    ASSUME NEW w, NEW x, NEW d \in Dbs, NEW t \in Loaded(w, d), Held(w, d), NEW S, S \subseteq IndexesOf(w, d, t), NEW X,
           Cleaned(w, x, d, t, S, Trail(d, X)), NEW i \in S,
           \A u \in Tables[d] : Forgets(d, View(w, d, u)) \in X[u], Leaves(d, View(w, d, t), X[t])
    PROVE  Cleaned(w, RemIndex(x, d, t, i), d, t, S \ {i}, Trail(d, X))
<1> DEFINE y == RemIndex(x, d, t, i)
           Q == Trail(d, X)
           v == View(w, d, t)
           a == View(x, d, t)
           b == View(y, d, t)
           o == v.opt
           r == v.row
           T == S \ {i}
<1>1. t \in Tables[d] /\ Settled(x, d) /\ t \in Loaded(x, d) /\ i \in IndexesOf(x, d, t)
  BY DEF Held, Sound, Cleaned, SameTabs
<1>2. View(w, d, t) = [opt |-> Opt(w, d, t), row |-> Data(w, d, t).row, indexes |-> IndexesOf(w, d, t)]
  BY <1>1, ViewIs
<1>3. v = [opt |-> o, row |-> r, indexes |-> v.indexes] /\ v.indexes = IndexesOf(w, d, t)
  BY <1>2
<1>4. a = [v EXCEPT !.indexes = S]
  BY DEF Cleaned
<1> HIDE DEF v, a, b, o, r, Q, y
<1>5. a = [opt |-> o, row |-> r, indexes |-> S]
  BY ONLY <1>3, <1>4
<1>6. [a EXCEPT !.indexes = @ \ {i}] = [opt |-> o, row |-> r, indexes |-> T]
  BY ONLY <1>5
<1>7. [v EXCEPT !.indexes = S] = [opt |-> o, row |-> r, indexes |-> S]
  BY ONLY <1>3
<1>8. [v EXCEPT !.indexes = T] = [opt |-> o, row |-> r, indexes |-> T]
  BY ONLY <1>3
<1>9. [v EXCEPT !.indexes = S] \in Remains(v) /\ [v EXCEPT !.indexes = T] \in Remains(v)
  BY <1>3 DEF Remains
<1>10. Forgets(d, a) \in X[t] /\ Forgets(d, [a EXCEPT !.indexes = @ \ {i}]) \in X[t]
  BY <1>5, <1>6, <1>7, <1>8, <1>9 DEF Leaves, v
<1>11. \A u \in Tables[d] : Forgets(d, View(x, d, u)) \in X[u]
  BY <1>10 DEF Cleaned, a
<1>12. IndexGone(x, y, d, t, i, Q)
  BY <1>1, <1>10, <1>11, RemIndexIs DEF a, y, Q
<1>13. Frame(w, y, d) /\ Passes(w, y, d, Q)
  BY <1>12, FrameTrans, PassesTrans DEF Cleaned, IndexGone, Q
<1>14. IndexesOf(y, d, t) = T
  BY <1>12, RestrictedIs DEF IndexGone, IndexesOf, Cleaned
<1>15. b = [v EXCEPT !.indexes = T]
  BY <1>6, <1>8, <1>12 DEF IndexGone, a, b
<1>16. Settled(y, d) /\ y.dep = w.dep /\ SameTabs(w, y, d) /\ Opt(y, d, t) = Opt(w, d, t)
       /\ \A u \in Tables[d] \ {t} : View(y, d, u) = View(w, d, u)
  BY <1>12 DEF IndexGone, Cleaned, SameTabs
<1> QED
  BY <1>13, <1>14, <1>15, <1>16 DEF Cleaned, b, v, y, Q

LEMMA RemIndexesIs ==
    ASSUME NEW w, NEW d \in Dbs, Settled(w, d), NEW t \in Loaded(w, d), NEW X,
           \A u \in Tables[d] : Forgets(d, View(w, d, u)) \in X[u], Leaves(d, View(w, d, t), X[t])
    PROVE  Cleaned(w, RemIndexes(w, d, t), d, t, {}, Trail(d, X))
<1> DEFINE order == Listed(Im(w, d, t))
           N == Len(order)
           T == IndexesOf(w, d, t)
           Q == Trail(d, X)
<1>1. Held(w, d) /\ Managed(Im(w, d, t), T) /\ IsWorld(w) /\ Shape(w, d) /\ t \in Tables[d]
  BY DEF Settled, Held, Sound, Shape
<1>2. /\ order \in Seq(T) /\ Range(order) = T
      /\ \A i, j \in 1 .. Len(order) : order[i] = order[j] => i = j
  BY <1>1, ListedOnce
<1>3. N \in Nat /\ DOMAIN order = 1 .. N /\ \A j \in 1 .. N : order[j] \in T
  <2> HIDE DEF order, T
  <2> QED
    BY ONLY <1>2 DEF N
<1>i. DropLoopRuns(N, w, d, t, order)
  BY <1>3, DropLoopSteps
<1>4. PICK f : /\ f = CHOOSE g : g = DropLoop(0 .. N, w, d, t, order, g)
               /\ f[0] = w
               /\ \A k \in 1 .. N : f[k] = RemIndex(f[k - 1], d, t, order[k])
  BY <1>i DEF DropLoopRuns
<1>5. RemIndexes(w, d, t) = f[N]
  BY <1>4, Zenon DEF RemIndexes, DropLoop
<1> DEFINE S(k) == {order[j] : j \in k + 1 .. N}
<1>6. S(0) = T /\ S(N) = {}
  <2>1. \A j : j \in 0 + 1 .. N <=> j \in 1 .. N
    BY <1>3
  <2>2. N + 1 .. N = {}
    BY <1>3
  <2>3. Range(order) = {order[j] : j \in 1 .. N}
    BY <1>3 DEF Range
  <2> HIDE DEF order
  <2> QED
    BY <1>2, <2>1, <2>2, <2>3
<1> DEFINE B == {k \in 0 .. N : Cleaned(w, f[k], d, t, S(k), Q)}
<1> HIDE DEF order, N, Q
<1>7. Cleaned(w, w, d, t, T, Q)
  <2>1. View(w, d, t) = [opt |-> Opt(w, d, t), row |-> Data(w, d, t).row, indexes |-> IndexesOf(w, d, t)]
    BY <1>1, ViewIs
  <2>2. View(w, d, t) = [View(w, d, t) EXCEPT !.indexes = T]
    BY <2>1
  <2>3. Quiet(w, w)
    BY <1>1 DEF Quiet
  <2>4. Frame(w, w, d) /\ Passes(w, w, d, Q) /\ SameTabs(w, w, d)
    BY <1>1, <2>3, QuietIs
  <2> QED
    BY <2>2, <2>4 DEF Cleaned
<1>8. 0 \in B
  <2>1. Cleaned(w, f[0], d, t, S(0), Q)
    BY <1>4, <1>6, <1>7
  <2>2. 0 \in 0 .. N
    BY <1>3
  <2> HIDE DEF S
  <2> QED
    BY <2>1, <2>2
<1>9. ASSUME NEW k \in 0 .. N - 1, k \in B PROVE k + 1 \in B
  <2> DEFINE i == order[k + 1]
             x == f[k]
             A == S(k)
  <2>1. k + 1 \in 1 .. N /\ k \in 0 .. N /\ k + 1 \in 0 .. N /\ (k + 1) - 1 = k
    BY <1>3
  <2>2. f[k + 1] = RemIndex(x, d, t, i)
    BY <1>4, <2>1
  <2>3. A \subseteq T /\ i \in A
    BY <1>3, <2>1
  <2>4. S(k + 1) = A \ {i}
    <3>1. ASSUME NEW j \in k + 1 .. N PROVE j \in 1 .. N /\ (j \in (k + 1) + 1 .. N <=> j # k + 1)
      BY <1>3, <2>1
    <3>2. \A j \in (k + 1) + 1 .. N : j \in k + 1 .. N
      BY <1>3, <2>1
    <3>3. \A j \in k + 1 .. N : order[j] = i <=> j = k + 1
      BY <1>2, <2>1, <3>1 DEF N
    <3> QED
      BY <3>1, <3>2, <3>3
  <2>5. Cleaned(w, x, d, t, A, Q)
    BY <1>9
  <2> HIDE DEF S, i, x, A
  <2>6. Cleaned(w, RemIndex(x, d, t, i), d, t, A \ {i}, Q)
    BY <1>1, <2>3, <2>5, CleanedOne DEF Q
  <2> QED
    BY <2>1, <2>2, <2>4, <2>6
<1>10. N \in B
  <2> HIDE DEF B
  <2>1. N \in 0 .. N
    BY <1>3
  <2> QED
    BY <1>3, <1>8, <1>9, <2>1, UpTo
<1> QED
  BY <1>5, <1>6, <1>10 DEF Q

\* The files of t are gone.
FilesGone(w, x, d, t) ==
    /\ Frame(w, x, d) /\ x.live = w.live /\ x.sys = w.sys /\ x.dep = w.dep /\ Sound(x, d)
    /\ x.trail = w.trail \/ (d \in FileDbs /\ x.trail = w.trail \union {x.disk})
    /\ d \in FileDbs =>
          /\ SameSchema(w.disk[d], x.disk[d])
          /\ \A f \in Nat : RowAt(x.disk[d], f) =
                IF OnDisk(w, d, t) /\ f = FileId(w, d, t) THEN NoRow ELSE RowAt(w.disk[d], f)
    /\ \A u \in Loaded(w, d) \ {t} : Kept(w, x, d, u)

LEMMA RemoveFilesIs ==
    ASSUME NEW w, NEW d \in Dbs, Sound(w, d), NEW t \in Loaded(w, d)
    PROVE  FilesGone(w, RemoveFiles(w, d, t), d, t)
<1> DEFINE x == RemoveFiles(w, d, t)
<1>1. Shape(w, d) /\ IsWorld(w)
  BY DEF Sound, Shape
<1>2. w.disk = [e \in FileDbs |-> w.disk[e]] /\ w.live = [e \in Dbs |-> w.live[e]]
  BY <1>1 DEF Shape
<1>3. CASE OnDisk(w, d, t)
  <2> DEFINE i == FileId(w, d, t)
             p == w.disk[d]
             fs == Without(p.files, i)
             q == [p EXCEPT !.files = Without(@, i)]
  <2>1. d \in FileDbs /\ i \in Nat
    BY <1>3, IdIs DEF OnDisk
  <2>2. /\ p = [cut |-> p.cut, schema |-> p.schema, files |-> p.files]
        /\ p.cut \in BOOLEAN /\ p.schema \in Schemas(d) /\ p.files \in FileSets
    BY <1>1, <2>1, DiskIs DEF Shape
  <2>3. x = SetDisk(w, d, q)
    BY <1>3 DEF RemoveFiles
  <2>4. q = [cut |-> p.cut, schema |-> p.schema, files |-> fs]
    BY <2>2
  <2>5. /\ fs \in FileSets /\ DOMAIN fs = DOMAIN p.files \ {i}
        /\ \A g \in DOMAIN p.files \ {i} : fs[g] = p.files[g]
    BY <2>2, FileRemoved
  <2> HIDE DEF q, fs
  <2>6. /\ IsWorld(x) /\ x.dm = w.dm /\ x.live = w.live /\ x.cur = w.cur /\ x.sys = w.sys
        /\ x.dep = w.dep /\ Agree(FileDbs, w.disk, x.disk, d) /\ x.disk[d] = q
        /\ x.trail = w.trail \union {x.disk}
    BY <1>1, <1>2, <2>1, <2>3, SetDiskIs
  <2> HIDE DEF x
  <2>7. q \in Disks(d) /\ q.cut = p.cut /\ q.schema = p.schema /\ q.files = fs
    BY <2>2, <2>4, <2>5, DiskIs
  <2>8. Shape(x, d)
    BY <1>1, <2>6, <2>7 DEF Shape, Agree
  <2>9. Agree(Dbs, w.live, x.live, d)
    BY <1>2, <2>6 DEF Agree
  <2>10. SameTabs(w, x, d) /\ \A u \in Loaded(w, d) : SameTable(w, x, d, u) /\ Buffer(x, d, u) = Buffer(w, d, u)
    BY <2>6 DEF SameTabs, SameTable, Tm, Loaded, Opt, Im, Buffer
  <2>11. \A u \in Loaded(w, d) : OnDisk(x, d, u) = OnDisk(w, d, u) /\ FileId(x, d, u) = FileId(w, d, u)
    BY <2>10 DEF SameTabs, SameTable, OnDisk, FileId
  <2>13. ASSUME NEW u \in Loaded(w, d) \ {t} PROVE Kept(w, x, d, u)
    <3>1. FileId(w, d, u) # i
      BY IdIs
    <3>2. Filed(w, d, u) => Filed(x, d, u)
      BY <2>5, <2>6, <2>7, <2>11, <3>1 DEF Filed
    <3>3. CASE OnDisk(w, d, u) /\ FileId(w, d, u) \in DOMAIN p.files
      <4>1. Data(x, d, u) = fs[FileId(w, d, u)] /\ Data(w, d, u) = p.files[FileId(w, d, u)]
        BY <2>6, <2>7, <2>11, <3>3, DataAt
      <4>2. Data(x, d, u) = Data(w, d, u)
        BY <2>5, <3>1, <3>3, <4>1
      <4> QED
        BY <2>10, <3>2, <4>2 DEF Kept
    <3>4. CASE OnDisk(w, d, u) /\ FileId(w, d, u) \notin DOMAIN p.files
      BY <2>10, <3>4 DEF Kept, Filed
    <3>5. CASE ~OnDisk(w, d, u)
      BY <2>10, <2>11, <3>2, <3>5, DataAt DEF Kept
    <3> QED
      BY <3>3, <3>4, <3>5
  <2>14. \A f \in Nat : RowAt(x.disk[d], f) = IF f = i THEN NoRow ELSE RowAt(p, f)
    BY <2>5, <2>6, <2>7 DEF RowAt
  <2>15. Sound(x, d)
    BY <2>8, <2>10, SoundKept
  <2>16. FilesGone(w, x, d, t)
    BY <1>3, <2>1, <2>6, <2>7, <2>9, <2>13, <2>14, <2>15 DEF FilesGone, Frame, SameSchema
  <2> QED
    BY <2>16 DEF x
<1>4. CASE ~OnDisk(w, d, t)
  <2>1. x = w /\ Quiet(w, w)
    BY <1>1, <1>4 DEF RemoveFiles, Quiet
  <2>2. Frame(w, w, d) /\ \A u : Kept(w, w, d, u)
    BY <1>1, <2>1, QuietIs
  <2> QED
    BY <1>4, <2>1, <2>2 DEF FilesGone, SameSchema
<1> QED
  BY <1>3, <1>4

\* Table t is out of memory.
Exited(w, x, d, t) ==
    /\ Frame(w, x, d) /\ x.disk = w.disk /\ x.trail = w.trail /\ x.sys = w.sys /\ x.dep = w.dep
    /\ Sound(x, d) /\ Loaded(x, d) = Loaded(w, d) \ {t}
    /\ \A u \in Loaded(w, d) \ {t} : Kept(w, x, d, u) /\ FileId(x, d, u) = FileId(w, d, u)

LEMMA ExitedIs ==
    ASSUME NEW w, NEW d \in Dbs, Sound(w, d), NEW t \in Loaded(w, d)
    PROVE  Exited(w, SetTabs(w, d, Del(Tm(w, d), t), Without(w.live[d].tab, t)), d, t)
<1> DEFINE v == w.live[d]
           om == Tm(w, d)
           m == Del(om, t)
           g == Without(v.tab, t)
           v2 == [tm |-> m, tab |-> g]
           x == SetTabs(w, d, m, g)
           S == Loaded(w, d)
<1>1. /\ IsWorld(w) /\ w.live = [e \in Dbs |-> w.live[e]] /\ DbShape(v) /\ DOMAIN v.tab = S /\ Shape(w, d)
      /\ Managed(om, S)
  BY DEF Sound, Shape, Loaded
<1>2. Managed(m, S \ {t}) /\ m.id = Without(om.id, t)
  BY <1>1, DelIs
<1>3. /\ DOMAIN g = S \ {t} /\ \A u \in S \ {t} : g[u] = v.tab[u]
      /\ g = [u \in DOMAIN g |-> g[u]]
  BY <1>1 DEF Without, Restrict
<1>4. DOMAIN om.id = S
  BY <1>1 DEF Managed
<1>5. \A u \in S \ {t} : m.id[u] = om.id[u]
  <2> DEFINE h == om.id
             k == m.id
  <2>1. k = Without(h, t) /\ DOMAIN h = S
    BY <1>2, <1>4
  <2> HIDE DEF h, k, m, om, S
  <2>2. \A u \in S \ {t} : k[u] = h[u]
    BY <2>1, RestrictedIs
  <2> QED
    BY <2>2 DEF h, k
<1> HIDE DEF g, m
<1>6. DbShape(v2) /\ v2.tm = m /\ v2.tab = g
  BY <1>1, <1>3 DEF DbShape
<1> HIDE DEF v2
<1>7. Assigned(w, x, d) /\ x.live[d] = v2
  BY <1>1, AssignTabs DEF v2
<1> HIDE DEF x
<1>8. Shape(x, d)
  BY <1>1, <1>6, <1>7 DEF Shape, Assigned, Agree
<1>9. Tm(x, d) = m /\ Loaded(x, d) = S \ {t}
  BY <1>3, <1>6, <1>7 DEF Tm, Loaded
<1>10. \A u \in S \ {t} : SameTable(w, x, d, u) /\ Buffer(x, d, u) = Buffer(w, d, u)
  BY <1>3, <1>6, <1>7 DEF SameTable, Opt, Im, Buffer
<1>11. \A u \in S \ {t} : FileId(x, d, u) = FileId(w, d, u)
  BY <1>5, <1>9 DEF FileId
<1>12. Sound(x, d)
  <2>1. ASSUME NEW u \in S \ {t}
        PROVE  /\ Managed(Im(x, d, u), IndexesOf(x, d, u)) /\ IndexesOf(x, d, u) \subseteq Indexes
               /\ \A j \in IndexesOf(x, d, u) : Im(x, d, u).id[j] \in Ids
    BY <1>10 DEF Sound, SameTable, IndexesOf
  <2>2. S \ {t} \subseteq Tables[d]
    BY DEF Sound
  <2> QED
    BY <1>2, <1>8, <1>9, <2>1, <2>2 DEF Sound
<1>13. x.disk = w.disk /\ x.trail = w.trail /\ x.sys = w.sys /\ x.dep = w.dep /\ Frame(w, x, d)
  BY <1>1, <1>7 DEF Assigned, Frame, Agree, Shape
<1>14. \A u \in S \ {t} : OnDisk(x, d, u) = OnDisk(w, d, u)
  BY <1>10 DEF OnDisk, SameTable
<1>15. \A u \in S \ {t} : Kept(w, x, d, u)
  BY <1>10, <1>11, <1>13, <1>14, DataAt DEF Kept, Filed
<1>16. Exited(w, x, d, t)
  BY <1>9, <1>11, <1>12, <1>13, <1>15 DEF Exited
<1> QED
  BY ONLY <1>16 DEF x, m, g, om, v

\* A table without indexes whose files are gone is seen empty on the disk.
Emptied(v) == [v EXCEPT !.row = NoRow]

LEMMA RemovedFine ==
    ASSUME NEW w, NEW d \in FileDbs, Settled(w, d), NEW t \in Loaded(w, d), NEW q \in Disks(d),
           SameSchema(w.disk[d], q),
           \A f \in Nat : RowAt(q, f) =
                IF OnDisk(w, d, t) /\ f = FileId(w, d, t) THEN NoRow ELSE RowAt(w.disk[d], f),
           NEW X, \A u \in Tables[d] : Forgets(d, View(w, d, u)) \in X[u],
           Forgets(d, Emptied(View(w, d, t))) \in X[t]
    PROVE  Fine(d, q, X)
<1> DEFINE s == q.schema
           p == w.disk[d]
<1>1. d \in Dbs /\ Held(w, d) /\ Owned(w, d)
  BY CatalogAssumption DEF Settled
<1>2. NamesIn(s) = Loaded(w, d) /\ \A k \in DOMAIN s : EntryOf(w, d, s[k])
  BY DEF Describes, Settled, SameSchema
<1>3. Loaded(w, d) \subseteq Tables[d]
  BY <1>1 DEF Held, Sound
<1> HIDE DEF s
<1>4. ASSUME NEW k \in DOMAIN s PROVE Shown(q, s[k]) \in X[s[k].name]
  <2> DEFINE e == s[k]
             u == e.name
  <2>1. /\ u \in Loaded(w, d) /\ u \in Tables[d] /\ e.id = FileId(w, d, u) /\ e.opt = Opt(w, d, u)
        /\ NamesIn(e.indexes) = IndexesOf(w, d, u)
    BY <1>2, <1>3, <1>4 DEF EntryOf
  <2> DEFINE r == Data(w, d, u).row
             v == [opt |-> e.opt, row |-> r, indexes |-> NamesIn(e.indexes)]
             z == [opt |-> e.opt, row |-> NoRow, indexes |-> NamesIn(e.indexes)]
  <2>2. View(w, d, u) = v
    BY <1>1, <2>1, ViewIs
  <2>3. Emptied(v) = z
    BY DEF Emptied
  <2>4. FileId(w, d, u) \in Nat /\ (FileId(w, d, u) = FileId(w, d, t) => u = t)
    BY <1>1, <2>1, IdIs DEF Held
  <2>5. CASE e.opt = "memory"
    <3>1. Forgets(d, v) = z /\ Shown(q, e) = z
      BY <2>5 DEF Forgets, Shown
    <3> QED
      BY <2>1, <2>2, <3>1
  <2>6. CASE e.opt # "memory" /\ u # t
    <3>1. OnDisk(w, d, u) /\ Filed(w, d, u)
      BY <1>1, <2>1, <2>6 DEF OnDisk, Held, DataFits
    <3>2. r = RowAt(q, e.id)
      BY <2>1, <2>4, <2>6, <3>1, DataAt DEF Filed, RowAt
    <3>3. Forgets(d, v) = v /\ Shown(q, e) = v
      BY <2>6, <3>2 DEF Forgets, Shown
    <3> QED
      BY <2>1, <2>2, <3>3
  <2>7. CASE e.opt # "memory" /\ u = t
    <3>1. OnDisk(w, d, t)
      BY <2>1, <2>7 DEF OnDisk
    <3>2. RowAt(q, e.id) = NoRow
      BY <2>1, <2>4, <2>7, <3>1
    <3>3. Forgets(d, z) = z /\ Shown(q, e) = z
      BY <2>7, <3>2 DEF Forgets, Shown
    <3> QED
      BY <2>2, <2>3, <2>7, <3>3
  <2> QED
    BY <2>5, <2>6, <2>7
<1>5. ASSUME NEW u \in Tables[d] \ NamesIn(s) PROVE NoTable \in X[u]
  <2>1. View(w, d, u) = NoTable
    BY <1>1, <1>2, ViewIs
  <2>2. Forgets(d, NoTable) = NoTable
    BY DEF Forgets, NoTable
  <2> QED
    BY <2>1, <2>2
<1>6. ASSUME NEW f \in Nat, RowAt(q, f) # NoRow
      PROVE  \E k \in DOMAIN s : s[k].id = f /\ s[k].name = RowAt(q, f) /\ s[k].opt # "memory"
  <2>1. RowAt(q, f) = RowAt(p, f)
    BY <1>6
  <2>2. PICK u \in Loaded(w, d) : OwnedBy(w, d, f, u)
    BY <1>1, <1>6, <2>1 DEF Owned
  <2>3. PICK k \in DOMAIN s : s[k].name = u
    BY <1>2 DEF NamesIn
  <2> QED
    BY <1>2, <2>1, <2>2, <2>3 DEF EntryOf, OwnedBy, OnDisk
<1> QED
  BY <1>4, <1>5, <1>6 DEF Fine, s

\* Table t is gone.
TableGone(w, x, d, t, Q) ==
    /\ Frame(w, x, d) /\ Passes(w, x, d, Q) /\ Settled(x, d) /\ x.dep = w.dep
    /\ Loaded(x, d) = Loaded(w, d) \ {t}
    /\ \A u \in Loaded(x, d) : FileId(x, d, u) = FileId(w, d, u)
    /\ \A u \in Tables[d] \ {t} : View(x, d, u) = View(w, d, u)
    /\ View(x, d, t) = NoTable

Dropped(w, d, t) ==
    LET x == RemoveFiles(RemIndexes(SysDelTable(w, d, t), d, t), d, t)
    IN  SetTabs(x, d, Del(Tm(x, d), t), Without(x.live[d].tab, t))

LEMMA RemTableSteps ==
    ASSUME NEW w, NEW d, NEW t
    PROVE  RemTable(w, d, t) = GenSchema(Dropped(w, d, t), d)
BY DEF RemTable, Dropped, SetTabs, Tm

LEMMA SettledQuiet ==
    ASSUME NEW w, NEW x, NEW d \in Dbs, Quiet(w, x), Settled(w, d)
    PROVE  Settled(x, d) /\ \A u : View(x, d, u) = View(w, d, u)
<1>1. Shape(w, d) /\ x.disk = w.disk
  BY DEF Settled, Held, Sound, Quiet
<1>2. \A u : View(x, d, u) = View(w, d, u)
  BY <1>1, QuietView
<1>3. SameTabs(w, x, d) /\ (\A u : Kept(w, x, d, u)) /\ Held(x, d) /\ Owned(x, d)
  BY <1>1, QuietIs DEF Settled
<1>4. ASSUME d \in FileDbs PROVE Describes(x, d, x.disk[d].schema)
  BY <1>1, <1>3, <1>4, DescribesKept DEF Settled, Kept
<1> QED
  BY <1>1, <1>2, <1>3, <1>4 DEF Settled

\* Out of memory, after its indexes and its files.
Absent(b, e, d, t) ==
    /\ Frame(b, e, d) /\ Held(e, d) /\ Owned(e, d) /\ e.dep = b.dep
    /\ Loaded(e, d) = Loaded(b, d) \ {t}
    /\ \A u \in Loaded(e, d) : FileId(e, d, u) = FileId(b, d, u)
    /\ \A u \in Tables[d] \ {t} : View(e, d, u) = View(b, d, u)
    /\ View(e, d, t) = NoTable

LEMMA AbsentIs ==
    ASSUME NEW b, NEW c, NEW e, NEW d \in Dbs, Settled(b, d), NEW t \in Loaded(b, d),
           FilesGone(b, c, d, t), Exited(c, e, d, t)
    PROVE  Absent(b, e, d, t)
<1>1. Held(b, d) /\ Owned(b, d) /\ Loaded(b, d) \subseteq Tables[d]
  BY DEF Settled, Held, Sound
<1>2. Frame(b, e, d) /\ e.dep = b.dep
  BY FrameTrans DEF FilesGone, Exited
<1>3. Loaded(c, d) = Loaded(b, d) /\ \A u : FileId(c, d, u) = FileId(b, d, u)
  BY DEF FilesGone, Loaded, FileId, Tm
<1>4. Loaded(e, d) = Loaded(b, d) \ {t} /\ \A u \in Loaded(e, d) : FileId(e, d, u) = FileId(b, d, u)
  BY <1>3 DEF Exited
<1>5. \A u \in Loaded(e, d) : Kept(b, e, d, u)
  BY <1>3, <1>4 DEF FilesGone, Exited, Kept, SameTable
<1>6. \A u \in Loaded(e, d) : DataFits(e, d, u)
  BY <1>1, <1>4, <1>5, FitsKept DEF Held
<1>7. Held(e, d)
  BY <1>6 DEF Held, Exited
<1>8. Owned(e, d)
  <2> SUFFICES ASSUME d \in FileDbs, NEW f \in Nat, RowAt(e.disk[d], f) # NoRow
               PROVE  \E u \in Loaded(e, d) : OwnedBy(e, d, f, u)
    BY DEF Owned
  <2>1. /\ ~(OnDisk(b, d, t) /\ f = FileId(b, d, t))
        /\ RowAt(e.disk[d], f) = RowAt(b.disk[d], f)
    BY DEF FilesGone, Exited
  <2>2. PICK u \in Loaded(b, d) : OwnedBy(b, d, f, u)
    BY <1>1, <2>1 DEF Owned
  <2>3. u \in Loaded(e, d) /\ Kept(b, e, d, u)
    BY <1>4, <1>5, <2>1, <2>2 DEF OwnedBy
  <2>4. OnDisk(e, d, u)
    BY <2>2, <2>3 DEF OwnedBy, OnDisk, Kept, SameTable
  <2> QED
    BY <1>4, <2>1, <2>2, <2>3, <2>4 DEF OwnedBy
<1>9. ASSUME NEW u \in Tables[d] \ {t} PROVE View(e, d, u) = View(b, d, u)
  <2>1. CASE u \in Loaded(b, d)
    BY <1>1, <1>4, <1>5, <1>7, <1>9, <2>1, KeptView
  <2>2. CASE u \notin Loaded(b, d)
    BY <1>1, <1>4, <1>7, <1>9, <2>2, ViewIs
  <2> QED
    BY <2>1, <2>2
<1>10. View(e, d, t) = NoTable
  BY <1>1, <1>4, <1>7, ViewIs
<1> QED
  BY <1>2, <1>4, <1>7, <1>8, <1>9, <1>10 DEF Absent

LEMMA RemTableIs ==
    ASSUME NEW w, NEW d \in Dbs, Settled(w, d), NEW t \in Loaded(w, d), NEW X,
           \A u \in Tables[d] : Forgets(d, View(w, d, u)) \in X[u], Leaves(d, View(w, d, t), X[t])
    PROVE  TableGone(w, RemTable(w, d, t), d, t, Trail(d, X))
<1> DEFINE a == SysDelTable(w, d, t)
           b == RemIndexes(a, d, t)
           c == RemoveFiles(b, d, t)
           e == SetTabs(c, d, Del(Tm(c, d), t), Without(c.live[d].tab, t))
           x == GenSchema(e, d)
           Q == Trail(d, X)
           v == View(a, d, t)
<1> HIDE DEF Q
<1>1. Held(w, d) /\ IsWorld(w) /\ Shape(w, d) /\ t \in Tables[d]
  BY DEF Settled, Held, Sound, Shape
<1>2. SysOnly(w, a)
  BY <1>1, SysDelTableIs
<1> HIDE DEF a
<1>3. /\ Settled(a, d) /\ \A u : View(a, d, u) = View(w, d, u)
      /\ Frame(w, a, d) /\ Passes(w, a, d, Q) /\ SameTabs(w, a, d) /\ a.dep = w.dep
  BY <1>1, <1>2, SettledQuiet, QuietIs DEF SysOnly
<1>4. t \in Loaded(a, d)
  BY <1>3 DEF SameTabs
<1>5. Cleaned(a, b, d, t, {}, Q)
  BY <1>3, <1>4, RemIndexesIs DEF Q
<1> HIDE DEF b
<1>6. Settled(b, d) /\ t \in Loaded(b, d) /\ Frame(w, b, d) /\ Passes(w, b, d, Q) /\ b.dep = w.dep
      /\ SameTabs(w, b, d)
  BY <1>3, <1>4, <1>5, FrameTrans, PassesTrans DEF Cleaned, SameTabs
<1>7. FilesGone(b, c, d, t)
  BY <1>6, RemoveFilesIs DEF Settled, Held
<1> HIDE DEF c
<1>8. t \in Loaded(c, d) /\ Sound(c, d)
  BY <1>6, <1>7 DEF FilesGone, Loaded
<1>9. Exited(c, e, d, t)
  BY <1>8, ExitedIs
<1> HIDE DEF e
<1>i. Absent(b, e, d, t)
  BY ONLY d \in Dbs, <1>6, <1>7, <1>9, AbsentIs
<1>10. /\ Frame(b, e, d) /\ Held(e, d) /\ Owned(e, d) /\ e.dep = b.dep
       /\ Loaded(e, d) = Loaded(b, d) \ {t}
       /\ \A u \in Loaded(e, d) : FileId(e, d, u) = FileId(b, d, u)
       /\ \A u \in Tables[d] \ {t} : View(e, d, u) = View(b, d, u)
       /\ View(e, d, t) = NoTable
  BY <1>i DEF Absent
<1>11. View(b, d, t) = [v EXCEPT !.indexes = {}] /\ \A u \in Tables[d] \ {t} : View(b, d, u) = View(w, d, u)
  BY <1>3, <1>5 DEF Cleaned
<1>12. /\ v = [opt |-> v.opt, row |-> v.row, indexes |-> v.indexes]
       /\ Leaves(d, v, X[t])
  <2>1. v = [opt |-> Opt(a, d, t), row |-> Data(a, d, t).row, indexes |-> IndexesOf(a, d, t)]
    BY <1>1, <1>3, <1>4, ViewIs DEF Settled
  <2> HIDE DEF v
  <2>2. v = [opt |-> v.opt, row |-> v.row, indexes |-> v.indexes]
    BY ONLY <2>1
  <2> QED
    BY <1>3, <2>2 DEF v
<1> HIDE DEF v
<1>13. [v EXCEPT !.indexes = {}] \in Remains(v) /\ Emptied([v EXCEPT !.indexes = {}]) \in Remains(v)
  <2>1. [v EXCEPT !.indexes = {}] \in {[v EXCEPT !.indexes = ix] : ix \in SUBSET v.indexes}
    OBVIOUS
  <2>2. Emptied([v EXCEPT !.indexes = {}]) = [v EXCEPT !.indexes = {}, !.row = NoRow]
    BY ONLY <1>12 DEF Emptied
  <2> QED
    BY <2>1, <2>2 DEF Remains
<1>14. /\ Forgets(d, View(b, d, t)) \in X[t] /\ Forgets(d, Emptied(View(b, d, t))) \in X[t]
       /\ Forgets(d, NoTable) \in X[t]
  BY <1>11, <1>12, <1>13 DEF Leaves
<1>15. \A u \in Tables[d] : Forgets(d, View(b, d, u)) \in X[u]
  BY <1>11, <1>14
<1>16. \A u \in Tables[d] : Forgets(d, View(e, d, u)) \in X[u]
  BY <1>10, <1>14, <1>15
<1>17. Passes(b, e, d, Q)
  <2>1. CASE c.trail = b.trail
    BY <2>1, <1>9 DEF Passes, Exited
  <2>2. CASE d \in FileDbs /\ c.trail = b.trail \union {c.disk}
    <3>1. c.disk[d] \in Disks(d) /\ Agree(FileDbs, b.disk, c.disk, d)
      BY <1>8, <2>2, <1>7 DEF Sound, Shape, FilesGone, Frame
    <3>2. Fine(d, c.disk[d], X)
      BY <1>6, <1>7, <1>14, <1>15, <2>2, <3>1, RemovedFine DEF FilesGone
    <3>3. c.disk[d] \in Q
      BY <3>1, <3>2 DEF Trail, Q
    <3> QED
      BY <1>9, <2>2, <3>1, <3>3 DEF Passes, Exited
  <2> QED
    BY <1>7, <2>1, <2>2 DEF FilesGone
<1>18. /\ Recorded(e, x, d) /\ Passes(e, x, d, Q) /\ Settled(x, d)
       /\ \A u : View(x, d, u) = View(e, d, u)
  BY <1>10, <1>16, Settles DEF Q
<1> HIDE DEF x
<1>19. Frame(w, x, d) /\ Passes(w, x, d, Q) /\ SameTabs(e, x, d) /\ x.dep = w.dep
  BY <1>6, <1>10, <1>17, <1>18, FrameTrans, PassesTrans DEF Recorded
<1>20. Loaded(x, d) = Loaded(w, d) \ {t} /\ \A u \in Loaded(x, d) : FileId(x, d, u) = FileId(w, d, u)
  BY <1>6, <1>10, <1>19 DEF SameTabs, FileId
<1>21. \A u \in Tables[d] \ {t} : View(x, d, u) = View(w, d, u)
  BY <1>10, <1>11, <1>18
<1>22. TableGone(w, x, d, t, Q)
  BY <1>10, <1>18, <1>19, <1>20, <1>21 DEF TableGone
<1>23. RemTable(w, d, t) = x
  BY RemTableSteps DEF Dropped, x, e, c, b, a
<1> QED
  BY <1>22, <1>23 DEF Q

LEMMA DropTableIs ==
    ASSUME CatalogInv, ~departed, NEW d \in Dbs, NEW t \in Tables[d], DropTable(d, t)
    PROVE  CatalogInv'
<1>1. d \in Opened /\ Get(Tm(World, d), t) # NoObj
  BY DEF DropTable, HasTable
<1> DEFINE v == Wish(d)[t]
           done == [Wish(d) EXCEPT ![t] = NoTable]
           n == [Nothing(d) EXCEPT ![t] = Remains(v)]
           x == RemTable(World, d, t)
           Z == want[d]
           X == Forgotten(d, Mixed(d, Z, done, n))
<1>2. Statement(x, d, done, n)
  BY DEF DropTable
<1>3. OpenOK(World, d, Z) /\ t \in Loaded(World, d)
  BY <1>1, OpenedIs
<1>4. \A u \in Tables[d] : Wish(d)[u] = View(World, d, u) /\ View(World, d, u) \in Z[u]
  BY <1>1, OpenedIs
<1>5. Wish(d) = [u \in Tables[d] |-> Wish(d)[u]]
  BY <1>1, OpenedIs
<1>6. /\ \A u \in Tables[d] \ {t} : done[u] = View(World, d, u)
      /\ done[t] = NoTable
  BY <1>4, <1>5
<1>7. n[t] = Remains(v) /\ v = View(World, d, t)
  BY <1>4 DEF Nothing
<1> HIDE DEF done, Z, n, v
<1>8. \A u \in Tables[d] : Forgets(d, View(World, d, u)) \in X[u]
  BY <1>4 DEF Forgotten, Mixed
<1>9. Leaves(d, v, X[t])
  <2>1. X[t] = {Forgets(d, r) : r \in Z[t] \union {done[t]} \union n[t]}
    BY DEF Forgotten, Mixed
  <2>2. Remains(v) \union {v, NoTable} \subseteq Z[t] \union {done[t]} \union n[t]
    BY <1>4, <1>6, <1>7
  <2> HIDE DEF X
  <2> QED
    BY <2>1, <2>2 DEF Leaves
<1>10. Settled(World, d)
  BY <1>3 DEF OpenOK, Settled
<1> HIDE DEF X
<1>11. TableGone(World, x, d, t, Trail(d, X))
  BY <1>3, <1>7, <1>8, <1>9, <1>10, RemTableIs
<1> HIDE DEF x
<1>12. OpenOK(x, d, Promised(d, done))
  BY <1>6, <1>11 DEF TableGone, Settled, OpenOK, Promised
<1>13. IsWorld(x) /\ Ended(World, x, d, Z, done, n)
  BY <1>11, <1>12 DEF TableGone, Frame, Ended, X
<1> QED
  BY <1>1, <1>2, <1>13, StatementEnds DEF Z

-------------------------------------------------------------------------------
(* A database is dropped: its tables one after the other.                    *)

TablesLoop(S, w, d, order, f) == [k \in S |-> IF k = 0 THEN w ELSE RemTable(f[k - 1], d, order[k])]

TablesLoopRuns(N, w, d, order) ==
    \E f : /\ f = CHOOSE g : g = TablesLoop(0 .. N, w, d, order, g)
           /\ f[0] = w
           /\ \A k \in 1 .. N : f[k] = RemTable(f[k - 1], d, order[k])

LEMMA TablesLoopSteps ==
    ASSUME NEW w, NEW d, NEW order, NEW N \in Nat
    PROVE  TablesLoopRuns(N, w, d, order)
<1> DEFINE B == {m \in 0 .. N : \E f : f = TablesLoop(0 .. m, w, d, order, f)}
<1>1. 0 \in B
  <2>1. \A f : TablesLoop(0 .. 0, w, d, order, f) = [k \in 0 .. 0 |-> w]
    BY DEF TablesLoop
  <2> QED
    BY <2>1
<1>2. ASSUME NEW m \in 0 .. N - 1, m \in B PROVE m + 1 \in B
  <2>1. PICK v : v = TablesLoop(0 .. m, w, d, order, v)
    BY <1>2
  <2> DEFINE e == RemTable(v[m], d, order[(m + 1)])
             f == [k \in 0 .. m + 1 |-> IF k = m + 1 THEN e ELSE v[k]]
  <2>2. ASSUME NEW k \in 0 .. m + 1
        PROVE  f[k] = IF k = 0 THEN w ELSE RemTable(f[k - 1], d, order[k])
    <3>1. CASE k = m + 1
      <4>1. f[k] = e /\ k # 0 /\ k - 1 = m /\ f[m] = v[m] /\ k = m + 1
        BY <3>1
      <4> HIDE DEF f
      <4> QED
        BY <4>1
    <3>2. CASE k # m + 1
      <4>1. k \in 0 .. m /\ f[k] = v[k] /\ (k # 0 => k - 1 \in 0 .. m /\ f[k - 1] = v[k - 1])
        BY <3>2
      <4>2. v[k] = IF k = 0 THEN w ELSE RemTable(v[k - 1], d, order[k])
        BY <2>1, <4>1 DEF TablesLoop
      <4> HIDE DEF f
      <4> QED
        BY <4>1, <4>2
    <3> QED
      BY <3>1, <3>2
  <2>3. f = TablesLoop(0 .. m + 1, w, d, order, f)
    <3>1. f = [k \in 0 .. m + 1 |-> f[k]]
      OBVIOUS
    <3> HIDE DEF f
    <3> QED
      BY <2>2, <3>1 DEF TablesLoop
  <2> QED
    BY <2>3
<1>3. N \in B
  <2> HIDE DEF B
  <2> QED
    BY <1>1, <1>2, UpTo
<1> DEFINE h == CHOOSE g : g = TablesLoop(0 .. N, w, d, order, g)
<1>4. h = TablesLoop(0 .. N, w, d, order, h)
  BY <1>3
<1> HIDE DEF h
<1>5. h[0] = w /\ \A k \in 1 .. N : h[k] = RemTable(h[k - 1], d, order[k])
  BY <1>4 DEF TablesLoop
<1> QED
  BY <1>5 DEF h, TablesLoopRuns

\* The tables of S are left, and are seen as before.
Emptying(w, x, d, S, Q) ==
    /\ Frame(w, x, d) /\ Passes(w, x, d, Q) /\ Settled(x, d) /\ x.dep = w.dep
    /\ Loaded(x, d) = S
    /\ \A u \in Tables[d] : View(x, d, u) = IF u \in S THEN View(w, d, u) ELSE NoTable

LEMMA EmptiedOne ==
    ASSUME NEW w, NEW x, NEW d \in Dbs, NEW S, NEW X, Emptying(w, x, d, S, Trail(d, X)), NEW t \in S,
           \A u \in Tables[d] : Leaves(d, View(w, d, u), X[u])
    PROVE  Emptying(w, RemTable(x, d, t), d, S \ {t}, Trail(d, X))
<1> DEFINE y == RemTable(x, d, t)
           Q == Trail(d, X)
<1>1. Settled(x, d) /\ t \in Loaded(x, d) /\ t \in Tables[d]
  BY DEF Emptying, Settled, Held, Sound
<1>2. \A u \in Tables[d] : Forgets(d, View(w, d, u)) \in X[u] /\ Forgets(d, NoTable) \in X[u]
  BY DEF Leaves
<1>3. (\A u \in Tables[d] : Forgets(d, View(x, d, u)) \in X[u]) /\ Leaves(d, View(x, d, t), X[t])
  BY <1>1, <1>2 DEF Emptying
<1>4. TableGone(x, y, d, t, Q)
  BY <1>1, <1>3, RemTableIs
<1> HIDE DEF y, Q
<1>5. Frame(w, y, d) /\ Passes(w, y, d, Q)
  BY <1>4, FrameTrans, PassesTrans DEF Emptying, TableGone, Q
<1>6. Emptying(w, y, d, S \ {t}, Q)
  BY <1>4, <1>5 DEF Emptying, TableGone
<1> QED
  BY <1>6 DEF y, Q

LEMMA RemTablesIs ==
    ASSUME NEW w, NEW d \in Dbs, Settled(w, d), NEW X,
           \A u \in Tables[d] : Leaves(d, View(w, d, u), X[u])
    PROVE  Emptying(w, RemTables(w, d), d, {}, Trail(d, X))
<1> DEFINE order == Listed(Tm(w, d))
           N == Len(order)
           T == Loaded(w, d)
           Q == Trail(d, X)
<1>1. Held(w, d) /\ Managed(Tm(w, d), T) /\ IsWorld(w) /\ Shape(w, d)
  BY DEF Settled, Held, Sound, Shape
<1>2. /\ order \in Seq(T) /\ Range(order) = T
      /\ \A i, j \in 1 .. Len(order) : order[i] = order[j] => i = j
  BY <1>1, ListedOnce
<1>3. N \in Nat /\ DOMAIN order = 1 .. N /\ \A j \in 1 .. N : order[j] \in T
  <2> HIDE DEF order, T
  <2> QED
    BY ONLY <1>2 DEF N
<1>i. TablesLoopRuns(N, w, d, order)
  BY <1>3, TablesLoopSteps
<1>4. PICK f : /\ f = CHOOSE g : g = TablesLoop(0 .. N, w, d, order, g)
               /\ f[0] = w
               /\ \A k \in 1 .. N : f[k] = RemTable(f[k - 1], d, order[k])
  BY <1>i DEF TablesLoopRuns
<1>5. RemTables(w, d) = f[N]
  BY <1>4, Zenon DEF RemTables, TablesLoop
<1> DEFINE S(k) == {order[j] : j \in k + 1 .. N}
<1>6. S(0) = T /\ S(N) = {}
  <2>1. \A j : j \in 0 + 1 .. N <=> j \in 1 .. N
    BY <1>3
  <2>2. N + 1 .. N = {}
    BY <1>3
  <2>3. Range(order) = {order[j] : j \in 1 .. N}
    BY <1>3 DEF Range
  <2> HIDE DEF order
  <2> QED
    BY <1>2, <2>1, <2>2, <2>3
<1> DEFINE B == {k \in 0 .. N : Emptying(w, f[k], d, S(k), Q)}
<1> HIDE DEF order, N, Q
<1>7. Emptying(w, w, d, T, Q)
  <2>1. \A u \in Tables[d] : View(w, d, u) = IF u \in T THEN View(w, d, u) ELSE NoTable
    BY <1>1, ViewIs
  <2>2. Quiet(w, w)
    BY <1>1 DEF Quiet
  <2>3. Frame(w, w, d) /\ Passes(w, w, d, Q)
    BY <1>1, <2>2, QuietIs
  <2> QED
    BY <2>1, <2>3 DEF Emptying
<1>8. 0 \in B
  <2>1. Emptying(w, f[0], d, S(0), Q)
    BY <1>4, <1>6, <1>7
  <2>2. 0 \in 0 .. N
    BY <1>3
  <2> HIDE DEF S
  <2> QED
    BY <2>1, <2>2
<1>9. ASSUME NEW k \in 0 .. N - 1, k \in B PROVE k + 1 \in B
  <2> DEFINE t == order[k + 1]
             x == f[k]
             A == S(k)
  <2>1. k + 1 \in 1 .. N /\ k \in 0 .. N /\ k + 1 \in 0 .. N /\ (k + 1) - 1 = k
    BY <1>3
  <2>2. f[k + 1] = RemTable(x, d, t)
    BY <1>4, <2>1
  <2>3. t \in A
    BY <1>3, <2>1
  <2>4. S(k + 1) = A \ {t}
    <3>1. ASSUME NEW j \in k + 1 .. N PROVE j \in 1 .. N /\ (j \in (k + 1) + 1 .. N <=> j # k + 1)
      BY <1>3, <2>1
    <3>2. \A j \in (k + 1) + 1 .. N : j \in k + 1 .. N
      BY <1>3, <2>1
    <3>3. \A j \in k + 1 .. N : order[j] = t <=> j = k + 1
      BY <1>2, <2>1, <3>1 DEF N
    <3> QED
      BY <3>1, <3>2, <3>3
  <2>5. Emptying(w, x, d, A, Q)
    BY <1>9
  <2> HIDE DEF S, t, x, A
  <2>6. Emptying(w, RemTable(x, d, t), d, A \ {t}, Q)
    BY <2>3, <2>5, EmptiedOne DEF Q
  <2> QED
    BY <2>1, <2>2, <2>4, <2>6
<1>10. N \in B
  <2> HIDE DEF B
  <2>1. N \in 0 .. N
    BY <1>3
  <2> QED
    BY <1>3, <1>8, <1>9, <2>1, UpTo
<1> QED
  BY <1>5, <1>6, <1>10 DEF Q

-------------------------------------------------------------------------------
(* A database leaves memory.                                                 *)

LEMMA ForgotIs ==
    ASSUME NEW w, IsWorld(w), NEW d \in Dbs, w.live = [e \in Dbs |-> w.live[e]]
    PROVE  LET x == ForgetDb(w, d)
           IN  /\ IsWorld(x) /\ x.dm = Del(w.dm, d) /\ Agree(Dbs, w.live, x.live, d) /\ x.live[d] = Closed
               /\ x.cur = (IF w.cur = d THEN NoObj ELSE w.cur) /\ x.disk = w.disk
               /\ x.trail = w.trail /\ x.dep = w.dep
<1> DEFINE c == IF w.cur = d THEN NoObj ELSE w.cur
           m == Del(w.dm, d)
           s == [w.sys EXCEPT !.dbs = @ \ {d}]
           h1 == [w EXCEPT !.dm = m]
           h2 == [h1 EXCEPT !.live[d] = Closed]
           h3 == [h2 EXCEPT !.cur = c]
           h4 == WithSys(h3, s)
<1>1. ForgetDb(w, d) = h4
  BY DEF ForgetDb, WithSys
<1> HIDE DEF m, c, s
<1>2. IsWorld(h1) /\ h1.dm = m /\ h1.live = w.live /\ h1.cur = w.cur /\ h1.disk = w.disk
      /\ h1.trail = w.trail /\ h1.dep = w.dep
  BY DEF IsWorld
<1> HIDE DEF h1
<1>3. Assigned(h1, h2, d) /\ h2.live[d] = Closed
  BY <1>2, AssignDb
<1> HIDE DEF h2
<1>4. IsWorld(h2) /\ h2.dm = m /\ h2.disk = w.disk /\ h2.trail = w.trail /\ h2.dep = w.dep
      /\ Agree(Dbs, w.live, h2.live, d)
  BY <1>2, <1>3 DEF Assigned
<1>5. IsWorld(h3) /\ h3.dm = m /\ h3.live = h2.live /\ h3.cur = c /\ h3.disk = w.disk
      /\ h3.trail = w.trail /\ h3.dep = w.dep
  BY <1>4 DEF IsWorld
<1> HIDE DEF h3
<1>6. SysOnly(h3, h4)
  BY <1>5, WithSysIs
<1> HIDE DEF h4
<1>7. IsWorld(h4) /\ h4.dm = m /\ h4.live = h2.live /\ h4.cur = c /\ h4.disk = w.disk
      /\ h4.trail = w.trail /\ h4.dep = w.dep
  BY <1>5, <1>6 DEF SysOnly, Quiet
<1> QED
  BY <1>1, <1>3, <1>4, <1>7 DEF m, c

\* A database that is closed is no longer known.
LEMMA ClosedWorld ==
    ASSUME NEW w, NEW X, WorldOK(w, X), NEW d \in OpenDbs(w), NEW z, IsWorld(z), z.dm = Del(w.dm, d),
           z.cur = (IF w.cur = d THEN NoObj ELSE w.cur), Agree(Dbs, w.live, z.live, d),
           Agree(FileDbs, w.disk, z.disk, d), d \in FileDbs => z.disk[d] \in Disks(d),
           NEW Y, ClosedOK(z, d, Y), Y = [t \in Tables[d] |-> Y[t]]
    PROVE  WorldOK(z, [X EXCEPT ![d] = Y])
<1> DEFINE Z == [X EXCEPT ![d] = Y]
           S == {System} \union OpenDbs(w)
<1>1. OpenDbs(w) \subseteq Dbs /\ d \in Dbs /\ Managed(w.dm, S) /\ System \notin Dbs /\ d \in S
  BY CatalogAssumption DEF WorldOK
<1>2. Managed(z.dm, S \ {d})
  BY <1>1, DelIs
<1>3. S \ {d} = {System} \union (OpenDbs(w) \ {d}) /\ System \notin OpenDbs(w)
  BY <1>1
<1>4. Known(z.dm) = S \ {d}
  BY <1>2, GetIs
<1>5. OpenDbs(z) = OpenDbs(w) \ {d}
  BY <1>3, <1>4 DEF OpenDbs
<1>6. Managed(z.dm, {System} \union OpenDbs(z))
  BY <1>2, <1>3, <1>5
<1>7. Z = [e \in Dbs |-> Z[e]] /\ Z[d] = Y /\ \A e \in Dbs \ {d} : Z[e] = X[e]
  BY <1>1 DEF WorldOK
<1> HIDE DEF Z, S
<1>8. \A e \in Dbs : Z[e] = [t \in Tables[e] |-> Z[e][t]]
  BY <1>7 DEF WorldOK
<1>9. /\ z.live = [e \in Dbs |-> z.live[e]]
      /\ z.disk = [e \in FileDbs |-> z.disk[e]] /\ \A e \in FileDbs : z.disk[e] \in Disks(e)
  BY DEF Agree, WorldOK
<1>10. ASSUME NEW e \in Dbs \ {d} PROVE z.live[e] = w.live[e] /\ (e \in FileDbs => z.disk[e] = w.disk[e])
  BY DEF Agree
<1>11. \A e \in OpenDbs(z) : OpenOK(z, e, Z[e])
  BY <1>1, <1>5, <1>7, <1>9, <1>10, OtherKept DEF WorldOK
<1>12. ASSUME NEW e \in Dbs \ OpenDbs(z) PROVE ClosedOK(z, e, Z[e])
  <2>1. CASE e = d
    BY <1>7, <2>1
  <2>2. CASE e # d
    BY <1>5, <1>7, <1>9, <1>10, <1>12, <2>2, OtherKept DEF WorldOK
  <2> QED
    BY <2>1, <2>2
<1>13. z.cur \in OpenDbs(z) \union {NoObj}
  BY <1>5 DEF WorldOK
<1> QED
  BY <1>1, <1>5, <1>6, <1>7, <1>8, <1>9, <1>11, <1>12, <1>13 DEF WorldOK, Z

\* Nothing is left of a database in memory.
LEMMA MemoryForgotten ==
    ASSUME NEW d, d \notin FileDbs, NEW X, \A t \in Tables[d] : X[t] # {}
    PROVE  \A t \in Tables[d] : Forgotten(d, X)[t] = {NoTable}
<1>1. \A r : Forgets(d, r) = NoTable
  BY DEF Forgets
<1>2. \A t \in Tables[d] : Forgotten(d, X)[t] = {Forgets(d, r) : r \in X[t]}
  BY Zenon DEF Forgotten
<1> QED
  BY <1>1, <1>2

CloseLoop(S, w, d, order, f) == [k \in S |-> IF k = 0 THEN w ELSE CloseTable(f[k - 1], d, order[k])]

CloseLoopRuns(N, w, d, order) ==
    \E f : /\ f = CHOOSE g : g = CloseLoop(0 .. N, w, d, order, g)
           /\ f[0] = w
           /\ \A k \in 1 .. N : f[k] = CloseTable(f[k - 1], d, order[k])

LEMMA CloseLoopSteps ==
    ASSUME NEW w, NEW d, NEW order, NEW N \in Nat
    PROVE  CloseLoopRuns(N, w, d, order)
<1> DEFINE B == {m \in 0 .. N : \E f : f = CloseLoop(0 .. m, w, d, order, f)}
<1>1. 0 \in B
  <2>1. \A f : CloseLoop(0 .. 0, w, d, order, f) = [k \in 0 .. 0 |-> w]
    BY DEF CloseLoop
  <2> QED
    BY <2>1
<1>2. ASSUME NEW m \in 0 .. N - 1, m \in B PROVE m + 1 \in B
  <2>1. PICK v : v = CloseLoop(0 .. m, w, d, order, v)
    BY <1>2
  <2> DEFINE e == CloseTable(v[m], d, order[(m + 1)])
             f == [k \in 0 .. m + 1 |-> IF k = m + 1 THEN e ELSE v[k]]
  <2>2. ASSUME NEW k \in 0 .. m + 1
        PROVE  f[k] = IF k = 0 THEN w ELSE CloseTable(f[k - 1], d, order[k])
    <3>1. CASE k = m + 1
      <4>1. f[k] = e /\ k # 0 /\ k - 1 = m /\ f[m] = v[m] /\ k = m + 1
        BY <3>1
      <4> HIDE DEF f
      <4> QED
        BY <4>1
    <3>2. CASE k # m + 1
      <4>1. k \in 0 .. m /\ f[k] = v[k] /\ (k # 0 => k - 1 \in 0 .. m /\ f[k - 1] = v[k - 1])
        BY <3>2
      <4>2. v[k] = IF k = 0 THEN w ELSE CloseTable(v[k - 1], d, order[k])
        BY <2>1, <4>1 DEF CloseLoop
      <4> HIDE DEF f
      <4> QED
        BY <4>1, <4>2
    <3> QED
      BY <3>1, <3>2
  <2>3. f = CloseLoop(0 .. m + 1, w, d, order, f)
    <3>1. f = [k \in 0 .. m + 1 |-> f[k]]
      OBVIOUS
    <3> HIDE DEF f
    <3> QED
      BY <2>2, <3>1 DEF CloseLoop
  <2> QED
    BY <2>3
<1>3. N \in B
  <2> HIDE DEF B
  <2> QED
    BY <1>1, <1>2, UpTo
<1> DEFINE h == CHOOSE g : g = CloseLoop(0 .. N, w, d, order, g)
<1>4. h = CloseLoop(0 .. N, w, d, order, h)
  BY <1>3
<1> HIDE DEF h
<1>5. h[0] = w /\ \A k \in 1 .. N : h[k] = CloseTable(h[k - 1], d, order[k])
  BY <1>4 DEF CloseLoop
<1> QED
  BY <1>5 DEF h, CloseLoopRuns

LEMMA CloseTablesIs ==
    ASSUME NEW w, IsWorld(w), NEW d, Len(Listed(Tm(w, d))) \in Nat
    PROVE  SysOnly(w, CloseTables(w, d))
<1> DEFINE order == Listed(Tm(w, d))
           N == Len(order)
<1>i. CloseLoopRuns(N, w, d, order)
  BY CloseLoopSteps
<1>1. PICK f : /\ f = CHOOSE g : g = CloseLoop(0 .. N, w, d, order, g)
               /\ f[0] = w
               /\ \A k \in 1 .. N : f[k] = CloseTable(f[k - 1], d, order[k])
  BY <1>i DEF CloseLoopRuns
<1>2. CloseTables(w, d) = f[N]
  BY <1>1, Zenon DEF CloseTables, CloseLoop
<1> DEFINE B == {k \in 0 .. N : SysOnly(w, f[k])}
<1> HIDE DEF order, N
<1>3. N \in Nat
  BY DEF N, order
<1>4. 0 \in B
  <2>1. SysOnly(w, w)
    BY DEF SysOnly, Quiet
  <2> QED
    BY <1>1, <1>3, <2>1
<1>5. ASSUME NEW k \in 0 .. N - 1, k \in B PROVE k + 1 \in B
  <2> DEFINE x == f[k]
             t == order[k + 1]
  <2>1. k + 1 \in 1 .. N /\ k + 1 \in 0 .. N /\ (k + 1) - 1 = k
    BY <1>3
  <2>2. f[k + 1] = CloseTable(x, d, t)
    BY <1>1, <2>1
  <2>3. SysOnly(w, x)
    BY <1>5
  <2> HIDE DEF x, t
  <2>4. SysOnly(x, CloseTable(x, d, t))
    BY <2>3, CloseTableIs DEF SysOnly, Quiet
  <2> QED
    BY <2>1, <2>2, <2>3, <2>4, SysOnlyTrans
<1>6. N \in B
  <2> HIDE DEF B
  <2>1. N \in 0 .. N
    BY <1>3
  <2> QED
    BY <1>3, <1>4, <1>5, <2>1, UpTo
<1> QED
  BY <1>2, <1>6

LEMMA CloseDatabaseIs ==
    ASSUME CatalogInv, ~departed, NEW d \in Dbs, CloseDatabase(d)
    PROVE  CatalogInv'
<1> DEFINE w == World
           x == CloseTables(w, d)
           y == ForgetDb(x, d)
           X == want
           Z == X[d]
           Y == Forgotten(d, Z)
<1>1. d \in Opened /\ Become(y, [X EXCEPT ![d] = ForgetsAll(X)[d]])
  BY DEF CloseDatabase, CloseDb
<1>2. ForgetsAll(X)[d] = Y
  BY DEF ForgetsAll, Forgotten
<1>3. WorldOK(w, X) /\ d \in OpenDbs(w) /\ OpenOK(w, d, X[d]) /\ IsWorld(w) /\ ~w.dep
  BY <1>1, OpenedIs, WorldIs
<1> HIDE DEF w, X, Y, Z
<1>4. Len(Listed(Tm(w, d))) \in Nat
  <2> DEFINE T == Loaded(w, d)
  <2>1. Managed(Tm(w, d), T)
    BY <1>3 DEF OpenOK, Held, Sound
  <2>2. Listed(Tm(w, d)) \in Seq(T)
    BY <2>1, ListedOnce
  <2> HIDE DEF T
  <2> QED
    BY ONLY <2>2
<1>5. SysOnly(w, x)
  BY <1>3, <1>4, CloseTablesIs
<1> HIDE DEF x
<1>6. /\ IsWorld(x) /\ x.dm = w.dm /\ x.live = w.live /\ x.cur = w.cur /\ x.disk = w.disk /\ x.dep = w.dep
      /\ x.live = [e \in Dbs |-> x.live[e]]
  BY <1>3, <1>5 DEF SysOnly, Quiet, WorldOK
<1>7. /\ IsWorld(y) /\ y.dm = Del(w.dm, d) /\ Agree(Dbs, w.live, y.live, d) /\ y.live[d] = Closed
      /\ y.cur = (IF w.cur = d THEN NoObj ELSE w.cur) /\ y.disk = w.disk /\ y.dep = w.dep
  BY <1>6, ForgotIs
<1> HIDE DEF y
<1>8. Agree(FileDbs, w.disk, y.disk, d) /\ (d \in FileDbs => y.disk[d] \in Disks(d))
  BY <1>3, <1>7 DEF Agree, WorldOK
<1>9. ClosedOK(y, d, Y)
  <2>1. CASE d \in FileDbs
    <3>1. ~w.disk[d].cut /\ Fine(d, w.disk[d], Forgotten(d, Z))
      BY <1>3, <2>1, OpenFine DEF Z
    <3> QED
      BY <1>7, <2>1, <3>1 DEF ClosedOK, Y
  <2>2. CASE d \notin FileDbs
    <3>1. \A t \in Tables[d] : Z[t] # {}
      BY <1>3, WishesThere DEF Z
    <3>2. \A t \in Tables[d] : Forgotten(d, Z)[t] = {NoTable}
      BY <2>2, <3>1, MemoryForgotten
    <3> QED
      BY <1>7, <2>2, <3>2 DEF ClosedOK, Y
  <2> QED
    BY <2>1, <2>2
<1>10. Y = [t \in Tables[d] |-> Y[t]]
  BY DEF Forgotten, Y
<1>11. WorldOK(y, [X EXCEPT ![d] = Y])
  BY <1>3, <1>7, <1>8, <1>9, <1>10, ClosedWorld
<1> QED
  BY <1>1, <1>2, <1>7, <1>11, BecomeIs

LEMMA NoDiskIs ==
    ASSUME NEW d
    PROVE  /\ NoDisk \in Disks(d) /\ ~NoDisk.cut /\ NoDisk.schema = <<>> /\ \A f : RowAt(NoDisk, f) = NoRow
<1> DEFINE e == <<>>
           c == FALSE
<1>1. /\ NoDisk = [cut |-> NoDisk.cut, schema |-> NoDisk.schema, files |-> NoDisk.files]
      /\ NoDisk.cut = c /\ NoDisk.schema = e /\ NoDisk.files = e
  BY DEF NoDisk
<1>2. c \in BOOLEAN /\ ~c
  OBVIOUS
<1>3. DOMAIN e = {}
  OBVIOUS
<1>4. e = [f \in DOMAIN e |-> e[f]]
  OBVIOUS
<1>5. \A T : e \in Seq(T) /\ Len(e) = 0
  OBVIOUS
<1>6. e \in Schemas(d)
  BY <1>5 DEF Schemas, Sorted
<1> HIDE DEF e, c
<1>7. e \in FileSets
  BY <1>3, <1>4, FilesIs
<1>8. NoDisk \in Disks(d)
  BY ONLY <1>1, <1>2, <1>6, <1>7, DiskIs
<1>9. \A f : RowAt(NoDisk, f) = NoRow
  BY <1>1, <1>3 DEF RowAt
<1> QED
  BY <1>1, <1>2, <1>8, <1>9 DEF e

LEMMA NoDiskFine ==
    ASSUME NEW d, NEW X, \A t \in Tables[d] : NoTable \in X[t]
    PROVE  Fine(d, NoDisk, X)
<1>1. DOMAIN NoDisk.schema = {}
  BY NoDiskIs
<1> QED
  BY <1>1, NoDiskIs DEF Fine

\* The end of a database: out of memory, and its directory removed.
LEMMA RemDbIs ==
    ASSUME NEW w, NEW X, WorldOK(w, X), NEW d \in OpenDbs(w), NEW r, NEW Q, Emptying(w, r, d, {}, Q),
           NoDisk \in Q
    PROVE  LET y == ForgetDb(r, d)
               x == IF d \in FileDbs THEN SetDisk(y, d, NoDisk) ELSE y
           IN  /\ WorldOK(x, [X EXCEPT ![d] = [t \in Tables[d] |-> {NoTable}]])
               /\ Passes(w, x, d, Q)
<1> DEFINE y == ForgetDb(r, d)
           x == IF d \in FileDbs THEN SetDisk(y, d, NoDisk) ELSE y
           Y == [t \in Tables[d] |-> {NoTable}]
<1>1. d \in Dbs /\ Frame(w, r, d) /\ Passes(w, r, d, Q) /\ Shape(r, d)
  BY DEF WorldOK, Emptying, Settled, Held, Sound
<1>2. IsWorld(r) /\ r.live = [e \in Dbs |-> r.live[e]]
  BY <1>1 DEF Shape
<1>3. /\ IsWorld(y) /\ y.dm = Del(r.dm, d) /\ Agree(Dbs, r.live, y.live, d) /\ y.live[d] = Closed
      /\ y.cur = (IF r.cur = d THEN NoObj ELSE r.cur) /\ y.disk = r.disk
      /\ y.trail = r.trail
  BY <1>1, <1>2, ForgotIs
<1> HIDE DEF y
<1>4. /\ y.dm = Del(w.dm, d) /\ Agree(Dbs, w.live, y.live, d)
      /\ y.cur = (IF w.cur = d THEN NoObj ELSE w.cur) /\ Agree(FileDbs, w.disk, y.disk, d)
  BY <1>1, <1>3 DEF Frame, Agree
<1>5. Y = [t \in Tables[d] |-> Y[t]] /\ \A t \in Tables[d] : Y[t] = {NoTable}
  OBVIOUS
<1>6. CASE d \notin FileDbs
  <2>1. x = y
    BY <1>6
  <2> HIDE DEF x, Y
  <2>2. ClosedOK(y, d, Y)
    BY <1>3, <1>5, <1>6 DEF ClosedOK
  <2>3. WorldOK(y, [X EXCEPT ![d] = Y])
    BY <1>3, <1>4, <1>5, <1>6, <2>2, ClosedWorld
  <2>4. Passes(w, y, d, Q)
    BY <1>1, <1>3 DEF Passes
  <2> QED
    BY <2>1, <2>3, <2>4 DEF x, Y, y
<1>7. CASE d \in FileDbs
  <2> DEFINE z == SetDisk(y, d, NoDisk)
  <2>1. x = z
    BY <1>7
  <2> HIDE DEF x, Y
  <2>2. /\ IsWorld(z) /\ z.dm = y.dm /\ z.live = y.live /\ z.cur = y.cur
        /\ Agree(FileDbs, y.disk, z.disk, d) /\ z.disk[d] = NoDisk
        /\ z.trail = y.trail \union {z.disk}
    BY <1>3, <1>4, <1>7, SetDiskIs DEF Agree
  <2> HIDE DEF z
  <2>3. Agree(FileDbs, w.disk, z.disk, d) /\ z.disk[d] \in Disks(d)
    BY <1>4, <2>2, NoDiskIs DEF Agree
  <2>4. ClosedOK(z, d, Y)
    BY <1>3, <1>5, <1>7, <2>2, NoDiskIs, NoDiskFine DEF ClosedOK
  <2>5. WorldOK(z, [X EXCEPT ![d] = Y])
    BY <1>3, <1>4, <1>5, <2>2, <2>3, <2>4, ClosedWorld
  <2>6. Passes(w, z, d, Q)
    BY <1>1, <1>3, <1>7, <2>2, <2>3 DEF Passes
  <2> QED
    BY <2>1, <2>5, <2>6 DEF x, Y, y
<1> QED
  BY <1>6, <1>7

LEMMA DropDbIs ==
    ASSUME CatalogInv, ~departed, NEW d \in Dbs, DropDb(d)
    PROVE  CatalogInv'
<1> DEFINE w == World
           done == [t \in Tables[d] |-> NoTable]
           n == [t \in Tables[d] |-> Remains(Wish(d)[t])]
           r == RemTables(w, d)
           y == ForgetDb(r, d)
           x == IF d \in FileDbs THEN SetDisk(y, d, NoDisk) ELSE y
           Z == want[d]
           X == Forgotten(d, Mixed(d, Z, done, n))
           Q == Trail(d, X)
<1>1. d \in Opened /\ Statement(x, d, done, n)
  BY DEF DropDb, RemDb
<1>2. WorldOK(w, want) /\ d \in OpenDbs(w) /\ OpenOK(w, d, Z)
  BY <1>1, OpenedIs
<1>3. \A u \in Tables[d] : Wish(d)[u] = View(w, d, u) /\ View(w, d, u) \in Z[u]
  BY <1>1, OpenedIs
<1>4. \A u \in Tables[d] : done[u] = NoTable /\ n[u] = Remains(View(w, d, u))
  BY <1>3
<1>5. [t \in Tables[d] |-> {done[t]}] = [t \in Tables[d] |-> {NoTable}]
  OBVIOUS
<1> HIDE DEF done, n, Z
<1>6. ASSUME NEW u \in Tables[d] PROVE Leaves(d, View(w, d, u), X[u])
  <2>1. X[u] = {Forgets(d, q) : q \in Z[u] \union {done[u]} \union n[u]}
    BY DEF Forgotten, Mixed
  <2> DEFINE v == View(w, d, u)
  <2>2. Remains(v) \union {v, NoTable} \subseteq Z[u] \union {done[u]} \union n[u]
    BY <1>3, <1>4
  <2> HIDE DEF X, v
  <2> QED
    BY <2>1, <2>2 DEF Leaves, v
<1>7. Settled(w, d)
  BY <1>2 DEF OpenOK, Settled
<1> HIDE DEF X, w
<1>8. Emptying(w, r, d, {}, Q)
  BY <1>6, <1>7, RemTablesIs
<1>9. NoDisk \in Q
  <2>1. \A t \in Tables[d] : Forgets(d, NoTable) \in X[t]
    BY <1>6 DEF Leaves
  <2>2. Forgets(d, NoTable) = NoTable
    BY DEF Forgets, NoTable
  <2>3. Fine(d, NoDisk, X)
    BY <2>1, <2>2, NoDiskFine
  <2> QED
    BY <2>3, NoDiskIs DEF Trail
<1> HIDE DEF r, Q
<1>10. /\ WorldOK(x, [want EXCEPT ![d] = [t \in Tables[d] |-> {NoTable}]])
       /\ Passes(w, x, d, Q)
  BY <1>2, <1>8, <1>9, RemDbIs
<1> HIDE DEF x
<1>11. IsWorld(x)
  BY <1>10 DEF WorldOK
<1>12. Passes(World, x, d, Trail(d, Forgotten(d, Mixed(d, want[d], done, n))))
  BY <1>10 DEF Q, X, Z, w
<1>13. WorldOK(x, [want EXCEPT ![d] = [t \in Tables[d] |-> {done[t]}]])
  BY <1>5, <1>10
<1> QED
  BY <1>1, <1>11, <1>12, <1>13, StatementIs

-------------------------------------------------------------------------------
(* USE, and the end of the process.                                          *)

LEMMA UseDbIs ==
    ASSUME CatalogInv, ~departed, NEW d \in Dbs, UseDb(d)
    PROVE  CatalogInv'
<1> DEFINE w == World
           x == [w EXCEPT !.cur = d]
<1>1. d \in Opened /\ Become(x, want)
  BY DEF UseDb
<1>2. WorldOK(w, want) /\ d \in OpenDbs(w) /\ IsWorld(w)
  BY <1>1, OpenedIs, WorldIs
<1> HIDE DEF w
<1>3. /\ IsWorld(x) /\ x.dm = w.dm /\ x.live = w.live /\ x.cur = d /\ x.disk = w.disk
  BY <1>2 DEF IsWorld
<1> HIDE DEF x
<1>4. OpenDbs(x) = OpenDbs(w) /\ OpenDbs(w) \subseteq Dbs
  BY <1>2, <1>3 DEF OpenDbs, WorldOK
<1>5. /\ x.live = [e \in Dbs |-> x.live[e]]
      /\ x.disk = [e \in FileDbs |-> x.disk[e]] /\ \A e \in FileDbs : x.disk[e] \in Disks(e)
  BY <1>2, <1>3 DEF WorldOK
<1>6. ASSUME NEW e \in Dbs
      PROVE  /\ OpenOK(w, e, want[e]) => OpenOK(x, e, want[e])
             /\ ClosedOK(w, e, want[e]) => ClosedOK(x, e, want[e])
  <2> DEFINE Y == want[e]
  <2> HIDE DEF Y
  <2>1. (OpenOK(w, e, Y) => OpenOK(x, e, Y)) /\ (ClosedOK(w, e, Y) => ClosedOK(x, e, Y))
    BY <1>3, <1>5, OtherKept
  <2> QED
    BY <2>1 DEF Y
<1>7. \A e \in OpenDbs(x) : OpenOK(x, e, want[e])
  BY <1>2, <1>4, <1>6 DEF WorldOK
<1>8. \A e \in Dbs \ OpenDbs(x) : ClosedOK(x, e, want[e])
  BY <1>2, <1>4, <1>6 DEF WorldOK
<1>9. WorldOK(x, want)
  BY <1>2, <1>3, <1>4, <1>5, <1>7, <1>8 DEF WorldOK
<1> QED
  BY <1>1, <1>3, <1>9, BecomeIs

LEMMA ExitIs ==
    ASSUME CatalogInv, ~departed, Exit
    PROVE  CatalogInv'
<1>1. WorldOK(World, want)
  BY DEF CatalogInv
<1>2. disk = [d \in FileDbs |-> disk[d]] /\ \A d \in FileDbs : disk[d] \in Disks(d)
  BY <1>1, WorldIs DEF WorldOK
<1>3. \A d \in FileDbs : Fine(d, disk[d], Forgotten(d, want[d]))
  BY <1>1, StandsFine, WorldIs
<1>4. \A d \in Dbs : \A t \in Tables[d] : want[d][t] # {}
  BY <1>1, WishesThere
<1> QED
  BY <1>2, <1>3, <1>4, RestartIs DEF Exit

-------------------------------------------------------------------------------
(* The schema file is executed.                                              *)

LEMMA SchemaIs ==
    ASSUME NEW d, NEW q \in Disks(d)
    PROVE  LET s == q.schema
           IN  /\ Len(s) \in Nat /\ DOMAIN s = 1 .. Len(s) /\ Sorted(s)
               /\ \A k \in 1 .. Len(s) : /\ s[k].name \in Tables[d] /\ s[k].id \in Nat
                                         /\ s[k].opt \in Options /\ s[k].indexes \in IndexLists
<1> DEFINE s == q.schema
           T == Entry(d)
<1>1. s \in Seq(T) /\ Sorted(s)
  BY DiskIs DEF Schemas
<1> HIDE DEF s, T
<1>2. Len(s) \in Nat /\ DOMAIN s = 1 .. Len(s) /\ \A k \in 1 .. Len(s) : s[k] \in T
  BY ONLY <1>1
<1>3. \A e \in T : e.name \in Tables[d] /\ e.id \in Nat /\ e.opt \in Options /\ e.indexes \in IndexLists
  BY DEF T, Entry
<1> QED
  BY <1>1, <1>2, <1>3 DEF s

LEMMA IndexListIs ==
    ASSUME NEW s \in IndexLists
    PROVE  /\ IndexList(s) /\ Len(s) \in Nat /\ DOMAIN s = 1 .. Len(s)
           /\ NamesIn(s) = {s[m].name : m \in 1 .. Len(s)} /\ \A m \in 1 .. Len(s) : s[m].id \in Ids
<1> DEFINE A == [name : Indexes, id : Ids]
           B == [name : Indexes, id : Int]
<1>1. s \in Seq(A) /\ Sorted(s)
  BY DEF IndexLists
<1>2. \A r \in A : r \in B /\ r.id \in Ids /\ r.id \in Nat /\ r.id >= 0
  BY DEF Ids
<1> HIDE DEF A, B
<1>3. Len(s) \in Nat /\ DOMAIN s = 1 .. Len(s) /\ \A k \in 1 .. Len(s) : s[k] \in A
  BY ONLY <1>1
<1>4. s \in Seq(B)
  BY <1>1, <1>2, <1>3
<1>5. \A j, k \in 1 .. Len(s) : j # k => s[j].id # s[k].id /\ s[j].name # s[k].name
  <2> SUFFICES ASSUME NEW j \in 1 .. Len(s), NEW k \in 1 .. Len(s), j # k
               PROVE  s[j].id # s[k].id /\ s[j].name # s[k].name
    OBVIOUS
  <2>1. s[j].id \in Nat /\ s[k].id \in Nat /\ (j < k \/ k < j)
    BY <1>2, <1>3
  <2> QED
    BY <1>1, <2>1 DEF Sorted
<1>6. IndexList(s)
  BY <1>2, <1>3, <1>4, <1>5 DEF IndexList, B
<1>7. NamesIn(s) = {s[m].name : m \in 1 .. Len(s)}
  BY <1>3 DEF NamesIn
<1> QED
  BY <1>2, <1>3, <1>6, <1>7

\* Ids that grow, and one that is as small as it can be.
LEMMA Climbs ==
    ASSUME NEW s, NEW n \in Nat, NEW k \in 1 .. n, \A j \in 1 .. n : s[j].id \in Nat,
           \A i, j \in 1 .. n : i < j => s[i].id < s[j].id, s[k].id = k - 1
    PROVE  \A j \in 1 .. k : s[j].id = j - 1
<1> DEFINE b == k - 1
           A == {m \in 0 .. b : s[m + 1].id >= m}
           B == {m \in 0 .. b : s[k - m].id <= b - m}
<1>1. b \in Nat /\ k <= n
  OBVIOUS
<1>2. 0 \in A
  BY <1>1
<1>3. ASSUME NEW m \in 0 .. b - 1, m \in A PROVE m + 1 \in A
  <2>1. m + 1 \in 1 .. n /\ (m + 1) + 1 \in 1 .. n /\ m + 1 < (m + 1) + 1 /\ m + 1 \in 0 .. b
    BY <1>1
  <2>2. s[m + 1].id < s[(m + 1) + 1].id /\ s[m + 1].id >= m
    BY <1>3, <2>1
  <2>3. s[(m + 1) + 1].id >= m + 1
    BY <2>1, <2>2
  <2> QED
    BY <2>1, <2>3
<1>4. \A m \in 0 .. b : m \in A
  <2> HIDE DEF A, b
  <2> QED
    BY <1>1, <1>2, <1>3, UpTo
<1>5. 0 \in B
  <2>1. k - 0 = k /\ b - 0 = b
    BY <1>1
  <2> QED
    BY <1>1, <2>1
<1>6. ASSUME NEW m \in 0 .. b - 1, m \in B PROVE m + 1 \in B
  <2>1. k - m \in 1 .. n /\ k - (m + 1) \in 1 .. n /\ k - (m + 1) < k - m /\ m + 1 \in 0 .. b
    BY <1>1
  <2>2. s[k - (m + 1)].id < s[k - m].id /\ s[k - m].id <= b - m
    BY <1>6, <2>1
  <2>3. s[k - (m + 1)].id <= b - (m + 1)
    BY <2>1, <2>2
  <2> QED
    BY <2>1, <2>3
<1>7. \A m \in 0 .. b : m \in B
  <2> HIDE DEF B, b
  <2> QED
    BY <1>1, <1>5, <1>6, UpTo
<1>8. ASSUME NEW j \in 1 .. k PROVE s[j].id = j - 1
  <2>1. j - 1 \in 0 .. b /\ (j - 1) + 1 = j /\ k - j \in 0 .. b /\ k - (k - j) = j /\ b - (k - j) = j - 1
    BY <1>1
  <2>2. s[(j - 1) + 1].id >= j - 1
    BY <1>4, <2>1
  <2>3. s[k - (k - j)].id <= b - (k - j)
    BY <1>7, <2>1
  <2>4. j \in 1 .. n
    BY <1>1
  <2> QED
    BY <2>1, <2>2, <2>3, <2>4
<1> QED
  BY <1>8

\* Files with the same rows.
Rowed(d, p) == {q \in Disks(d) : \A f \in Nat : RowAt(q, f) = RowAt(p, f)}

LEMMA RowedIs ==
    ASSUME NEW d, NEW p, NEW w, d \in FileDbs => w.disk[d] \in Rowed(d, p)
    PROVE  Follows(w, d, Rowed(d, p)) /\ Admits(w, d, Rowed(d, p))
<1>1. Steady(d, Rowed(d, p))
  BY DEF Steady, Rowed, SameRows
<1>2. Admits(w, d, Rowed(d, p))
  BY DEF Admits, Rowed, RowAt
<1> QED
  BY <1>1, <1>2 DEF Follows

\* A table in memory is as its entry of the schema file of p, the j-th, says; with
\* its id, unless the id was lost and is not the next one.
Like(x, d, p, e, j) ==
    /\ Opt(x, d, e.name) = e.opt /\ IndexesOf(x, d, e.name) = NamesIn(e.indexes)
    /\ \A i \in DOMAIN e.indexes : Im(x, d, e.name).id[e.indexes[i].name] = e.indexes[i].id
    /\ e.opt = "plain" \/ e.id = j - 1 => FileId(x, d, e.name) = e.id
    /\ Data(x, d, e.name).row = IF e.opt = "memory" THEN NoRow ELSE RowAt(p, e.id)

HasRead(w, x, d, p, k) ==
    /\ Frame(w, x, d) /\ Passes(w, x, d, Rowed(d, p)) /\ Held(x, d)
    /\ x.disk[d] \in Rowed(d, p)
    /\ Loaded(x, d) = {p.schema[j].name : j \in 1 .. k}
    /\ \A j \in 1 .. k : Like(x, d, p, p.schema[j], j)

Sourced(w, x, d, p, k) ==
    /\ HasRead(w, x, d, p, k)
    /\ \/ SameSchema(p, x.disk[d]) /\ \A j \in 1 .. k : p.schema[j].opt = "plain"
       \/ /\ k # 0 /\ p.schema[k].opt # "plain"
          /\ ~x.disk[d].cut /\ Describes(x, d, x.disk[d].schema)

\* The id that the next table of the schema file gets.
Numbers(x, d, e, k) ==
    /\ ParsedId(e) \in Int
    /\ ParsedId(e) >= 0 => \A u \in Loaded(x, d) : FileId(x, d, u) # ParsedId(e)
    /\ \A i : NewId(Tm(x, d), Loaded(x, d), ParsedId(e), i) => (e.opt = "plain" \/ e.id = k => i = e.id)
    /\ e.opt = "ttl" => e.id = k

LEMMA NextId ==
    ASSUME NEW w, NEW x, NEW d, NEW p \in Disks(d), NEW k \in Nat, HasRead(w, x, d, p, k),
           k + 1 <= Len(p.schema), ~Rewrites(p.schema)
    PROVE  Numbers(x, d, p.schema[k + 1], k)
<1> DEFINE s == p.schema
           n == Len(s)
           e == s[k + 1]
<1>1. /\ n \in Nat /\ DOMAIN s = 1 .. n /\ Sorted(s)
      /\ \A j \in 1 .. n : s[j].name \in Tables[d] /\ s[j].id \in Nat /\ s[j].opt \in Options
  BY SchemaIs
<1>2. ~Rewrites(s) /\ Loaded(x, d) = {s[j].name : j \in 1 .. k} /\ e = s[k + 1] /\ k + 1 <= n
      /\ \A j \in 1 .. k : Like(x, d, p, s[j], j)
  BY DEF HasRead
<1> HIDE DEF s, n, e
<1>3. k + 1 \in 1 .. n /\ \A j \in 1 .. k : j \in 1 .. n /\ j < k + 1 /\ k + 1 \in (j + 1) .. n
  BY <1>1, <1>2
<1>a. \A a, b \in 1 .. n : a < b => s[a].id < s[b].id
  BY <1>1 DEF Sorted, n
<1>b. ASSUME NEW j \in 1 .. k, s[j].opt = "plain" \/ s[j].id = j - 1
      PROVE  s[j].name \in Loaded(x, d) /\ FileId(x, d, s[j].name) = s[j].id
  <2>1. Like(x, d, p, s[j], j)
    BY <1>2
  <2> QED
    BY <1>2, <1>b, <2>1 DEF Like
<1>4. e.id \in Nat /\ \A j \in 1 .. k : s[j].id < e.id
  BY <1>1, <1>2, <1>3, <1>a
<1>5. e.opt = "ttl" => e.id = k
  BY <1>1, <1>2, <1>3, <1>4 DEF Rewrites
<1>6. e.opt = "plain" => \A j \in 1 .. k : s[j].opt = "plain"
  BY <1>1, <1>2, <1>3 DEF Rewrites, n
<1>7. ParsedId(e) \in Int /\ (ParsedId(e) >= 0 <=> e.opt = "plain") /\ (e.opt = "plain" => ParsedId(e) = e.id)
  BY <1>4 DEF ParsedId
<1>8. ASSUME e.opt = "plain", NEW u \in Loaded(x, d) PROVE FileId(x, d, u) # e.id
  <2>1. PICK j \in 1 .. k : u = s[j].name
    BY <1>2
  <2>2. FileId(x, d, u) = s[j].id
    BY <1>6, <1>8, <1>b, <2>1
  <2> QED
    BY <1>1, <1>3, <1>4, <2>1, <2>2
<1>9. ASSUME NEW i, NewId(Tm(x, d), Loaded(x, d), ParsedId(e), i), e.opt # "plain", e.id = k
      PROVE  i = e.id
  <2>1. \A j \in 1 .. k + 1 : s[j].id = j - 1
    <3>1. (k + 1) - 1 = k
      BY <1>1
    <3>2. s[k + 1].id = (k + 1) - 1
      BY <1>2, <1>9, <3>1
    <3> QED
      BY <1>1, <1>3, <1>a, <3>2, Climbs
  <2>2. ASSUME NEW j \in 1 .. k
        PROVE  s[j].name \in Loaded(x, d) /\ FileId(x, d, s[j].name) = j - 1
    <3>1. j \in 1 .. k + 1
      OBVIOUS
    <3> QED
      BY <1>b, <2>1, <3>1
  <2>3. ~(ParsedId(e) >= 0) /\ ParsedId(e) < 0
    BY <1>7, <1>9
  <2>4. /\ i \in Nat /\ \A m \in Loaded(x, d) : FileId(x, d, m) # i
        /\ \A j \in 0 .. i - 1 : \E m \in Loaded(x, d) : FileId(x, d, m) = j
    BY <1>9, <2>3 DEF NewId, FileId
  <2>5. CASE i < k
    <3>1. i + 1 \in 1 .. k /\ (i + 1) - 1 = i
      BY <2>4, <2>5
    <3> QED
      BY <2>2, <2>4, <3>1
  <2>6. CASE i > k
    <3>1. k \in 0 .. i - 1
      BY <2>4, <2>6
    <3>2. PICK m \in Loaded(x, d) : FileId(x, d, m) = k
      BY <2>4, <3>1
    <3>3. PICK j \in 1 .. k : m = s[j].name
      BY <1>2
    <3>4. k = j - 1
      BY <2>2, <3>2, <3>3
    <3> QED
      BY <3>4
  <2> QED
    BY <1>9, <2>4, <2>5, <2>6
<1>10. ASSUME NEW i, NewId(Tm(x, d), Loaded(x, d), ParsedId(e), i), e.opt = "plain"
       PROVE  i = e.id
  BY <1>4, <1>7, <1>10 DEF NewId
<1> QED
  BY <1>5, <1>7, <1>8, <1>9, <1>10 DEF Numbers, e, s

LEMMA LikeKept ==
    ASSUME NEW x, NEW z, NEW d, NEW p, NEW e, NEW j, Like(x, d, p, e, j), Kept(x, z, d, e.name),
           Filed(x, d, e.name), FileId(z, d, e.name) = FileId(x, d, e.name)
    PROVE  Like(z, d, p, e, j)
<1>1. /\ Opt(z, d, e.name) = Opt(x, d, e.name) /\ Im(z, d, e.name) = Im(x, d, e.name)
      /\ Data(z, d, e.name) = Data(x, d, e.name)
  BY DEF Kept, SameTable
<1> QED
  BY <1>1 DEF Like, IndexesOf

\* A row of the files is that of the table that the schema file names for them.
LEMMA RowOfEntry ==
    ASSUME NEW d, NEW p \in Disks(d), NEW X, Fine(d, p, X), NEW k \in 1 .. Len(p.schema),
           RowAt(p, p.schema[k].id) # NoRow
    PROVE  RowAt(p, p.schema[k].id) = p.schema[k].name
<1> DEFINE s == p.schema
           n == Len(s)
<1>1. /\ n \in Nat /\ DOMAIN s = 1 .. n /\ Sorted(s) /\ \A j \in 1 .. n : s[j].id \in Nat
  BY SchemaIs
<1>2. k \in 1 .. n /\ RowAt(p, s[k].id) # NoRow
  OBVIOUS
<1>3. \A f \in Nat : RowAt(p, f) # NoRow => \E j \in DOMAIN s : s[j].id = f /\ s[j].name = RowAt(p, f)
  BY DEF Fine
<1> HIDE DEF s, n
<1>4. PICK j \in 1 .. n : s[j].id = s[k].id /\ s[j].name = RowAt(p, s[k].id)
  BY <1>1, <1>2, <1>3
<1>5. \A a, b \in 1 .. n : a < b => s[a].id < s[b].id
  BY <1>1 DEF Sorted, n
<1>6. j = k
  BY <1>1, <1>2, <1>4, <1>5
<1> QED
  BY <1>4, <1>6 DEF s

\* One more table of the schema file is in memory.
LEMMA ReadOne ==
    ASSUME NEW w, NEW x, NEW z, NEW d \in FileDbs, NEW p \in Disks(d), NEW k \in Nat,
           k + 1 <= Len(p.schema), ~Rewrites(p.schema), HasRead(w, x, d, p, k),
           NEW e, e = p.schema[k + 1],
           Created(x, z, d, e.name, e.opt, ParsedId(e), e.indexes, Rowed(d, p))
    PROVE  HasRead(w, z, d, p, k + 1)
<1> DEFINE s == p.schema
           n == Len(s)
           Q == Rowed(d, p)
           t == e.name
<1>1. /\ n \in Nat /\ k + 1 \in 1 .. n /\ e = s[k + 1] /\ e.id \in Nat /\ e.opt \in Options
      /\ e.indexes \in IndexLists /\ \A j \in 1 .. k : j \in 1 .. n
  BY SchemaIs
<1>2. /\ Held(x, d) /\ Sound(x, d) /\ Loaded(x, d) = {s[j].name : j \in 1 .. k}
      /\ \A j \in 1 .. k : Like(x, d, p, s[j], j)
  BY DEF HasRead, Held
<1>i. Numbers(x, d, e, k)
  BY NextId
<1>3. /\ \A i : NewId(Tm(x, d), Loaded(x, d), ParsedId(e), i) => (e.opt = "plain" \/ e.id = k => i = e.id)
      /\ e.opt = "ttl" => e.id = k
  BY ONLY <1>i DEF Numbers
<1> HIDE DEF s, n, Q
<1>4. Frame(w, z, d) /\ Passes(w, z, d, Q)
  BY FrameTrans, PassesTrans DEF HasRead, Created, Q
<1>5. Held(z, d) /\ z.disk[d] \in Rowed(d, p)
  <2>1. z.disk[d] \in Disks(d)
    BY DEF Created, Held, Sound, Shape
  <2> QED
    BY <2>1 DEF Created, HasRead, Rowed, SameRows
<1>6. Loaded(z, d) = {s[j].name : j \in 1 .. k + 1}
  <2>1. Loaded(z, d) = {s[j].name : j \in 1 .. k} \union {s[k + 1].name}
    BY <1>1, <1>2 DEF Created
  <2>2. \A j : j \in 1 .. k + 1 <=> j \in 1 .. k \/ j = k + 1
    OBVIOUS
  <2> QED
    BY <2>1, <2>2
<1>7. ASSUME NEW j \in 1 .. k PROVE Like(z, d, p, s[j], j)
  <2> DEFINE u == s[j].name
  <2>1. u \in Loaded(x, d) /\ Like(x, d, p, s[j], j)
    BY <1>2
  <2>2. Kept(x, z, d, u) /\ FileId(z, d, u) = FileId(x, d, u) /\ Filed(x, d, u)
    BY <1>2, <2>1 DEF Created, Held, DataFits
  <2> QED
    BY <2>1, <2>2, LikeKept
<1>8. Like(z, d, p, e, k + 1)
  <2>1. Opt(z, d, t) = e.opt
    BY DEF Created
  <2> DEFINE q == e.indexes
  <2>2. q \in IndexLists
    BY <1>1
  <2> HIDE DEF q
  <2>3. DOMAIN q = 1 .. Len(q) /\ NamesIn(q) = {q[m].name : m \in 1 .. Len(q)}
        /\ \A m \in 1 .. Len(q) : q[m].id >= 0
    BY <2>2, IndexListIs DEF Ids
  <2>4. IndexesOf(z, d, t) = NamesIn(q) /\ \A i \in DOMAIN q : Im(z, d, t).id[q[i].name] = q[i].id
    BY <2>3 DEF Created, q
  <2>5. (k + 1) - 1 = k
    OBVIOUS
  <2>6. e.opt = "plain" \/ e.id = k => FileId(z, d, t) = e.id
    BY <1>3 DEF Created
  <2>7. Data(z, d, t).row = IF e.opt = "memory" THEN NoRow ELSE RowAt(p, e.id)
    <3>1. OnDisk(z, d, t) <=> e.opt # "memory"
      BY <2>1 DEF OnDisk
    <3>2. CASE e.opt = "memory"
      BY <3>1, <3>2 DEF Created
    <3>3. CASE e.opt # "memory"
      <4>1. e.opt = "plain" \/ e.opt = "ttl"
        BY <1>1, <3>3 DEF Options
      <4>2. FileId(z, d, t) = e.id
        BY <1>3, <2>6, <4>1
      <4>3. RowAt(x.disk[d], e.id) = RowAt(p, e.id)
        BY <1>1 DEF HasRead, Rowed
      <4> QED
        BY <3>1, <3>3, <4>2, <4>3 DEF Created
    <3> QED
      BY <3>2, <3>3
  <2> QED
    BY <2>1, <2>4, <2>5, <2>6, <2>7 DEF Like, q
<1>9. \A j \in 1 .. k + 1 : Like(z, d, p, s[j], j)
  <2>1. \A j : j \in 1 .. k + 1 <=> j \in 1 .. k \/ j = k + 1
    OBVIOUS
  <2> QED
    BY <1>1, <1>7, <1>8, <2>1
<1> QED
  BY <1>4, <1>5, <1>6, <1>9 DEF HasRead, s, Q

LEMMA ReadRecorded ==
    ASSUME NEW w, NEW z, NEW y, NEW d \in FileDbs, NEW p, NEW k, HasRead(w, z, d, p, k),
           Recorded(z, y, d), Passes(z, y, d, Rowed(d, p))
    PROVE  HasRead(w, y, d, p, k)
<1> DEFINE Q == Rowed(d, p)
<1>1. d \in Dbs
  BY CatalogAssumption
<1>2. Frame(w, y, d) /\ Passes(w, y, d, Q)
  <2> HIDE DEF Q
  <2> QED
    BY FrameTrans, PassesTrans DEF HasRead, Recorded, Q
<1>3. Held(y, d)
  <2>1. Held(z, d)
    BY DEF HasRead
  <2>2. \A u \in Loaded(z, d) : DataFits(y, d, u)
    BY <2>1, FitsKept DEF Held, Recorded
  <2> QED
    BY <2>2 DEF Held, Recorded, SameTabs
<1>4. y.disk[d] \in Q
  <2>1. y.disk[d] \in Disks(d)
    BY <1>3 DEF Held, Sound, Shape
  <2>2. y.disk[d].files = z.disk[d].files
    BY DEF Recorded
  <2> QED
    BY <2>1, <2>2 DEF HasRead, Rowed, RowAt
<1>5. Loaded(y, d) = {p.schema[j].name : j \in 1 .. k}
  BY DEF Recorded, SameTabs, HasRead
<1>6. ASSUME NEW j \in 1 .. k PROVE Like(y, d, p, p.schema[j], j)
  <2> DEFINE e == p.schema[j]
             u == e.name
  <2>1. u \in Loaded(z, d) /\ Like(z, d, p, e, j)
    BY DEF HasRead
  <2>2. Kept(z, y, d, u) /\ FileId(y, d, u) = FileId(z, d, u) /\ Filed(z, d, u)
    BY <2>1 DEF Recorded, Held, HasRead, DataFits, SameTabs, FileId
  <2> HIDE DEF e
  <2> QED
    BY <2>1, <2>2, LikeKept DEF e
<1> QED
  BY <1>2, <1>3, <1>4, <1>5, <1>6 DEF HasRead

\* One more statement of the schema file is executed.
LEMMA SourceOne ==
    ASSUME NEW w, NEW x, NEW d \in FileDbs, w.cur = d, NEW p \in Disks(d), ~Rewrites(p.schema),
           NEW X, Fine(d, p, X), NEW k \in Nat, k + 1 <= Len(p.schema), Sourced(w, x, d, p, k)
    PROVE  LET y == SourceTable(x, p.schema[k + 1])
           IN  IsWorld(y) /\ (y.dep \/ Sourced(w, y, d, p, k + 1))
<1> DEFINE s == p.schema
           n == Len(s)
           Q == Rowed(d, p)
           e == s[k + 1]
           t == e.name
           g == e.indexes
           o == ParsedId(e)
           y == AddTable(x, d, t, e.opt, o, g)
           z == Enlisted(x, d, t, e.opt, o, g)
<1>1. /\ n \in Nat /\ DOMAIN s = 1 .. n /\ Sorted(s) /\ k + 1 \in 1 .. n
      /\ \A j \in 1 .. n : s[j].name \in Tables[d]
      /\ e.opt \in Options /\ g \in IndexLists /\ e.id \in Nat
  BY SchemaIs
<1>2. HasRead(w, x, d, p, k) /\ ~Rewrites(s) /\ k + 1 <= n /\ d \in Dbs
  BY CatalogAssumption DEF Sourced
<1>3. Held(x, d) /\ Sound(x, d) /\ x.cur = d /\ Managed(Tm(x, d), Loaded(x, d))
      /\ x.disk[d] \in Q /\ Loaded(x, d) = {s[j].name : j \in 1 .. k}
  BY <1>2 DEF HasRead, Held, Sound, Frame
<1>4. Numbers(x, d, e, k)
  BY <1>2, NextId
<1>5. Follows(x, d, Q) /\ IndexList(g)
  BY <1>1, <1>3, RowedIs, IndexListIs
<1>6. e.opt # "memory" => e.opt = "plain" \/ e.id = k
  BY <1>1, <1>4 DEF Numbers, Options
<1>7. RowAt(p, e.id) \in {NoRow, t}
  BY <1>1, RowOfEntry
<1>8. RowAt(x.disk[d], e.id) = RowAt(p, e.id)
  BY <1>1, <1>3 DEF Rowed
<1> HIDE DEF s, n, Q, e, g, o
<1>9. t \in Tables[d] /\ t \notin Loaded(x, d) /\ t \in Names
  <2>1. t \in Tables[d] /\ e = s[k + 1]
    BY <1>1 DEF e
  <2>2. ASSUME NEW j \in 1 .. k PROVE s[j].name # t
    <3>1. j \in 1 .. n /\ j # k + 1
      BY <1>1
    <3> QED
      BY <1>1, <2>1, <3>1 DEF Sorted, n
  <2> QED
    BY <1>2, <1>3, <2>1, <2>2, NameIs
<1>10. FileFor(x, d, t, e.opt, o)
  BY <1>4, <1>6, <1>7, <1>8 DEF FileFor, Numbers, o
<1>11. o \in Int /\ (o >= 0 => \A u \in Loaded(x, d) : FileId(x, d, u) # o)
  BY <1>4 DEF Numbers, o
<1>12. /\ IsWorld(y)
       /\ y.dep \/ (Created(x, z, d, t, e.opt, o, g, Q) /\ y = Saved(z, d, o))
  BY <1>1, <1>2, <1>3, <1>5, <1>9, <1>10, <1>11, AddTableIs, SMTT(40)
<1>13. SourceTable(x, e) = y
  <2>1. Get(Tm(x, d), t) = NoObj
    BY <1>3, <1>9, GetIs
  <2> QED
    BY <1>3, <2>1 DEF SourceTable, o, g
<1> HIDE DEF y, z
<1>14. ASSUME Created(x, z, d, t, e.opt, o, g, Q), y = Saved(z, d, o)
       PROVE  Sourced(w, y, d, p, k + 1)
  <2>1. HasRead(w, z, d, p, k + 1)
    BY <1>1, <1>2, <1>14, ReadOne DEF s, n, e, o, g, Q
  <2>2. o < 0 <=> e.opt # "plain"
    BY <1>1 DEF o, ParsedId
  <2>3. CASE e.opt = "plain"
    <3>1. y = z
      BY <1>14, <2>2, <2>3 DEF Saved
    <3>2. \A j \in 1 .. k + 1 : j \in 1 .. k \/ j = k + 1
      OBVIOUS
    <3>3. k # 0 => s[k].opt = "plain"
      <4>1. k # 0 => k \in DOMAIN s /\ k + 1 \in (k + 1) .. Len(s)
        BY <1>1 DEF n
      <4> QED
        BY <1>2, <2>3, <4>1 DEF Rewrites, e
    <3>4. SameSchema(p, x.disk[d]) /\ \A j \in 1 .. k : s[j].opt = "plain"
      BY <3>3 DEF Sourced, s
    <3>5. SameSchema(p, z.disk[d])
      BY <1>14, <3>4 DEF Created, SameRows, SameSchema
    <3>6. \A j \in 1 .. k + 1 : s[j].opt = "plain"
      BY <2>3, <3>2, <3>4 DEF e
    <3> QED
      BY <2>1, <3>1, <3>5, <3>6 DEF Sourced, s
  <2>4. CASE e.opt # "plain"
    <3>1. y = GenSchema(z, d)
      BY <1>14, <2>2, <2>4 DEF Saved
    <3>2. Sound(z, d) /\ Admits(z, d, Q)
      BY <2>1, RowedIs DEF HasRead, Held, Q
    <3>3. Recorded(z, y, d) /\ Passes(z, y, d, Q)
      BY <1>2, <3>1, <3>2, GenSchemaIs
    <3>4. HasRead(w, y, d, p, k + 1)
      BY <2>1, <3>3, ReadRecorded DEF Q
    <3>5. k + 1 # 0 /\ p.schema[k + 1].opt # "plain"
      BY <2>4 DEF e, s
    <3> QED
      BY <3>3, <3>4, <3>5 DEF Sourced, Recorded
  <2> QED
    BY <2>3, <2>4
<1> QED
  BY <1>12, <1>13, <1>14 DEF e, s

SourceLoop(S, w, schema, f) == [k \in S |-> IF k = 0 THEN w ELSE SourceTable(f[k - 1], schema[k])]

SourceLoopRuns(N, w, schema) ==
    \E f : /\ f = CHOOSE g : g = SourceLoop(0 .. N, w, schema, g)
           /\ f[0] = w
           /\ \A k \in 1 .. N : f[k] = SourceTable(f[k - 1], schema[k])

LEMMA SourceLoopSteps ==
    ASSUME NEW w, NEW schema, NEW N \in Nat
    PROVE  SourceLoopRuns(N, w, schema)
<1> DEFINE B == {m \in 0 .. N : \E f : f = SourceLoop(0 .. m, w, schema, f)}
<1>1. 0 \in B
  <2>1. \A f : SourceLoop(0 .. 0, w, schema, f) = [k \in 0 .. 0 |-> w]
    BY DEF SourceLoop
  <2> QED
    BY <2>1
<1>2. ASSUME NEW m \in 0 .. N - 1, m \in B PROVE m + 1 \in B
  <2>1. PICK v : v = SourceLoop(0 .. m, w, schema, v)
    BY <1>2
  <2> DEFINE e == SourceTable(v[m], schema[(m + 1)])
             f == [k \in 0 .. m + 1 |-> IF k = m + 1 THEN e ELSE v[k]]
  <2>2. ASSUME NEW k \in 0 .. m + 1
        PROVE  f[k] = IF k = 0 THEN w ELSE SourceTable(f[k - 1], schema[k])
    <3>1. CASE k = m + 1
      <4>1. f[k] = e /\ k # 0 /\ k - 1 = m /\ f[m] = v[m] /\ k = m + 1
        BY <3>1
      <4> HIDE DEF f
      <4> QED
        BY <4>1
    <3>2. CASE k # m + 1
      <4>1. k \in 0 .. m /\ f[k] = v[k] /\ (k # 0 => k - 1 \in 0 .. m /\ f[k - 1] = v[k - 1])
        BY <3>2
      <4>2. v[k] = IF k = 0 THEN w ELSE SourceTable(v[k - 1], schema[k])
        BY <2>1, <4>1 DEF SourceLoop
      <4> HIDE DEF f
      <4> QED
        BY <4>1, <4>2
    <3> QED
      BY <3>1, <3>2
  <2>3. f = SourceLoop(0 .. m + 1, w, schema, f)
    <3>1. f = [k \in 0 .. m + 1 |-> f[k]]
      OBVIOUS
    <3> HIDE DEF f
    <3> QED
      BY <2>2, <3>1 DEF SourceLoop
  <2> QED
    BY <2>3
<1>3. N \in B
  <2> HIDE DEF B
  <2> QED
    BY <1>1, <1>2, UpTo
<1> DEFINE h == CHOOSE g : g = SourceLoop(0 .. N, w, schema, g)
<1>4. h = SourceLoop(0 .. N, w, schema, h)
  BY <1>3
<1> HIDE DEF h
<1>5. h[0] = w /\ \A k \in 1 .. N : h[k] = SourceTable(h[k - 1], schema[k])
  BY <1>4 DEF SourceLoop
<1> QED
  BY <1>5 DEF h, SourceLoopRuns

LEMMA SourceTableGoes ==
    ASSUME NEW w, IsWorld(w), NEW e, Len(e.indexes) \in Nat
    PROVE  Goes(w, SourceTable(w, e))
<1>1. CASE Get(Tm(w, w.cur), e.name) # NoObj
  BY <1>1, GoesSelf DEF SourceTable
<1>2. CASE Get(Tm(w, w.cur), e.name) = NoObj
  <2> DEFINE g == e.indexes
             y == AddTable(w, w.cur, e.name, e.opt, ParsedId(e), g)
  <2>1. SourceTable(w, e) = y
    BY <1>2 DEF SourceTable
  <2> HIDE DEF g
  <2>2. Goes(w, y)
    BY AddTableGoes DEF g
  <2> QED
    BY <2>1, <2>2
<1> QED
  BY <1>1, <1>2

LEMMA SourceIs ==
    ASSUME NEW w, NEW d \in FileDbs, IsWorld(w), w.cur = d, NEW p \in Disks(d), p = w.disk[d], ~Rewrites(p.schema),
           NEW X, Fine(d, p, X), Sourced(w, w, d, p, 0)
    PROVE  LET y == Source(w, d)
           IN  IsWorld(y) /\ (y.dep \/ Sourced(w, y, d, p, Len(p.schema)))
<1> DEFINE s == p.schema
           N == Len(s)
<1>1. /\ N \in Nat /\ ~Rewrites(s) /\ s = w.disk[d].schema
      /\ \A k \in 1 .. N : s[k].indexes \in IndexLists
  BY SchemaIs
<1>i. SourceLoopRuns(N, w, s)
  BY <1>1, SourceLoopSteps, Zenon
<1>2. PICK f : /\ f = CHOOSE g : g = SourceLoop(0 .. N, w, s, g)
               /\ f[0] = w
               /\ \A k \in 1 .. N : f[k] = SourceTable(f[k - 1], s[k])
  BY <1>i DEF SourceLoopRuns
<1>3. Source(w, d) = f[N]
  BY <1>2, ZenonT(40) DEF Source, SourceLoop
<1> DEFINE B == {k \in 0 .. N : IsWorld(f[k]) /\ (f[k].dep \/ Sourced(w, f[k], d, p, k))}
<1> HIDE DEF s, N
<1>4. 0 \in B
  <2>1. 0 \in 0 .. N
    BY <1>1
  <2> QED
    BY <1>2, <2>1
<1>5. ASSUME NEW k \in 0 .. N - 1, k \in B PROVE k + 1 \in B
  <2> DEFINE x == f[k]
             e == s[k + 1]
             y == SourceTable(x, e)
             g == e.indexes
  <2>1. k + 1 \in 1 .. N /\ k + 1 \in 0 .. N /\ (k + 1) - 1 = k /\ k \in Nat /\ k + 1 <= N
    BY <1>1
  <2>2. f[k + 1] = y
    BY <1>2, <2>1
  <2>3. IsWorld(x) /\ (x.dep \/ Sourced(w, x, d, p, k))
    BY <1>5
  <2>4. g \in IndexLists
    BY <1>1, <2>1
  <2> HIDE DEF x, g
  <2>5. Len(e.indexes) \in Nat
    BY <2>4, IndexListIs DEF g
  <2>6. Goes(x, y)
    <3> HIDE DEF e
    <3> QED
      BY <2>3, <2>5, SourceTableGoes
  <2>7. ASSUME Sourced(w, x, d, p, k) PROVE IsWorld(y) /\ (y.dep \/ Sourced(w, y, d, p, k + 1))
    BY <2>1, <2>7, SourceOne DEF s, N
  <2>8. IsWorld(y) /\ (y.dep \/ Sourced(w, y, d, p, k + 1))
    BY <2>3, <2>6, <2>7 DEF Goes
  <2> HIDE DEF y
  <2> QED
    BY <2>1, <2>2, <2>8
<1>6. N \in B
  <2> HIDE DEF B
  <2>1. N \in 0 .. N
    BY <1>1
  <2> QED
    BY <1>1, <1>4, <1>5, <2>1, UpTo
<1> QED
  BY <1>3, <1>6 DEF N, s

\* The database after its schema file was executed.
LEMMA SourcedOpen ==
    ASSUME NEW w, NEW y, NEW d \in FileDbs, NEW p \in Disks(d), ~p.cut, ~Rewrites(p.schema),
           NEW X, Fine(d, p, X), Sourced(w, y, d, p, Len(p.schema))
    PROVE  Settled(y, d) /\ \A t \in Tables[d] : View(y, d, t) \in X[t]
<1> DEFINE s == p.schema
           N == Len(s)
<1>1. /\ N \in Nat /\ DOMAIN s = 1 .. N /\ ~Rewrites(s) /\ d \in Dbs
      /\ \A k \in 1 .. N : s[k].opt \in Options /\ s[k].id \in Nat /\ s[k].name \in Tables[d]
  BY SchemaIs, CatalogAssumption
<1>2. /\ HasRead(w, y, d, p, N) /\ Held(y, d) /\ Loaded(y, d) = {s[j].name : j \in 1 .. N}
      /\ \A j \in 1 .. N : Like(y, d, p, s[j], j)
      /\ \A f \in Nat : RowAt(y.disk[d], f) = RowAt(p, f)
  BY DEF Sourced, HasRead, Rowed
<1>3. /\ \A f \in Nat : RowAt(p, f) # NoRow =>
            \E k \in DOMAIN s : s[k].id = f /\ s[k].name = RowAt(p, f) /\ s[k].opt # "memory"
      /\ \A k \in DOMAIN s : Shown(p, s[k]) \in X[s[k].name]
      /\ \A t \in Tables[d] \ NamesIn(s) : NoTable \in X[t]
  BY DEF Fine
<1>4. \/ SameSchema(p, y.disk[d]) /\ \A j \in 1 .. N : s[j].opt = "plain"
      \/ ~y.disk[d].cut /\ Describes(y, d, y.disk[d].schema)
  BY DEF Sourced
<1>a. SameSchema(p, y.disk[d]) => y.disk[d].schema = s /\ ~y.disk[d].cut
  BY DEF SameSchema
<1> HIDE DEF s, N
<1>5. NamesIn(s) = Loaded(y, d)
  BY <1>1, <1>2 DEF NamesIn
<1>6. ASSUME NEW k \in 1 .. N, s[k].opt # "memory" PROVE FileId(y, d, s[k].name) = s[k].id
  <2>1. s[k].opt = "plain" \/ s[k].opt = "ttl"
    BY <1>1, <1>6 DEF Options
  <2>2. s[k].opt = "ttl" => s[k].id = k - 1
    BY <1>1 DEF Rewrites
  <2>3. Like(y, d, p, s[k], k)
    BY <1>2
  <2> QED
    BY <2>1, <2>2, <2>3 DEF Like
<1>7. Owned(y, d)
  <2> SUFFICES ASSUME NEW f \in Nat, RowAt(y.disk[d], f) # NoRow
               PROVE  \E t \in Loaded(y, d) : OwnedBy(y, d, f, t)
    BY DEF Owned
  <2>1. PICK k \in 1 .. N : s[k].id = f /\ s[k].name = RowAt(p, f) /\ s[k].opt # "memory"
    BY <1>1, <1>2, <1>3
  <2>2. s[k].name \in Loaded(y, d) /\ Opt(y, d, s[k].name) = s[k].opt
    <3>1. Like(y, d, p, s[k], k)
      BY <1>2
    <3> QED
      BY <1>2, <3>1 DEF Like
  <2> QED
    BY <1>2, <1>6, <2>1, <2>2 DEF OwnedBy, OnDisk
<1>8. ~y.disk[d].cut /\ Describes(y, d, y.disk[d].schema)
  <2>1. ASSUME \A j \in 1 .. N : s[j].opt = "plain", NEW k \in 1 .. N PROVE EntryOf(y, d, s[k])
    <3>1. Like(y, d, p, s[k], k) /\ s[k].name \in Loaded(y, d)
      BY <1>2
    <3> QED
      BY <2>1, <3>1 DEF Like, EntryOf
  <2> QED
    BY <1>1, <1>4, <1>5, <1>a, <2>1 DEF Describes
<1>9. Settled(y, d)
  BY <1>2, <1>7, <1>8 DEF Settled
<1>10. ASSUME NEW t \in Tables[d] PROVE View(y, d, t) \in X[t]
  <2>1. CASE t \in Loaded(y, d)
    <3>1. PICK k \in 1 .. N : t = s[k].name
      BY <1>2, <2>1
    <3>2. View(y, d, t) = [opt |-> Opt(y, d, t), row |-> Data(y, d, t).row, indexes |-> IndexesOf(y, d, t)]
      BY <1>1, <1>2, <2>1, ViewIs
    <3>3. Like(y, d, p, s[k], k)
      BY <1>2
    <3>4. View(y, d, t) = Shown(p, s[k])
      BY <3>1, <3>2, <3>3 DEF Like, Shown
    <3> QED
      BY <1>1, <1>3, <3>1, <3>4
  <2>2. CASE t \notin Loaded(y, d)
    BY <1>1, <1>2, <1>3, <1>5, <2>2, ViewIs
  <2> QED
    BY <2>1, <2>2
<1> QED
  BY <1>9, <1>10

-------------------------------------------------------------------------------
(* A database is opened.                                                     *)

Registered(w, d) ==
    [w EXCEPT !.dm = Add(@, d, -1), !.live[d] = Closed, !.cur = IF @ = NoObj THEN d ELSE @]

LEMMA RegisteredIs ==
    ASSUME NEW w, IsWorld(w), NEW d \in Dbs, w.live = [e \in Dbs |-> w.live[e]]
    PROVE  LET x == Registered(w, d)
           IN  /\ IsWorld(x) /\ x.dm = Add(w.dm, d, -1) /\ Agree(Dbs, w.live, x.live, d) /\ x.live[d] = Closed
               /\ x.cur = (IF w.cur = NoObj THEN d ELSE w.cur) /\ x.disk = w.disk
               /\ x.trail = w.trail /\ x.dep = w.dep
<1> DEFINE c == IF w.cur = NoObj THEN d ELSE w.cur
           m == Add(w.dm, d, -1)
           h1 == [w EXCEPT !.dm = m]
           h2 == [h1 EXCEPT !.live[d] = Closed]
           h3 == [h2 EXCEPT !.cur = c]
<1>1. Registered(w, d) = h3
  BY DEF Registered
<1> HIDE DEF m, c
<1>2. IsWorld(h1) /\ h1.dm = m /\ h1.live = w.live /\ h1.cur = w.cur /\ h1.disk = w.disk
      /\ h1.trail = w.trail /\ h1.dep = w.dep
  BY DEF IsWorld
<1> HIDE DEF h1
<1>3. Assigned(h1, h2, d) /\ h2.live[d] = Closed
  BY <1>2, AssignDb
<1> HIDE DEF h2
<1>4. IsWorld(h2) /\ h2.dm = m /\ h2.disk = w.disk /\ h2.trail = w.trail /\ h2.dep = w.dep
      /\ Agree(Dbs, w.live, h2.live, d)
  BY <1>2, <1>3 DEF Assigned
<1>5. IsWorld(h3) /\ h3.dm = m /\ h3.live = h2.live /\ h3.cur = c /\ h3.disk = w.disk
      /\ h3.trail = w.trail /\ h3.dep = w.dep
  BY <1>4 DEF IsWorld
<1> QED
  BY <1>1, <1>3, <1>4, <1>5 DEF m, c

\* A database that is opened is known.
LEMMA OpenedWorld ==
    ASSUME NEW w, NEW X, WorldOK(w, X), NEW d \in Dbs \ OpenDbs(w), NEW z, IsWorld(z),
           z.dm = Add(w.dm, d, -1), z.cur = (IF w.cur = NoObj THEN d ELSE w.cur),
           Agree(Dbs, w.live, z.live, d), Agree(FileDbs, w.disk, z.disk, d),
           NEW Y, OpenOK(z, d, Y), Y = [t \in Tables[d] |-> Y[t]]
    PROVE  WorldOK(z, [X EXCEPT ![d] = Y])
<1> DEFINE Z == [X EXCEPT ![d] = Y]
           S == {System} \union OpenDbs(w)
           n == -1
<1>1. OpenDbs(w) \subseteq Dbs /\ d \in Names /\ Managed(w.dm, S) /\ System \notin Dbs /\ d \notin S
  BY CatalogAssumption, NameIs DEF WorldOK
<1>2. n \in Int /\ ~(n >= 0) /\ w.dm.cap # n
  BY <1>1 DEF Managed, Shaped
<1>3. ~Overruns(w.dm, n) /\ z.dm = Add(w.dm, d, n)
  BY <1>2 DEF Overruns
<1> HIDE DEF S, n
<1>4. Managed(z.dm, S \union {d})
  BY <1>1, <1>2, <1>3, AddIs
<1>5. Known(z.dm) = S \union {d}
  BY <1>4, GetIs
<1>6. OpenDbs(z) = OpenDbs(w) \union {d} /\ S \union {d} = {System} \union OpenDbs(z)
  BY <1>1, <1>5 DEF OpenDbs, S
<1>7. Z = [e \in Dbs |-> Z[e]] /\ Z[d] = Y /\ \A e \in Dbs \ {d} : Z[e] = X[e]
  BY DEF WorldOK
<1> HIDE DEF Z
<1>8. \A e \in Dbs : Z[e] = [t \in Tables[e] |-> Z[e][t]]
  BY <1>7 DEF WorldOK
<1>9. /\ z.live = [e \in Dbs |-> z.live[e]]
      /\ z.disk = [e \in FileDbs |-> z.disk[e]] /\ \A e \in FileDbs : z.disk[e] \in Disks(e)
  BY DEF OpenOK, Held, Sound, Shape
<1>10. ASSUME NEW e \in Dbs \ {d} PROVE z.live[e] = w.live[e] /\ (e \in FileDbs => z.disk[e] = w.disk[e])
  BY DEF Agree
<1>11. ASSUME NEW e \in OpenDbs(z) PROVE OpenOK(z, e, Z[e])
  <2>1. CASE e = d
    BY <1>7, <2>1
  <2>2. CASE e # d
    BY <1>1, <1>6, <1>7, <1>9, <1>10, <2>2, OtherKept DEF WorldOK
  <2> QED
    BY <2>1, <2>2
<1>12. ASSUME NEW e \in Dbs \ OpenDbs(z) PROVE ClosedOK(z, e, Z[e])
  <2>1. e # d /\ e \in Dbs \ OpenDbs(w)
    BY <1>6
  <2> QED
    BY <1>7, <1>9, <1>10, <2>1, OtherKept DEF WorldOK
<1>13. z.cur \in OpenDbs(z) \union {NoObj}
  BY <1>6 DEF WorldOK
<1>14. Managed(z.dm, {System} \union OpenDbs(z)) /\ OpenDbs(z) \subseteq Dbs
  BY <1>1, <1>4, <1>6
<1> QED
  BY <1>7, <1>8, <1>9, <1>11, <1>12, <1>13, <1>14 DEF WorldOK, Z

LEMMA EmptyHeld ==
    ASSUME NEW x, NEW d \in Dbs, IsWorld(x), x.live = [e \in Dbs |-> x.live[e]], x.live[d] = Closed,
           x.disk = [e \in FileDbs |-> x.disk[e]], \A e \in FileDbs : x.disk[e] \in Disks(e)
    PROVE  /\ Shape(x, d) /\ Held(x, d) /\ Loaded(x, d) = {}
           /\ \A t \in Tables[d] : View(x, d, t) = NoTable
<1> DEFINE g == <<>>
           v == [tm |-> EmptyObjm, tab |-> g]
<1>1. DOMAIN g = {} /\ g = [t \in DOMAIN g |-> g[t]]
  OBVIOUS
<1>2. x.live[d] = v
  BY DEF Closed
<1> HIDE DEF g
<1>3. DbShape(v) /\ v.tm = EmptyObjm /\ v.tab = g
  BY <1>1 DEF DbShape
<1> HIDE DEF v
<1>4. Shape(x, d)
  BY <1>2, <1>3 DEF Shape
<1>5. Loaded(x, d) = {} /\ Tm(x, d) = EmptyObjm
  BY <1>1, <1>2, <1>3 DEF Loaded, Tm
<1>6. Held(x, d)
  BY <1>4, <1>5, EmptyIs DEF Held, Sound
<1> QED
  BY <1>4, <1>5, <1>6, ViewIs

WithCur(w, c) == [w EXCEPT !.cur = c]

LEMMA WithCurIs ==
    ASSUME NEW w, IsWorld(w), NEW c
    PROVE  LET x == WithCur(w, c)
           IN  /\ IsWorld(x) /\ x.dm = w.dm /\ x.live = w.live /\ x.cur = c /\ x.disk = w.disk
               /\ x.trail = w.trail /\ x.dep = w.dep
BY DEF WithCur, IsWorld

\* The schema file of a database that has just been registered is executed.
Came(w, y, d, X) ==
    /\ y.dm = w.dm /\ y.cur = w.cur /\ Agree(Dbs, w.live, y.live, d) /\ Agree(FileDbs, w.disk, y.disk, d)
    /\ Settled(y, d) /\ (\A t \in Tables[d] : View(y, d, t) \in X[t])
    /\ Passes(w, y, d, Rowed(d, w.disk[d]))

LEMMA ReadsMemory ==
    ASSUME NEW x, NEW d \in Dbs \ FileDbs, IsWorld(x), x.live = [e \in Dbs |-> x.live[e]], x.live[d] = Closed,
           x.disk = [e \in FileDbs |-> x.disk[e]], \A e \in FileDbs : x.disk[e] \in Disks(e),
           NEW X, \A t \in Tables[d] : X[t] = {NoTable}
    PROVE  IsWorld(Reads(x, d)) /\ Came(x, Reads(x, d), d, X)
<1>1. Reads(x, d) = x
  BY DEF Reads
<1>2. /\ Shape(x, d) /\ Held(x, d) /\ Loaded(x, d) = {}
      /\ \A t \in Tables[d] : View(x, d, t) = NoTable
  BY EmptyHeld
<1>3. Owned(x, d)
  BY DEF Owned
<1>4. Agree(Dbs, x.live, x.live, d) /\ Agree(FileDbs, x.disk, x.disk, d)
  BY DEF Agree
<1> QED
  BY <1>1, <1>2, <1>3, <1>4 DEF Came, Settled, Passes

LEMMA ReadsFiles ==
    ASSUME NEW x, NEW d \in FileDbs, IsWorld(x), x.live = [e \in Dbs |-> x.live[e]], x.live[d] = Closed,
           x.disk = [e \in FileDbs |-> x.disk[e]], \A e \in FileDbs : x.disk[e] \in Disks(e),
           NEW X, Fine(d, x.disk[d], X)
    PROVE  IsWorld(Reads(x, d)) /\ (Reads(x, d).dep \/ Came(x, Reads(x, d), d, X))
<1> DEFINE p == x.disk[d]
           w == WithCur(x, d)
           y == Source(w, d)
           z == WithCur(y, x.cur)
           Q == Rowed(d, p)
<1>1. d \in Dbs /\ p \in Disks(d)
  BY CatalogAssumption
<1>2. CASE p.cut \/ Rewrites(p.schema)
  <2>1. Reads(x, d) = Departs(x)
    BY <1>2 DEF Reads
  <2> QED
    BY <2>1, DepartsIs DEF Goes
<1>3. CASE ~(p.cut \/ Rewrites(p.schema))
  <2>1. Reads(x, d) = z
    BY <1>3 DEF Reads, SourceInto, WithCur
  <2>2. /\ IsWorld(w) /\ w.dm = x.dm /\ w.live = x.live /\ w.cur = d /\ w.disk = x.disk
        /\ w.trail = x.trail /\ w.dep = x.dep
    BY WithCurIs
  <2> HIDE DEF w
  <2>3. Shape(w, d) /\ Held(w, d) /\ Loaded(w, d) = {}
    BY <1>1, <2>2, EmptyHeld
  <2>4. w.disk[d] \in Q
    BY <1>1, <2>2 DEF Rowed
  <2> HIDE DEF Q
  <2>5. Frame(w, w, d) /\ Passes(w, w, d, Q)
    <3>1. Quiet(w, w)
      BY <2>2 DEF Quiet
    <3> QED
      BY <2>3, <3>1, QuietIs
  <2>6. Sourced(w, w, d, p, 0)
    <3>1. 1 .. 0 = {}
      OBVIOUS
    <3>2. HasRead(w, w, d, p, 0)
      BY <2>3, <2>4, <2>5, <3>1 DEF HasRead, Q
    <3>3. SameSchema(p, w.disk[d])
      BY <2>2 DEF SameSchema
    <3> QED
      BY <3>1, <3>2, <3>3 DEF Sourced
  <2>7. p = w.disk[d] /\ ~Rewrites(p.schema) /\ ~p.cut
    BY <1>3, <2>2
  <2> HIDE DEF p
  <2>8. IsWorld(y) /\ (y.dep \/ Sourced(w, y, d, p, Len(p.schema)))
    BY <1>1, <2>2, <2>6, <2>7, SourceIs DEF p
  <2> HIDE DEF y
  <2>9. /\ IsWorld(z) /\ z.dm = y.dm /\ z.live = y.live /\ z.cur = x.cur /\ z.disk = y.disk
        /\ z.trail = y.trail /\ z.dep = y.dep
    BY <2>8, WithCurIs
  <2> HIDE DEF z
  <2>10. ASSUME Sourced(w, y, d, p, Len(p.schema)) PROVE Came(x, z, d, X)
    <3>1. Settled(y, d) /\ \A t \in Tables[d] : View(y, d, t) \in X[t]
      BY <1>1, <2>7, <2>10, SourcedOpen DEF p
    <3>2. Frame(w, y, d) /\ Passes(w, y, d, Q)
      BY <2>10 DEF Sourced, HasRead, Q
    <3>3. /\ z.dm = x.dm /\ Agree(Dbs, x.live, z.live, d) /\ Agree(FileDbs, x.disk, z.disk, d)
          /\ Passes(x, z, d, Q)
      BY <2>2, <2>9, <3>2 DEF Frame, Passes
    <3> DEFINE Y == [t \in Tables[d] |-> {View(y, d, t)}]
    <3>4. OpenOK(y, d, Y)
      BY <3>1 DEF Settled, OpenOK
    <3> HIDE DEF Y
    <3>5. /\ z.live = [e \in Dbs |-> z.live[e]] /\ z.disk = [e \in FileDbs |-> z.disk[e]]
          /\ \A e \in FileDbs : z.disk[e] \in Disks(e)
      BY <2>9, <3>1 DEF Settled, Held, Sound, Shape, p
    <3>6. OpenOK(z, d, Y)
      BY <1>1, <2>9, <3>4, <3>5, OtherKept
    <3>7. \A t \in Tables[d] : {View(y, d, t)} = {View(z, d, t)}
      BY <3>6 DEF OpenOK, Y
    <3>8. \A t \in Tables[d] : View(z, d, t) \in X[t]
      BY <3>1, <3>7
    <3>9. Settled(z, d)
      BY <3>6 DEF OpenOK, Settled
    <3> QED
      BY <2>9, <3>3, <3>8, <3>9 DEF Came, p, Q
  <2> QED
    BY <2>1, <2>8, <2>9, <2>10
<1> QED
  BY <1>2, <1>3

\* Rows and schema are what says what a closed database holds.
LEMMA FineRowed ==
    ASSUME NEW d \in FileDbs, NEW p, NEW q \in Rowed(d, p), q.schema = p.schema, NEW X, Fine(d, p, X)
    PROVE  Fine(d, q, X)
<1> DEFINE s == p.schema
<1>1. q.schema = s /\ \A f \in Nat : RowAt(q, f) = RowAt(p, f)
  BY DEF Rowed
<1>2. q \in Disks(d)
  BY DEF Rowed
<1>3. ASSUME NEW k \in DOMAIN s PROVE s[k].id \in Nat
  BY <1>1, <1>2, SchemaIs
<1>4. /\ \A f \in Nat : RowAt(p, f) # NoRow =>
            \E k \in DOMAIN s : s[k].id = f /\ s[k].name = RowAt(p, f) /\ s[k].opt # "memory"
      /\ \A k \in DOMAIN s : Shown(p, s[k]) \in X[s[k].name]
      /\ \A t \in Tables[d] \ NamesIn(s) : NoTable \in X[t]
  BY DEF Fine
<1> HIDE DEF s
<1>5. ASSUME NEW k \in DOMAIN s PROVE Shown(q, s[k]) = Shown(p, s[k])
  BY <1>1, <1>3 DEF Shown
<1> QED
  BY <1>1, <1>4, <1>5 DEF Fine

\* The process dies at a disk that the opening of a database passed through.
LEMMA OpeningGone ==
    ASSUME CatalogInv, ~departed, NEW d \in Dbs \ Opened, NEW x, x.trail = {disk}, x.disk = disk,
           NEW z, IsWorld(z), z.dep \/ Passes(x, z, d, Rowed(d, disk[d])),
           NEW k \in z.trail \ {disk},
           Restart([z EXCEPT !.dep = @ \/ k[d].schema # disk[d].schema], k, want)
    PROVE  CatalogInv'
<1> DEFINE c == z.dep \/ k[d].schema # disk[d].schema
           v == WithDep(z, c)
<1>1. c \in BOOLEAN /\ Restart(v, k, want)
  BY DEF WithDep, IsWorld
<1>2. IsWorld(v) /\ v.dep = c
  BY <1>1, WithDepIs
<1> HIDE DEF v
<1>3. CASE c
  BY <1>1, <1>2, <1>3, RestartDeparts
<1>4. CASE ~c
  <2>1. ~z.dep /\ k[d].schema = disk[d].schema
    BY <1>4 DEF IsWorld
  <2>2. d \in FileDbs /\ Agree(FileDbs, disk, k, d) /\ k[d] \in Rowed(d, disk[d])
    BY <2>1 DEF Passes
  <2>3. WorldOK(World, want)
    BY DEF CatalogInv
  <2>4. d \in Dbs \ OpenDbs(World)
    BY WorldIs DEF Opened, OpenDbs
  <2>5. Fine(d, disk[d], want[d])
    BY <2>2, <2>3, <2>4, WorldIs DEF WorldOK, ClosedOK
  <2> DEFINE Z == want[d]
  <2>6. k[d] \in Disks(d) /\ Fine(d, k[d], Forgotten(d, want[d]))
    <3>1. k[d] \in Disks(d)
      BY <2>2 DEF Rowed
    <3> HIDE DEF Z
    <3>2. Fine(d, k[d], Z)
      BY <2>1, <2>2, <2>5, FineRowed DEF Z
    <3>3. Fine(d, k[d], Forgotten(d, Z))
      BY <2>2, <3>1, <3>2, FineForgotten
    <3> QED
      BY <3>1, <3>3 DEF Z
  <2>7. k = [e \in FileDbs |-> k[e]] /\ \A e \in FileDbs \ {d} : k[e] = disk[e]
    BY <2>2 DEF Agree
  <2>8. ASSUME NEW e \in FileDbs PROVE disk[e] \in Disks(e) /\ Fine(e, disk[e], Forgotten(e, want[e]))
    BY <2>3, StandsFine, WorldIs DEF WorldOK
  <2>9. \A e \in FileDbs : k[e] \in Disks(e) /\ Fine(e, k[e], Forgotten(e, want[e]))
    BY <2>6, <2>7, <2>8
  <2>10. \A e \in Dbs : \A t \in Tables[e] : want[e][t] # {}
    BY <2>3, WishesThere
  <2> QED
    BY <1>1, <2>7, <2>9, <2>10, RestartIs
<1> QED
  BY <1>3, <1>4

\* The database is open, and the client sees what it may expect.
LEMMA OpeningDone ==
    ASSUME CatalogInv, ~departed, NEW d \in Dbs \ Opened, NEW z, IsWorld(z), Settled(z, d),
           \A t \in Tables[d] : View(z, d, t) \in want[d][t],
           z.dm = Add(dm, d, -1), z.cur = (IF cur = NoObj THEN d ELSE cur),
           Agree(Dbs, live, z.live, d), Agree(FileDbs, disk, z.disk, d),
           Become(z, [want EXCEPT ![d] = Seen(z, d)])
    PROVE  CatalogInv'
<1> DEFINE Y == Seen(z, d)
<1>1. WorldOK(World, want) /\ d \in Dbs \ OpenDbs(World)
  BY WorldIs DEF CatalogInv, Opened, OpenDbs
<1>2. Y = [t \in Tables[d] |-> Y[t]] /\ \A t \in Tables[d] : Y[t] = {View(z, d, t)}
  BY DEF Seen
<1> HIDE DEF Y
<1>3. OpenOK(z, d, Y)
  BY <1>2 DEF Settled, OpenOK
<1> DEFINE W == World
<1>4. /\ z.dm = Add(W.dm, d, -1) /\ z.cur = (IF W.cur = NoObj THEN d ELSE W.cur)
      /\ Agree(Dbs, W.live, z.live, d) /\ Agree(FileDbs, W.disk, z.disk, d)
  BY WorldIs
<1> HIDE DEF W
<1>5. WorldOK(W, want) /\ d \in Dbs \ OpenDbs(W)
  BY <1>1 DEF W
<1>6. WorldOK(z, [want EXCEPT ![d] = Y])
  BY <1>2, <1>3, <1>4, <1>5, OpenedWorld
<1> QED
  BY <1>6, BecomeIs DEF Y

LEMMA OpenDbIs ==
    ASSUME CatalogInv, ~departed, NEW d \in Dbs, OpenDb(d)
    PROVE  CatalogInv'
<1> DEFINE w == World
           x == Registered(w, d)
           y == Reads(x, d)
           s == [y.sys EXCEPT !.dbs = @ \union {d}]
           z == WithSys(y, s)
           X == want[d]
<1>1. d \in Dbs \ Opened /\ Opens(d, AddDb(World, d))
  BY DEF OpenDb
<1>2. AddDb(World, d) = [y EXCEPT !.sys.dbs = @ \union {d}]
  BY DEF AddDb, Registered
<1>3. WorldOK(w, want) /\ d \in Dbs \ OpenDbs(w)
  BY <1>1, WorldIs DEF CatalogInv, Opened, OpenDbs
<1>4. /\ IsWorld(w) /\ ~w.dep /\ w.trail = {disk} /\ w.disk = disk /\ w.dm = dm /\ w.live = live /\ w.cur = cur
  BY WorldIs
<1>5. /\ w.live = [e \in Dbs |-> w.live[e]] /\ w.disk = [e \in FileDbs |-> w.disk[e]]
      /\ \A e \in FileDbs : w.disk[e] \in Disks(e)
      /\ ClosedOK(w, d, X)
  BY <1>3 DEF WorldOK
<1> HIDE DEF w, X
<1>6. /\ IsWorld(x) /\ x.dm = Add(w.dm, d, -1) /\ Agree(Dbs, w.live, x.live, d) /\ x.live[d] = Closed
      /\ x.cur = (IF w.cur = NoObj THEN d ELSE w.cur) /\ x.disk = w.disk
      /\ x.trail = w.trail /\ x.dep = w.dep
  BY <1>3, <1>4, <1>5, RegisteredIs
<1> HIDE DEF x
<1>7. /\ x.live = [e \in Dbs |-> x.live[e]] /\ x.disk = [e \in FileDbs |-> x.disk[e]]
      /\ \A e \in FileDbs : x.disk[e] \in Disks(e)
  BY <1>5, <1>6 DEF Agree
<1>8. IsWorld(y) /\ (y.dep \/ Came(x, y, d, X))
  <2>1. CASE d \in FileDbs
    <3>1. Fine(d, x.disk[d], X)
      BY <1>5, <1>6, <2>1 DEF ClosedOK
    <3> QED
      BY <1>6, <1>7, <2>1, <3>1, ReadsFiles
  <2>2. CASE d \notin FileDbs
    <3>1. \A t \in Tables[d] : X[t] = {NoTable}
      BY <1>5, <2>2 DEF ClosedOK
    <3> QED
      BY <1>6, <1>7, <2>2, <3>1, ReadsMemory
  <2> QED
    BY <2>1, <2>2
<1>9. AddDb(World, d) = z
  BY <1>2 DEF WithSys
<1> HIDE DEF y, s
<1>10. Quiet(y, z) /\ z.dep = y.dep
  BY <1>8, WithSysIs DEF SysOnly
<1> HIDE DEF z
<1>11. IsWorld(z) /\ z.dm = y.dm /\ z.cur = y.cur /\ z.live = y.live /\ z.disk = y.disk /\ z.trail = y.trail
  BY <1>10 DEF Quiet
<1>12. ASSUME NEW k \in z.trail \ {disk},
              Restart([z EXCEPT !.dep = @ \/ k[d].schema # disk[d].schema], k, want)
       PROVE  CatalogInv'
  <2>1. z.dep \/ Passes(x, z, d, Rowed(d, disk[d]))
    BY <1>4, <1>6, <1>8, <1>10, <1>11 DEF Came, Passes
  <2> QED
    BY <1>1, <1>4, <1>6, <1>11, <1>12, <2>1, OpeningGone
<1>13. ASSUME Become(z, [want EXCEPT ![d] = Seen(z, d)]) PROVE CatalogInv'
  <2>1. CASE z.dep
    BY <1>11, <1>13, <2>1, BecomeIs
  <2>2. CASE ~z.dep
    <3>1. Came(x, y, d, X)
      BY <1>8, <1>10, <2>2
    <3>2. Settled(z, d) /\ \A u : View(z, d, u) = View(y, d, u)
      BY <1>10, <3>1, SettledQuiet DEF Came
    <3>3. \A t \in Tables[d] : View(z, d, t) \in want[d][t]
      BY <3>1, <3>2 DEF Came, X
    <3>4. /\ z.dm = Add(dm, d, -1) /\ z.cur = (IF cur = NoObj THEN d ELSE cur)
          /\ Agree(Dbs, live, z.live, d) /\ Agree(FileDbs, disk, z.disk, d)
      BY <1>4, <1>6, <1>11, <3>1 DEF Came, Agree
    <3> QED
      BY <1>1, <1>11, <1>13, <3>2, <3>3, <3>4, OpeningDone
  <2> QED
    BY <2>1, <2>2
<1> QED
  BY <1>1, <1>9, <1>12, <1>13 DEF Opens

-------------------------------------------------------------------------------
(* The theorems.                                                             *)

LEMMA CatalogInit ==
    ASSUME Init
    PROVE  CatalogInv /\ room \in Rooms
<1> DEFINE k == [d \in FileDbs |-> NoDisk]
           f == Fresh(k)
           w == World
           X == want
<1>1. /\ dm = f.dm /\ live = f.live /\ cur = f.cur /\ disk = f.disk
      /\ want = NothingWanted /\ room \in Rooms
  BY DEF Init, Started
<1>2. /\ f.live = [d \in Dbs |-> Closed] /\ f.cur = NoObj /\ f.disk = k
      /\ Managed(f.dm, {System}) /\ OpenDbs(f) = {}
  BY FreshIs
<1> HIDE DEF f
<1>3. /\ IsWorld(w) /\ w.dm = f.dm /\ w.live = [d \in Dbs |-> Closed] /\ w.cur = NoObj /\ w.disk = k
      /\ Managed(w.dm, {System})
  BY <1>1, <1>2, WorldIs
<1>4. X = [d \in Dbs |-> X[d]] /\ \A d \in Dbs : X[d] = [t \in Tables[d] |-> {NoTable}]
  BY <1>1 DEF NothingWanted
<1> HIDE DEF w, X
<1>5. OpenDbs(w) = {}
  BY <1>2, <1>3 DEF OpenDbs
<1>6. ASSUME NEW d \in FileDbs PROVE w.disk[d] = NoDisk /\ w.disk[d] \in Disks(d)
  BY <1>3, NoDiskIs
<1>7. ASSUME NEW d \in Dbs PROVE ClosedOK(w, d, X[d])
  <2> DEFINE Y == X[d]
  <2>1. w.live[d] = Closed /\ \A t \in Tables[d] : Y[t] = {NoTable}
    BY <1>3, <1>4
  <2> HIDE DEF Y
  <2>2. d \in FileDbs => ~w.disk[d].cut /\ Fine(d, w.disk[d], Y)
    BY <1>6, <2>1, NoDiskIs, NoDiskFine
  <2> QED
    BY <2>1, <2>2 DEF ClosedOK, Y
<1>8. /\ w.live = [d \in Dbs |-> w.live[d]] /\ w.disk = [d \in FileDbs |-> w.disk[d]]
      /\ {System} \union OpenDbs(w) = {System}
  BY <1>3, <1>5
<1>9. WorldOK(w, X)
  BY <1>3, <1>4, <1>5, <1>6, <1>7, <1>8 DEF WorldOK
<1> QED
  BY <1>1, <1>9 DEF CatalogInv, w, X

\* No statement changes the room of a behaviour.
LEMMA RoomKept ==
    ASSUME [Next]_vars
    PROVE  room' = room
<1>1. ASSUME NEW w, NEW wish, Become(w, wish) PROVE room' = room
  BY <1>1 DEF Become
<1>2. ASSUME NEW w, NEW k, NEW wish, Restart(w, k, wish) PROVE room' = room
  BY <1>1, <1>2 DEF Restart
<1>3. ASSUME NEW w, NEW d, NEW done, NEW between, Statement(w, d, done, between) PROVE room' = room
  BY <1>1, <1>2, <1>3 DEF Statement
<1>4. ASSUME NEW d, OpenDb(d) PROVE room' = room
  BY <1>1, <1>2, <1>4 DEF OpenDb, Opens
<1>5. ASSUME NEW d, CloseDatabase(d) \/ DropDb(d) \/ UseDb(d) PROVE room' = room
  BY <1>1, <1>3, <1>5 DEF CloseDatabase, DropDb, UseDb
<1>6. ASSUME NEW d, NEW t, CreateTable(d, t) \/ Insert(d, t) \/ DropTable(d, t) PROVE room' = room
  BY <1>1, <1>3, <1>6 DEF CreateTable, Insert, DropTable
<1>7. ASSUME NEW d, NEW t, NEW i, CreateIndex(d, t, i) \/ DropIndex(d, t, i) PROVE room' = room
  BY <1>3, <1>7 DEF CreateIndex, DropIndex
<1>8. Exit => room' = room
  BY <1>2 DEF Exit
<1>9. Departed \/ UNCHANGED vars => room' = room
  BY DEF Departed, vars
<1> QED
  BY <1>4, <1>5, <1>6, <1>7, <1>8, <1>9 DEF Next

LEMMA CatalogNext ==
    ASSUME CatalogInv, room \in Rooms, [Next]_vars
    PROVE  CatalogInv'
<1>1. ASSUME ~departed, NEW d \in Dbs, OpenDb(d) PROVE CatalogInv'
  BY <1>1, OpenDbIs
<1>2. ASSUME ~departed, NEW d \in Dbs, CloseDatabase(d) PROVE CatalogInv'
  BY <1>2, CloseDatabaseIs
<1>3. ASSUME ~departed, NEW d \in Dbs, DropDb(d) PROVE CatalogInv'
  BY <1>3, DropDbIs
<1>4. ASSUME ~departed, NEW d \in Dbs, UseDb(d) PROVE CatalogInv'
  BY <1>4, UseDbIs
<1>5. ASSUME ~departed, NEW d \in Dbs, NEW t \in Tables[d], CreateTable(d, t) PROVE CatalogInv'
  BY <1>5, CreateTableIs
<1>6. ASSUME ~departed, NEW d \in Dbs, NEW t \in Tables[d], Insert(d, t) PROVE CatalogInv'
  BY <1>6, InsertIs
<1>7. ASSUME ~departed, NEW d \in Dbs, NEW t \in Tables[d], DropTable(d, t) PROVE CatalogInv'
  BY <1>7, DropTableIs
<1>8. ASSUME ~departed, NEW d \in Dbs, NEW t \in Tables[d], NEW i \in Indexes, CreateIndex(d, t, i)
      PROVE  CatalogInv'
  BY <1>8, CreateIndexIs
<1>9. ASSUME ~departed, NEW d \in Dbs, NEW t \in Tables[d], NEW i \in Indexes, DropIndex(d, t, i)
      PROVE  CatalogInv'
  BY <1>9, DropIndexIs
<1>10. ASSUME ~departed, Exit PROVE CatalogInv'
  BY <1>10, ExitIs
<1>11. ASSUME Departed \/ UNCHANGED vars PROVE CatalogInv'
  <2>1. UNCHANGED vars
    BY <1>11 DEF Departed
  <2>2. World' = World /\ want' = want /\ departed' = departed
    BY <2>1 DEF vars, World
  <2> QED
    BY <2>2 DEF CatalogInv
<1> QED
  BY <1>1, <1>2, <1>3, <1>4, <1>5, <1>6, <1>7, <1>8, <1>9, <1>10, <1>11 DEF Next

\* However many databases, tables and indexes there are: until a departure, the
\* managers of xdb_objm.c are sound, an open database is what the statements made
\* of it and its files describe it, and what the schema file of a closed one says
\* is what the client may expect of it.
THEOREM CatalogInvariant == Spec => [](CatalogInv /\ room \in Rooms)
<1>1. Init => CatalogInv /\ room \in Rooms
  BY CatalogInit
<1>2. CatalogInv /\ room \in Rooms /\ [Next]_vars => (CatalogInv /\ room \in Rooms)'
  BY CatalogNext, RoomKept
<1> QED
  BY <1>1, <1>2, PTL DEF Spec

\* Every table of an open database is found by its name, is what the statements
\* made of it, with the indexes that find its row, and is listed once by its
\* manager; after a restart or a death in a statement too, when xdb_source has
\* executed the schema file.
THEOREM CatalogIsExact == Spec => []CatalogExact
<1>1. CatalogInv => CatalogExact
  <2> SUFFICES ASSUME CatalogInv, ~departed, NEW d \in Opened
               PROVE  /\ \A t \in Tables[d] : want[d][t] = {View(World, d, t)}
                      /\ Range(Listed(Tm(World, d))) = Known(Tm(World, d))
                      /\ IsInjective(Listed(Tm(World, d)))
    BY DEF CatalogExact
  <2>1. OpenOK(World, d, want[d]) /\ \A t \in Tables[d] : want[d][t] = {View(World, d, t)}
    BY OpenedIs
  <2>2. Managed(Tm(World, d), Loaded(World, d))
    BY <2>1 DEF OpenOK, Held, Sound
  <2>3. Known(Tm(World, d)) = Loaded(World, d)
    BY <2>2, GetIs
  <2>4. Range(Listed(Tm(World, d))) = Loaded(World, d) /\ IsInjective(Listed(Tm(World, d)))
    BY <2>2, ListedOnce
  <2> QED
    BY <2>1, <2>3, <2>4
<1> QED
  BY <1>1, CatalogInvariant, PTL

\* A file that holds a row belongs to the table of that row, under the id that its
\* open database, or the schema file of a closed one, gives the table: a dropped
\* table leaves no rows to the table that xdb_objm_add gives its id to.
THEOREM CatalogOrphansEmpty == Spec => []OrphansEmpty
<1>1. CatalogInv => OrphansEmpty
  <2> SUFFICES ASSUME CatalogInv, ~departed, NEW d \in FileDbs, NEW f \in DOMAIN disk[d].files,
                      disk[d].files[f].row # NoRow
               PROVE  \E e \in Range(IF d \in Opened THEN Dump(World, d) ELSE disk[d].schema) :
                          e.id = f /\ e.name = disk[d].files[f].row
    BY DEF OrphansEmpty
  <2> DEFINE q == disk[d]
  <2>1. WorldOK(World, want) /\ d \in Dbs
    BY CatalogAssumption DEF CatalogInv
  <2>2. q \in Disks(d)
    BY <2>1, WorldIs DEF WorldOK
  <2> HIDE DEF q
  <2>3. f \in DOMAIN q.files /\ f \in Nat /\ q.files[f].row = RowAt(q, f) /\ RowAt(q, f) # NoRow
    BY <2>2 DEF Disks, FileSets, RowAt, q
  <2>4. ASSUME d \in Opened
        PROVE  \E e \in Range(Dump(World, d)) : e.id = f /\ e.name = RowAt(q, f)
    <3>1. OpenOK(World, d, want[d])
      BY <2>4, OpenedIs
    <3>2. PICK t \in Loaded(World, d) : FileId(World, d, t) = f /\ RowAt(q, f) = t
      BY <2>3, <3>1, WorldIs DEF OpenOK, Owned, OwnedBy, q
    <3> DEFINE s == Dump(World, d)
    <3>3. s \in Schemas(d) /\ Describes(World, d, s)
      BY <2>1, <3>1, DumpIs DEF OpenOK, Held
    <3> HIDE DEF s
    <3>4. PICK k \in DOMAIN s : s[k].name = t
      BY <3>2, <3>3 DEF Describes, NamesIn
    <3>5. s[k].id = f
      BY <3>2, <3>3, <3>4 DEF Describes, EntryOf
    <3>6. s[k] \in Range(s)
      BY DEF Range
    <3> QED
      BY <3>2, <3>4, <3>5, <3>6 DEF s
  <2>5. ASSUME d \notin Opened
        PROVE  \E e \in Range(q.schema) : e.id = f /\ e.name = RowAt(q, f)
    <3>1. d \in Dbs \ OpenDbs(World)
      BY <2>1, <2>5, WorldIs DEF Opened, OpenDbs
    <3>2. Fine(d, q, want[d])
      BY <2>1, <3>1, WorldIs DEF WorldOK, ClosedOK, q
    <3>3. PICK k \in DOMAIN q.schema : q.schema[k].id = f /\ q.schema[k].name = RowAt(q, f)
      BY <2>3, <3>2 DEF Fine
    <3>4. q.schema[k] \in Range(q.schema)
      BY DEF Range
    <3> QED
      BY <3>3, <3>4
  <2> QED
    BY <2>3, <2>4, <2>5 DEF q
<1> QED
  BY <1>1, CatalogInvariant, PTL
===============================================================================
