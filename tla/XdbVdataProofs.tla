---------------------------- MODULE XdbVdataProofs ----------------------------
(***************************************************************************)
(* Proofs about the strings of rows (core/xdb_vdata.c and its callers),    *)
(* for any number of rows, blocks, size classes and strings: a block holds *)
(* the string of its one row, counts those that need it, and is on the     *)
(* free list of its class once when nobody does.                           *)
(***************************************************************************)
EXTENDS XdbVdata, FiniteSetTheorems, SequenceTheorems, TLAPS

-------------------------------------------------------------------------------
(* The inductive invariant.                                                 *)

\* s runs through the set F once, as the links lk have it: hd is its first
\* member, tl its last, whose link is 0.
Follows(n, s, F, hd, tl, lk) ==
    /\ s \in [1..n -> F]
    /\ \A i \in F : \E j \in 1..n : s[j] = i
    /\ \A i, j \in 1..n : s[i] = s[j] => i = j
    /\ IF n = 0 THEN hd = 0 /\ tl = 0
                ELSE hd = s[1] /\ tl = s[n] /\ lk[s[n]] = 0
    /\ \A i \in 1..(n - 1) : lk[s[i]] = s[i + 1]
IsList(F, hd, tl, lk) == \E n \in Nat : \E s \in [1..n -> F] : Follows(n, s, F, hd, tl, lk)

Links(c) == [i \in 1..MaxBlocks |-> word[<<c, i>>].link]

Repairing == stage[1] \in {"rows", "clean"}
Updating == stage[1] \in {"copy", "old", "held"}

\* The blocks a repair has still to look at.
Pending == IF stage[1] = "rows" THEN VBlocks
           ELSE IF stage[1] = "clean" THEN stage[2] ELSE {}

\* The blocks of class c that its list must hold.
Spare(c) == {i \in 1..MaxBlocks : i <= top[c] /\ word[<<c, i>>].use = 0 /\ <<c, i>> \notin Pending}

Owned(b) == \E r \in RowIds : rows[r].block = b

StoreTypes ==
    /\ word \in [VBlocks -> [use : Nat, link : Nat, text : Texts \union {NoText}]]
    /\ first \in [Classes -> Nat] /\ last \in [Classes -> Nat] /\ top \in [Classes -> 0..MaxBlocks]
    /\ opened \subseteq Classes

Types ==
    /\ {memory, dirty} \subseteq BOOLEAN
    /\ StoreTypes
    /\ rows \in [RowIds -> [ctrl : {"free", "trans", "commit"}, block : VBlocks \union {NoBlock},
                            says : Texts \union {NoText}]]
    /\ new \subseteq RowIds /\ del \subseteq RowIds
    /\ stage \in {<<"idle">>, <<"old">>, <<"held">>, <<"walk">>, <<"rows">>}
                 \union ({"refused"} \X VBlocks) \union ({"copy"} \X BOOLEAN)
                 \union ({"clean"} \X SUBSET VBlocks)
    /\ upd \in [row : RowIds \union {0}, block : VBlocks \union {NoBlock}, gone : BOOLEAN]

Trans == {r \in RowIds : rows[r].ctrl = "trans"}

RowsOK ==
    /\ \A r \in RowIds : rows[r].block # NoBlock =>
           /\ rows[r].block[2] <= top[rows[r].block[1]]
           /\ word[rows[r].block].text = rows[r].says
    /\ \A q, r \in RowIds : rows[q].block = rows[r].block /\ rows[r].block # NoBlock => q = r
    /\ \A r \in RowIds : rows[r].ctrl = "free" => rows[r] = FreeSlot

\* what a rollback frees
TransOK ==
    Trans \subseteq IF stage[1] = "walk" THEN del
                    ELSE IF stage[1] = "old" THEN new \union {upd.row} ELSE new

UpdateOK ==
    /\ ~Updating => upd = NoUpdate
    /\ upd.block # NoBlock => upd.block[1] \in opened /\ upd.block[2] <= top[upd.block[1]]
    /\ stage[1] \in {"copy", "old"} =>
           /\ upd.row \in RowIds /\ rows[upd.row].ctrl # "free" /\ rows[upd.row].block = upd.block
           /\ rows[upd.row].ctrl = "trans" => upd.gone

RefusedOK ==
    stage[1] = "refused" =>
        stage[2][1] \in opened /\ stage[2][2] <= top[stage[2][1]] /\ ~Owned(stage[2])

RepairOK ==
    /\ dirty => ~memory
    /\ Repairing => ~memory /\ new = {} /\ \A c \in Classes : top[c] # 0 => c \in opened

UseOK ==
    \A b \in VBlocks : b[2] <= top[b[1]] =>
        LET u == word[b].use
        IN  IF stage[1] = "rows" THEN u \in {0, 15} /\ (Owned(b) => u = 15)
            ELSE IF stage[1] = "clean"
                 THEN u \in {0, 8, 15} /\ (u = 8 <=> Owned(b)) /\ (b \notin stage[2] => u # 15)
            ELSE IF Owned(b) THEN u = IF upd.block = b THEN 9 ELSE 8
            ELSE IF upd.block = b \/ stage = <<"refused", b>> THEN u = 8
            ELSE u = 0 \/ (memory /\ u = 8)

ListAt(c) == IsList(Spare(c), first[c], last[c], Links(c))
ListsOK == \A c \in Classes : ListAt(c)

Good == Types /\ RowsOK /\ TransOK /\ UpdateOK /\ RefusedOK /\ RepairOK /\ UseOK /\ ListsOK
IInv == /\ missed \in BOOLEAN
        /\ missed => stage[1] \in {"idle", "walk", "rows", "clean"}
        /\ ~missed => Good

-------------------------------------------------------------------------------
(* Lists, told without the state.                                           *)

\* A list without its first member is a list of the others.
LEMMA ListPopped ==
    ASSUME NEW F, F \subseteq Nat \ {0}, NEW hd, NEW tl, NEW lk, NEW lk2,
           IsList(F, hd, tl, lk), hd # 0,
           \A i \in F \ {hd} : lk2[i] = lk[i]
    PROVE  hd \in F /\ IsList(F \ {hd}, lk[hd], IF tl = hd THEN 0 ELSE tl, lk2)
<1>n. PICK n \in Nat : \E s \in [1..n -> F] : Follows(n, s, F, hd, tl, lk)
  BY DEF IsList
<1>s. PICK s \in [1..n -> F] : Follows(n, s, F, hd, tl, lk)
  BY <1>n
<1>1. n # 0 /\ hd = s[1] /\ tl = s[n] /\ lk[s[n]] = 0 /\ 1 \in 1..n /\ n \in 1..n
  BY <1>s DEF Follows
<1>2. /\ s \in [1..n -> F]
      /\ \A i, j \in 1..n : s[i] = s[j] => i = j
      /\ \A i \in 1..(n - 1) : lk[s[i]] = s[i + 1]
      /\ \A i \in F : \E j \in 1..n : s[j] = i
  BY <1>s DEF Follows
<1> DEFINE m == n - 1
           z == [i \in 1..m |-> s[i + 1]]
<1>3. m \in Nat /\ \A i \in 1..m : i \in 1..n /\ i + 1 \in 1..n /\ i + 1 # 1
  BY <1>1
<1>4. \A i \in 1..m : z[i] = s[i + 1] /\ z[i] \in F \ {hd}
  BY <1>1, <1>2, <1>3
<1>5. z \in [1..m -> F \ {hd}]
  BY <1>4
<1>6. ASSUME NEW i \in F \ {hd} PROVE \E j \in 1..m : z[j] = i
  <2>1. PICK j \in 1..n : s[j] = i
    BY <1>2
  <2>2. j # 1
    BY <1>1, <2>1
  <2>3. j - 1 \in 1..m /\ (j - 1) + 1 = j
    BY <2>2
  <2> QED
    BY <1>4, <2>1, <2>3
<1>7. ASSUME NEW i \in 1..m, NEW j \in 1..m, z[i] = z[j] PROVE i = j
  <2>1. i + 1 = j + 1
    BY <1>2, <1>3, <1>4, <1>7
  <2> QED
    BY <2>1
<1>8. ASSUME NEW i \in 1..(m - 1) PROVE lk2[z[i]] = z[i + 1]
  <2>1. i \in 1..m /\ i + 1 \in 1..m /\ i + 1 \in 1..(n - 1)
    BY <1>3
  <2>2. lk[s[i + 1]] = s[(i + 1) + 1]
    BY <1>2, <2>1
  <2> QED
    BY <1>4, <2>1, <2>2
<1>9. IF m = 0 THEN lk[hd] = 0 /\ (IF tl = hd THEN 0 ELSE tl) = 0
      ELSE lk[hd] = z[1] /\ (IF tl = hd THEN 0 ELSE tl) = z[m] /\ lk2[z[m]] = 0
  <2>1. CASE m = 0
    BY <1>1, <2>1
  <2>2. CASE m # 0
    <3>1. 1 \in 1..m /\ m \in 1..m /\ 1 \in 1..(n - 1) /\ m + 1 = n
      BY <1>3, <2>2
    <3>2. lk[s[1]] = s[1 + 1]
      BY <1>2, <3>1
    <3>3. z[1] = s[1 + 1] /\ z[m] = s[n] /\ z[m] \in F \ {hd}
      BY <1>4, <3>1
    <3>4. tl # hd
      BY <1>1, <3>3
    <3> QED
      BY <1>1, <2>2, <3>2, <3>3, <3>4
  <2> QED
    BY <2>1, <2>2
<1>10. Follows(m, z, F \ {hd}, lk[hd], IF tl = hd THEN 0 ELSE tl, lk2)
  <2> HIDE DEF m, z
  <2> QED
    BY <1>5, <1>6, <1>7, <1>8, <1>9 DEF Follows
<1>11. hd \in F
  BY <1>1, <1>2
<1> QED
  BY <1>3, <1>5, <1>10, <1>11 DEF IsList

\* The links lk2 are lk with r put behind the last member tl of F.
Appended(F, tl, lk, lk2, r) ==
    /\ F \subseteq Nat \ {0} /\ r \in Nat \ {0} /\ r \notin F
    /\ lk2[r] = 0
    /\ tl # 0 => lk2[tl] = r
    /\ \A i \in F \ {tl} : lk2[i] = lk[i]

\* A list with one more at its end.
LEMMA ListLinked ==
    ASSUME NEW F, NEW hd, NEW tl, NEW lk, NEW lk2, NEW r,
           IsList(F, hd, tl, lk), Appended(F, tl, lk, lk2, r)
    PROVE  IsList(F \union {r}, IF tl = 0 THEN r ELSE hd, r, lk2)
<1> DEFINE G == F \union {r}
           hd2 == IF tl = 0 THEN r ELSE hd
<1> USE DEF Appended
<1>n. PICK n \in Nat : \E s \in [1..n -> F] : Follows(n, s, F, hd, tl, lk)
  BY DEF IsList
<1>s. PICK s \in [1..n -> F] : Follows(n, s, F, hd, tl, lk)
  BY <1>n
<1>1. /\ s \in [1..n -> F]
      /\ \A i, j \in 1..n : s[i] = s[j] => i = j
      /\ \A i \in 1..(n - 1) : lk[s[i]] = s[i + 1]
      /\ \A i \in F : \E j \in 1..n : s[j] = i
  BY <1>s DEF Follows
<1>2. IF n = 0 THEN hd = 0 /\ tl = 0 ELSE hd = s[1] /\ tl = s[n] /\ 1 \in 1..n /\ n \in 1..n
  BY <1>s DEF Follows
<1>3. n # 0 => tl \in F /\ tl # 0
  BY <1>1, <1>2
<1> DEFINE m == n + 1
           z == [i \in 1..m |-> IF i = m THEN r ELSE s[i]]
<1>4. m \in Nat /\ m # 0 /\ m \in 1..m /\ \A i \in 1..m : i # m => i \in 1..n
  OBVIOUS
<1>5. /\ z[m] = r
      /\ \A i \in 1..n : i \in 1..m /\ i # m /\ z[i] = s[i] /\ s[i] \in F /\ s[i] # r
  BY <1>1
<1>6. z \in [1..m -> G]
  BY <1>1, <1>4
<1> HIDE DEF z
<1>7. ASSUME NEW i \in G PROVE \E j \in 1..m : z[j] = i
  <2>1. CASE i = r
    BY <1>4, <1>5, <2>1
  <2>2. CASE i \in F
    <3>1. PICK j \in 1..n : s[j] = i
      BY <1>1, <2>2
    <3> QED
      BY <1>5, <3>1
  <2> QED
    BY <2>1, <2>2
<1>8. ASSUME NEW i \in 1..m, NEW j \in 1..m, z[i] = z[j] PROVE i = j
  <2>1. CASE i = m /\ j = m
    BY <2>1
  <2>2. CASE i # m /\ j # m
    BY <1>1, <1>4, <1>5, <1>8, <2>2
  <2>3. CASE i = m /\ j # m
    BY <1>4, <1>5, <1>8, <2>3
  <2>4. CASE i # m /\ j = m
    BY <1>4, <1>5, <1>8, <2>4
  <2> QED
    BY <2>1, <2>2, <2>3, <2>4
<1>9. ASSUME NEW i \in 1..(m - 1) PROVE lk2[z[i]] = z[i + 1]
  <2>1. i \in 1..n /\ n # 0 /\ n \in 1..n
    OBVIOUS
  <2>2. CASE i = n
    <3>1. z[i] = tl /\ z[i + 1] = r
      BY <1>2, <1>5, <2>1, <2>2
    <3> QED
      BY <1>3, <2>1, <3>1
  <2>3. CASE i # n
    <3>1. i + 1 \in 1..n /\ i \in 1..(n - 1)
      BY <2>1, <2>3
    <3>2. z[i] = s[i] /\ z[i + 1] = s[i + 1] /\ s[i] \in F
      BY <1>5, <2>1, <3>1
    <3>3. s[i] # tl
      BY <1>1, <1>2, <2>1, <2>3
    <3>4. lk2[s[i]] = lk[s[i]]
      BY <3>2, <3>3
    <3>5. lk[s[i]] = s[i + 1]
      BY <1>1, <3>1
    <3> QED
      BY <3>2, <3>4, <3>5
  <2> QED
    BY <2>2, <2>3
<1>10. z[1] = hd2
  <2>1. CASE n = 0
    BY <1>2, <1>5, <2>1
  <2>2. CASE n # 0
    BY <1>2, <1>3, <1>5, <2>2
  <2> QED
    BY <2>1, <2>2
<1>11. Follows(m, z, G, hd2, r, lk2)
  <2> HIDE DEF m
  <2> QED
    BY <1>4, <1>5, <1>6, <1>7, <1>8, <1>9, <1>10 DEF Follows
<1> QED
  BY <1>4, <1>6, <1>11 DEF IsList

\* The same links among its members, the same list.
LEMMA ListKept ==
    ASSUME NEW F, NEW n \in Nat, NEW s, NEW hd, NEW tl, NEW lk, NEW lk2,
           Follows(n, s, F, hd, tl, lk), \A i \in F : lk2[i] = lk[i]
    PROVE  Follows(n, s, F, hd, tl, lk2)
<1>1. s \in [1..n -> F] /\ (n # 0 => n \in 1..n) /\ \A i \in 1..(n - 1) : i \in 1..n
  BY DEF Follows
<1>2. \A i \in 1..n : lk2[s[i]] = lk[s[i]]
  BY <1>1
<1> QED
  BY <1>1, <1>2 DEF Follows

\* No list is longer than there are numbers to be on it.
LEMMA ListShort ==
    ASSUME NEW N \in Nat, NEW F, F \subseteq 1..N, NEW n \in Nat, NEW s, NEW hd, NEW tl, NEW lk,
           Follows(n, s, F, hd, tl, lk)
    PROVE  n <= N
<1>1. s \in [1..n -> 1..N] /\ \A i, j \in 1..n : s[i] = s[j] => i = j
  BY DEF Follows
<1>2. IsFiniteSet(1..n) /\ Cardinality(1..n) = n /\ IsFiniteSet(1..N) /\ Cardinality(1..N) = N
  BY FS_Interval
<1>3. SUFFICES ASSUME N < n PROVE FALSE
  OBVIOUS
<1>4. \E x, y \in 1..n : x # y /\ s[x] = s[y]
  BY <1>1, <1>2, <1>3, FS_PigeonHole
<1> QED
  BY <1>1, <1>4

-------------------------------------------------------------------------------
(* What a reader of the list meets.                                         *)

\* A set of numbers has a least one.
LEMMA LeastNumber ==
    ASSUME NEW S, S \subseteq Nat, S # {}
    PROVE  \E m \in S : \A k \in S : m <= k
<1>1. PICK m \in S : \A k \in S : <<k, m>> \notin OpToRel(<, Nat)
  BY NatLessThanWellFounded, WFMin, Zenon
<1>2. ASSUME NEW k \in S PROVE ~(k < m)
  <2>1. k \in Nat /\ m \in Nat
    OBVIOUS
  <2> QED
    BY <1>1, <2>1 DEF OpToRel
<1>3. ASSUME NEW k \in S PROVE m <= k
  <2>1. k \in Nat /\ m \in Nat /\ ~(k < m)
    BY ONLY <1>2, S \subseteq Nat
  <2> QED
    BY ONLY <2>1
<1> QED
  BY ONLY <1>3

\* One step of the walk in ListOf, and its body for a function of prefixes.
Longer(c, s, n) ==
    LET i == IF n = 1 THEN first[c]
             ELSE IF Len(s) < n - 1 THEN 0 ELSE word[<<c, s[n - 1]>>].link
    IN  IF i = 0 THEN s ELSE Append(s, i)
Walked(c, w) == [n \in 0..(MaxBlocks + 1) |-> IF n = 0 THEN <<>> ELSE Longer(c, w[n - 1], n)]

LEMMA ListDef == \A c : ListOf(c) = (CHOOSE w : w = Walked(c, w))[MaxBlocks + 1]
BY DEF ListOf, Walked, Longer

\* There is one walk: two would differ first at some prefix.
LEMMA WalkUnique ==
    ASSUME NEW c, NEW f, NEW g, f = Walked(c, f), g = Walked(c, g)
    PROVE  f = g
<1> DEFINE N == 0..(MaxBlocks + 1)
           S == {n \in N : f[n] # g[n]}
<1>1. MaxBlocks + 1 \in Nat
  BY VdataAssumption
<1>2. f = [n \in N |-> f[n]] /\ g = [n \in N |-> g[n]]
  BY DEF Walked
<1>3. S = {}
  <2>1. SUFFICES ASSUME S # {} PROVE FALSE
    OBVIOUS
  <2>2. S \subseteq Nat
    BY <1>1
  <2>3. PICK m \in S : \A k \in S : m <= k
    <3> HIDE DEF S
    <3> QED
      BY <2>1, <2>2, LeastNumber
  <2>4. m # 0
    BY <1>1 DEF Walked
  <2>5. m - 1 \in N /\ m - 1 \notin S
    BY <1>1, <2>3, <2>4
  <2>6. f[m - 1] = g[m - 1]
    BY <2>5
  <2>7. f[m] = Longer(c, f[m - 1], m) /\ g[m] = Longer(c, g[m - 1], m)
    BY <1>1, <2>3, <2>4 DEF Walked
  <2> QED
    BY <2>3, <2>6, <2>7
<1> QED
  BY <1>2, <1>3

\* It is the sequence that witnesses the list.
LEMMA ListIs ==
    ASSUME NEW c \in Classes, NEW n \in Nat, NEW s \in [1..n -> Spare(c)],
           Follows(n, s, Spare(c), first[c], last[c], Links(c))
    PROVE  ListOf(c) = s
<1>1. Spare(c) \subseteq 1..MaxBlocks /\ MaxBlocks \in Nat
  BY VdataAssumption DEF Spare
<1>2. n <= MaxBlocks
  BY <1>1, ListShort
<1>3. /\ IF n = 0 THEN first[c] = 0 ELSE first[c] = s[1] /\ word[<<c, s[n]>>].link = 0
      /\ \A i \in 1..(n - 1) : word[<<c, s[i]>>].link = s[i + 1]
      /\ \A i \in 1..n : s[i] \in 1..MaxBlocks
  <2>1. \A i \in 1..n : s[i] \in 1..MaxBlocks /\ Links(c)[s[i]] = word[<<c, s[i]>>].link
    BY <1>1 DEF Links
  <2>2. \A i \in 1..(n - 1) : i \in 1..n
    OBVIOUS
  <2>3. n # 0 => n \in 1..n
    OBVIOUS
  <2> QED
    BY <2>1, <2>2, <2>3 DEF Follows
<1> DEFINE N == MaxBlocks + 1
           Upto(k) == IF k < n THEN k ELSE n
           w == [k \in 0..N |-> [i \in 1..Upto(k) |-> s[i]]]
<1>4. ASSUME NEW k \in 0..N
      PROVE  /\ w[k] \in Seq(Nat) /\ Len(w[k]) = Upto(k)
             /\ \A i \in 1..Upto(k) : w[k][i] = s[i]
  <2>1. Upto(k) \in Nat /\ \A i \in 1..Upto(k) : i \in 1..n
    BY <1>1
  <2>2. \A i \in 1..Upto(k) : s[i] \in Nat
    BY <1>1, <2>1
  <2> QED
    BY <2>1, <2>2
<1> HIDE DEF w
<1>5. w[0] = <<>>
  BY <1>1, <1>4, EmptySeq
<1>6. ASSUME NEW k \in 1..N PROVE w[k] = Longer(c, w[k - 1], k)
  <2>0. k \in Nat /\ k # 0
    BY <1>1
  <2>1. k \in 0..N /\ k - 1 \in 0..N
    BY <1>1
  <2>2. CASE k <= n
    <3>1. (IF k = 1 THEN first[c] ELSE word[<<c, s[k - 1]>>].link) = s[k] /\ s[k] \in Nat /\ s[k] # 0
      <4>1. k \in 1..n /\ (k # 1 => k - 1 \in 1..(n - 1) /\ (k - 1) + 1 = k)
        BY <2>2
      <4> QED
        BY <1>1, <1>3, <4>1
    <3>2. Len(w[k - 1]) = k - 1 /\ (k # 1 => w[k - 1][k - 1] = s[k - 1])
      <4>1. Upto(k - 1) = k - 1 /\ (k # 1 => k - 1 \in 1..(k - 1))
        BY <2>0, <2>2
      <4> QED
        BY <1>4, <2>1, <4>1
    <3>3. Longer(c, w[k - 1], k) = Append(w[k - 1], s[k])
      <4>1. CASE k = 1
        BY <3>1, <4>1 DEF Longer
      <4>2. CASE k # 1
        <5>1. ~(Len(w[k - 1]) < k - 1)
          BY <2>0, <3>2
        <5> QED
          BY <3>1, <3>2, <4>2, <5>1 DEF Longer
      <4> QED
        BY <4>1, <4>2
    <3>4. /\ Append(w[k - 1], s[k]) \in Seq(Nat) /\ Len(Append(w[k - 1], s[k])) = k
          /\ \A i \in 1..k : Append(w[k - 1], s[k])[i] = s[i]
      <4>1. w[k - 1] \in Seq(Nat) /\ Len(w[k - 1]) = k - 1 /\ s[k] \in Nat
        BY <1>4, <2>1, <3>1, <3>2
      <4>2. \A i \in 1..(k - 1) : w[k - 1][i] = s[i]
        BY <1>4, <2>1, <2>2
      <4>3. ASSUME NEW u \in Seq(Nat), Len(u) = k - 1, \A i \in 1..(k - 1) : u[i] = s[i]
            PROVE  /\ Append(u, s[k]) \in Seq(Nat) /\ Len(Append(u, s[k])) = k
                   /\ \A i \in 1..k : Append(u, s[k])[i] = s[i]
        <5>1. Append(u, s[k]) \in Seq(Nat) /\ Len(Append(u, s[k])) = k
          BY <2>0, <4>1, <4>3
        <5>2. \A i \in 1..(k - 1) : Append(u, s[k])[i] = u[i]
          BY <2>0, <4>3
        <5>3. Append(u, s[k])[k] = s[k]
          BY <2>0, <4>3
        <5>4. \A i \in 1..k : i \in 1..(k - 1) \/ i = k
          BY <2>0
        <5> QED
          BY <4>3, <5>1, <5>2, <5>3, <5>4
      <4> QED
        BY <4>1, <4>2, <4>3
    <3>5. Len(w[k]) = k /\ w[k] \in Seq(Nat) /\ \A i \in 1..k : w[k][i] = s[i]
      <4>1. Upto(k) = k
        BY <2>0, <2>2
      <4> QED
        BY <1>4, <2>1, <4>1
    <3>6. ASSUME NEW u \in Seq(Nat), Len(u) = k, \A i \in 1..k : u[i] = s[i]
          PROVE  w[k] = u
      <4>1. Len(w[k]) = Len(u) /\ \A i \in 1..Len(w[k]) : w[k][i] = u[i]
        BY <3>5, <3>6
      <4> QED
        BY ONLY <3>5, <4>1, u \in Seq(Nat), SeqEqual
    <3> QED
      BY <3>3, <3>4, <3>6
  <2>3. CASE ~(k <= n)
    <3>1. Len(w[k - 1]) = n /\ (n = k - 1 /\ k # 1 => w[k - 1][k - 1] = s[k - 1])
      <4>1. Upto(k - 1) = n
        <5>1. ~(k - 1 < n) \/ k - 1 = n
          BY <2>0, <2>3
        <5> QED
          BY <5>1
      <4>2. n = k - 1 /\ k # 1 => k - 1 \in 1..n
        BY <2>0
      <4> QED
        BY <1>4, <2>1, <4>1, <4>2
    <3>2. n = k - 1 /\ k # 1 => word[<<c, s[k - 1]>>].link = 0
      BY <1>3, <2>1, <2>3
    <3>3. k = 1 => first[c] = 0
      BY <1>3, <2>3
    <3>4. Longer(c, w[k - 1], k) = w[k - 1]
      BY <2>1, <2>3, <3>1, <3>2, <3>3 DEF Longer
    <3>5. /\ Len(w[k]) = n /\ w[k] \in Seq(Nat) /\ w[k - 1] \in Seq(Nat)
          /\ \A i \in 1..n : w[k][i] = w[k - 1][i]
      BY <1>4, <2>1, <2>3
    <3> QED
      BY <3>1, <3>4, <3>5, SeqEqual
  <2> QED
    BY <2>2, <2>3
<1>7. w = Walked(c, w)
  <2>1. w = [k \in 0..N |-> w[k]]
    BY DEF w
  <2>2. ASSUME NEW k \in 0..N
        PROVE  w[k] = IF k = 0 THEN <<>> ELSE Longer(c, w[k - 1], k)
    BY <1>1, <1>5, <1>6
  <2> QED
    BY <2>1, <2>2 DEF Walked
<1>8. (CHOOSE v : v = Walked(c, v)) = w
  BY <1>7, WalkUnique
<1>9. w[N] = s
  BY <1>1, <1>2 DEF w
<1> QED
  BY <1>8, <1>9, ListDef

-------------------------------------------------------------------------------
(* The invariant says what the run checks.                                  *)

\* The null of a row is not the pair of a class and a number.
LEMMA NoBlockIsNone == NoBlock \notin VBlocks /\ NoUpdate.block = NoBlock
<1>1. NoBlock \in Seq(Nat) /\ Len(NoBlock) = 0
  BY DEF NoBlock
<1>2. ASSUME NoBlock \in VBlocks PROVE FALSE
  <2>1. PICK c \in Classes, i \in 1..MaxBlocks : NoBlock = <<c, i>>
    BY <1>2 DEF VBlocks
  <2>2. Len(<<c, i>>) = 2
    OBVIOUS
  <2> QED
    BY <1>1, <2>1, <2>2
<1> QED
  BY <1>2 DEF NoUpdate

\* Who needs a block: at most one row, and the UPDATE that holds it.
LEMMA NeedsAre ==
    ASSUME RowsOK, NEW b \in VBlocks
    PROVE  /\ Cardinality({r \in Needs(b) : r # 0}) <= 1
           /\ Cardinality(Needs(b)) = (IF Owned(b) THEN 1 ELSE 0) + (IF upd.block = b THEN 1 ELSE 0)
           /\ Needs(b) = {} <=> ~Owned(b) /\ upd.block # b
           /\ \A r \in Needs(b) \ {0} : r \in RowIds /\ rows[r].block = b
<1> DEFINE R == {r \in RowIds : rows[r].block = b}
           U == {0 : h \in {upd.block} \cap {b}}
<1>1. Needs(b) = R \union U
  BY DEF Needs
<1>2. 0 \notin RowIds
  BY DEF RowIds
<1>3. U = IF upd.block = b THEN {0} ELSE {}
  OBVIOUS
<1>4. Owned(b) <=> R # {}
  BY DEF Owned
<1>5. ASSUME NEW q \in R, NEW r \in R PROVE q = r
  BY NoBlockIsNone DEF RowsOK
<1>6. R = {} \/ \E r \in RowIds : R = {r}
  BY <1>5
<1> HIDE DEF R, U
<1>7. {r \in Needs(b) : r # 0} = R
  <2>1. 0 \notin R
    BY <1>2 DEF R
  <2> QED
    BY <1>1, <1>3, <2>1
<1>8. IsFiniteSet(R) /\ Cardinality(R) = IF R = {} THEN 0 ELSE 1
  BY <1>6, FS_EmptySet, FS_Singleton
<1>9. Cardinality(R \union U) = (IF R = {} THEN 0 ELSE 1) + (IF upd.block = b THEN 1 ELSE 0)
  <2>1. CASE upd.block = b
    <3>1. 0 \notin R
      BY <1>2 DEF R
    <3>2. Cardinality(R \union {0}) = Cardinality(R) + 1
      BY <1>8, <3>1, FS_AddElement
    <3> QED
      BY <1>3, <1>8, <2>1, <3>2
  <2>2. CASE upd.block # b
    <3>1. R \union U = R
      BY <1>3, <2>2
    <3> QED
      BY <1>8, <2>2, <3>1
  <2> QED
    BY <2>1, <2>2
<1>10. Cardinality({r \in Needs(b) : r # 0}) <= 1
  BY <1>7, <1>8
<1>11. Needs(b) = {} <=> ~Owned(b) /\ upd.block # b
  BY <1>1, <1>3, <1>4
<1>12. \A r \in Needs(b) \ {0} : r \in RowIds /\ rows[r].block = b
  BY <1>7 DEF R
<1> QED
  BY <1>1, <1>4, <1>9, <1>10, <1>11, <1>12

\* A spare block is on the list of its class once, another one is not on it.
LEMMA OnListOnce ==
    ASSUME ListsOK, NEW c \in Classes, NEW i \in 1..MaxBlocks
    PROVE  Cardinality({k \in DOMAIN ListOf(c) : ListOf(c)[k] = i}) = IF i \in Spare(c) THEN 1 ELSE 0
<1>n. PICK n \in Nat : \E s \in [1..n -> Spare(c)] : Follows(n, s, Spare(c), first[c], last[c], Links(c))
  BY DEF ListsOK, ListAt, IsList
<1>1. PICK s \in [1..n -> Spare(c)] : Follows(n, s, Spare(c), first[c], last[c], Links(c))
  BY <1>n
<1>2. ListOf(c) = s /\ DOMAIN s = 1..n
  BY <1>1, ListIs
<1>3. /\ \A k \in 1..n : s[k] \in Spare(c)
      /\ \A j \in Spare(c) : \E k \in 1..n : s[k] = j
      /\ \A j, k \in 1..n : s[j] = s[k] => j = k
  BY <1>1 DEF Follows
<1> DEFINE K == {k \in DOMAIN ListOf(c) : ListOf(c)[k] = i}
<1>4. K = {k \in 1..n : s[k] = i}
  BY <1>2
<1>5. CASE i \in Spare(c)
  <2>1. PICK k \in 1..n : s[k] = i
    BY <1>3, <1>5
  <2>2. K = {k}
    BY <1>3, <1>4, <2>1
  <2> QED
    BY <1>5, <2>2, FS_Singleton
<1>6. CASE i \notin Spare(c)
  <2>1. K = {}
    BY <1>3, <1>4, <1>6
  <2> QED
    BY <1>6, <2>1, FS_EmptySet
<1> QED
  BY <1>5, <1>6

LEMMA InvariantSays == IInv => BlocksExact
<1> SUFFICES ASSUME IInv, ~missed, ~Repairing, NEW b \in VBlocks
             PROVE  LET free == {i \in DOMAIN ListOf(b[1]) : ListOf(b[1])[i] = b[2]}
                    IN  /\ Cardinality({r \in Needs(b) : r # 0}) <= 1
                        /\ Needs(b) # {} => /\ word[b].use = 7 + Cardinality(Needs(b))
                                            /\ free = {}
                        /\ \A r \in Needs(b) \ {0} : word[b].text = rows[r].says
                        /\ Needs(b) = {} /\ ~memory /\ b[2] <= top[b[1]] /\ stage # <<"refused", b>>
                              => Cardinality(free) = 1
                        /\ Cardinality(free) <= 1
  BY Zenon DEF BlocksExact, Repairing
<1> DEFINE c == b[1]
           i == b[2]
           free == {k \in DOMAIN ListOf(c) : ListOf(c)[k] = i}
<1>1. Good /\ c \in Classes /\ i \in 1..MaxBlocks /\ b = <<c, i>>
  BY DEF IInv, VBlocks
<1>2. Cardinality(free) = IF i \in Spare(c) THEN 1 ELSE 0
  BY <1>1, OnListOnce DEF Good
<1>3. /\ Cardinality({r \in Needs(b) : r # 0}) <= 1
      /\ Cardinality(Needs(b)) = (IF Owned(b) THEN 1 ELSE 0) + (IF upd.block = b THEN 1 ELSE 0)
      /\ Needs(b) = {} <=> ~Owned(b) /\ upd.block # b
      /\ \A r \in Needs(b) \ {0} : r \in RowIds /\ rows[r].block = b
  BY <1>1, NeedsAre DEF Good
<1>4. i \in Spare(c) <=> i <= top[c] /\ word[b].use = 0
  <2>1. Pending = {}
    BY DEF Pending, Repairing
  <2> QED
    BY <1>1, <2>1 DEF Spare
<1>5. i <= top[c] =>
         IF Owned(b) THEN word[b].use = IF upd.block = b THEN 9 ELSE 8
         ELSE IF upd.block = b \/ stage = <<"refused", b>> THEN word[b].use = 8
         ELSE word[b].use = 0 \/ (memory /\ word[b].use = 8)
  BY <1>1 DEF Good, UseOK, Repairing
<1>6. Owned(b) \/ upd.block = b => i <= top[c]
  BY <1>1, NoBlockIsNone DEF Good, RowsOK, UpdateOK, Owned
<1>7. Needs(b) # {} => word[b].use = 7 + Cardinality(Needs(b)) /\ Cardinality(free) = 0
  BY <1>2, <1>3, <1>4, <1>5, <1>6
<1>8. Cardinality(free) = 0 => free = {}
  <2>1. DOMAIN ListOf(c) \in {1..n : n \in Nat}
    <3>0. PICK n \in Nat : \E s \in [1..n -> Spare(c)] : Follows(n, s, Spare(c), first[c], last[c], Links(c))
      BY <1>1 DEF Good, ListsOK, ListAt, IsList
    <3>1. PICK s \in [1..n -> Spare(c)] : Follows(n, s, Spare(c), first[c], last[c], Links(c))
      BY <3>0
    <3>2. ListOf(c) = s
      BY <1>1, <3>1, ListIs
    <3> QED
      BY <3>2
  <2>2. IsFiniteSet(DOMAIN ListOf(c))
    BY <2>1, FS_Interval
  <2>3. IsFiniteSet(free)
    BY <2>2, FS_Subset
  <2> QED
    BY <2>3, FS_EmptySet
<1>9. \A r \in Needs(b) \ {0} : word[b].text = rows[r].says
  BY <1>1, <1>3, NoBlockIsNone DEF Good, RowsOK
<1>10. Needs(b) = {} /\ ~memory /\ i <= top[c] /\ stage # <<"refused", b>> => Cardinality(free) = 1
  BY <1>2, <1>3, <1>4, <1>5
<1> QED
  BY <1>1, <1>2, <1>3, <1>7, <1>8, <1>9, <1>10

-------------------------------------------------------------------------------
(* What the operations on a store do.                                       *)

\* A list whose ends, members and links stay is a list.
LEMMA ListStays ==
    ASSUME NEW c \in Classes, ListAt(c), first'[c] = first[c], last'[c] = last[c],
           Spare(c)' = Spare(c),
           \A i \in Spare(c) : word'[<<c, i>>].link = word[<<c, i>>].link
    PROVE  ListAt(c)'
<1>1. PICK n \in Nat : \E s \in [1..n -> Spare(c)] : Follows(n, s, Spare(c), first[c], last[c], Links(c))
  BY DEF ListAt, IsList
<1>2. PICK s \in [1..n -> Spare(c)] : Follows(n, s, Spare(c), first[c], last[c], Links(c))
  BY <1>1
<1>3. \A i \in Spare(c) : Links(c)'[i] = Links(c)[i]
  BY DEF Links, Spare
<1>4. Follows(n, s, Spare(c), first[c], last[c], Links(c)')
  BY <1>2, <1>3, ListKept
<1> QED
  BY <1>4 DEF ListAt, IsList

\* The blocks of another class.
LEMMA OtherClass ==
    ASSUME NEW b \in VBlocks, NEW c \in Classes, c # b[1], ListAt(c),
           first'[c] = first[c], last'[c] = last[c], top'[c] = top[c],
           \A i \in 1..MaxBlocks : /\ word'[<<c, i>>] = word[<<c, i>>]
                                   /\ <<c, i>> \in Pending' <=> <<c, i>> \in Pending
    PROVE  ListAt(c)'
<1>1. Spare(c)' = Spare(c)
  BY DEF Spare
<1> QED
  BY <1>1, ListStays DEF Spare

\* xdb_vdata_alloc gives a block that nobody has and that was free or is new.
LEMMA TakeGives ==
    ASSUME StoreTypes, ListsOK, Pending = {}, Pending' = {},
           NEW t \in Texts, NEW b \in VBlocks, Take(t, b)
    PROVE  /\ StoreTypes' /\ ListsOK'
           /\ \A x \in VBlocks : x[2] <= top'[x[1]] <=> x = b \/ x[2] <= top[x[1]]
           /\ b[2] <= top[b[1]] => word[b].use = 0
           /\ word' = [word EXCEPT ![b] = [use |-> 8, link |-> 0, text |-> t]]
           /\ opened' = opened \union {b[1]}
<1>0. PICK c \in Classes : \E i \in 1..MaxBlocks : b = <<c, i>>
  BY DEF VBlocks
<1>1. PICK i \in 1..MaxBlocks : b = <<c, i>>
  BY <1>0
<1>2. /\ word' = [word EXCEPT ![b] = [use |-> 8, link |-> 0, text |-> t]]
      /\ opened' = opened \union {c}
      /\ \/ /\ first[c] # 0 /\ i = first[c] /\ UNCHANGED top
            /\ first' = [first EXCEPT ![c] = word[b].link]
            /\ last' = [last EXCEPT ![c] = IF @ = i THEN 0 ELSE @]
         \/ /\ first[c] = 0 /\ i = top[c] + 1
            /\ top' = [top EXCEPT ![c] = i]
            /\ UNCHANGED <<first, last>>
  BY <1>1 DEF Take
<1>3. \A x \in VBlocks : word'[x] = IF x = b THEN [use |-> 8, link |-> 0, text |-> t] ELSE word[x]
  BY <1>2 DEF StoreTypes
<1>4. StoreTypes'
  <2>1. word' \in [VBlocks -> [use : Nat, link : Nat, text : Texts \union {NoText}]]
    BY <1>2 DEF StoreTypes
  <2>2. word[b].link \in Nat /\ i \in 0..MaxBlocks
    BY DEF StoreTypes
  <2>3. first' \in [Classes -> Nat] /\ last' \in [Classes -> Nat] /\ top' \in [Classes -> 0..MaxBlocks]
    BY <1>2, <2>2 DEF StoreTypes
  <2> QED
    BY <1>2, <2>1, <2>3 DEF StoreTypes
<1>5. ASSUME NEW d \in Classes, d # c PROVE ListAt(d)'
  <2>1. ListAt(d) /\ first'[d] = first[d] /\ last'[d] = last[d] /\ top'[d] = top[d] /\ d # b[1]
    BY <1>1, <1>2, <1>5 DEF StoreTypes, ListsOK
  <2>2. \A k \in 1..MaxBlocks : word'[<<d, k>>] = word[<<d, k>>]
    BY <1>1, <1>3, <1>5 DEF VBlocks
  <2> QED
    BY <2>1, <2>2, OtherClass
<1>6. \A k \in 1..MaxBlocks : <<c, k>> \in VBlocks /\ (k # i => <<c, k>> # b)
  BY <1>1 DEF VBlocks
<1>7. /\ ListAt(c)'
      /\ b[2] <= top[b[1]] => word[b].use = 0
      /\ \A x \in VBlocks : x[2] <= top'[x[1]] <=> x = b \/ x[2] <= top[x[1]]
  <2>1. IsList(Spare(c), first[c], last[c], Links(c))
    BY DEF ListsOK, ListAt
  <2>3. MaxBlocks \in Nat /\ Spare(c) \subseteq Nat \ {0}
    BY VdataAssumption DEF Spare
  <2>4. CASE first[c] # 0
    <3>1. /\ i = first[c] /\ top' = top /\ first'[c] = word[b].link
          /\ last'[c] = IF last[c] = i THEN 0 ELSE last[c]
      BY <1>2, <2>4 DEF StoreTypes
    <3>2. \A k \in Spare(c) \ {i} : Links(c)'[k] = Links(c)[k]
      BY <1>3, <1>6 DEF Links, Spare
    <3>3. /\ i \in Spare(c)
          /\ IsList(Spare(c) \ {i}, Links(c)[i], IF last[c] = i THEN 0 ELSE last[c], Links(c)')
      BY <2>1, <2>3, <2>4, <3>1, <3>2, ListPopped
    <3>4. Spare(c)' = Spare(c) \ {i}
      BY <1>1, <1>3, <1>6, <3>1 DEF Spare
    <3>5. Links(c)[i] = word[b].link
      BY <1>1 DEF Links
    <3>6. ListAt(c)'
      BY <3>1, <3>3, <3>4, <3>5 DEF ListAt
    <3>7. word[b].use = 0 /\ b[2] <= top[b[1]]
      BY <1>1, <3>3 DEF Spare
    <3> QED
      BY <3>1, <3>6, <3>7
  <2>5. CASE first[c] = 0
    <3>1. i = top[c] + 1 /\ top' = [top EXCEPT ![c] = i] /\ first' = first /\ last' = last
      BY <1>2, <2>5
    <3>2. top[c] \in Nat /\ top'[c] = i /\ \A d \in Classes : d # c => top'[d] = top[d]
      BY <3>1 DEF StoreTypes
    <3>3. Spare(c)' = Spare(c)
      BY <1>1, <1>3, <1>6, <3>1, <3>2 DEF Spare
    <3>4. \A k \in Spare(c) : k # i
      BY <3>1, <3>2 DEF Spare
    <3>5. \A k \in Spare(c) : word'[<<c, k>>].link = word[<<c, k>>].link
      BY <1>3, <1>6, <3>4 DEF Spare
    <3>6. ListAt(c)'
      BY <3>1, <3>3, <3>5, ListStays DEF ListsOK
    <3>7. ASSUME NEW x \in VBlocks PROVE x[2] <= top'[x[1]] <=> x = b \/ x[2] <= top[x[1]]
      <4>1. PICK d \in Classes : \E k \in 1..MaxBlocks : x = <<d, k>>
        BY DEF VBlocks
      <4>2. PICK k \in 1..MaxBlocks : x = <<d, k>>
        BY <4>1
      <4>3. CASE d = c
        BY <1>1, <3>1, <3>2, <4>2, <4>3
      <4>4. CASE d # c
        BY <1>1, <3>2, <4>2, <4>4
      <4> QED
        BY <4>3, <4>4
    <3>8. ~(b[2] <= top[b[1]])
      BY <1>1, <3>1, <3>2
    <3> QED
      BY <3>6, <3>7, <3>8
  <2> QED
    BY <2>4, <2>5
<1>8. ListsOK'
  BY <1>5, <1>7 DEF ListsOK
<1> QED
  BY <1>1, <1>2, <1>4, <1>7, <1>8

\* xdb_stg_free puts a block that is not on the list at its end.
LEMMA ReleaseGives ==
    ASSUME StoreTypes, ListsOK, NEW b \in VBlocks, b[2] <= top[b[1]],
           word[b].use # 0 \/ b \in Pending, Pending' = Pending \ {b}, Release(b)
    PROVE  /\ StoreTypes' /\ ListsOK' /\ UNCHANGED <<top, opened>>
           /\ \A x \in VBlocks : /\ word'[x].use = IF x = b THEN 0 ELSE word[x].use
                                 /\ x # b => word'[x].text = word[x].text
<1>0. PICK c \in Classes : \E i \in 1..MaxBlocks : b = <<c, i>>
  BY DEF VBlocks
<1>1. PICK i \in 1..MaxBlocks : b = <<c, i>>
  BY <1>0
<1>3. IsList(Spare(c), first[c], last[c], Links(c))
  BY DEF ListsOK, ListAt
<1>4. MaxBlocks \in Nat /\ Spare(c) \subseteq Nat \ {0} /\ Spare(c) \subseteq 1..MaxBlocks
  BY VdataAssumption DEF Spare
<1>5. i \notin Spare(c)
  BY <1>1 DEF Spare
<1>6. last[c] # 0 => last[c] \in Spare(c)
  BY <1>3 DEF IsList, Follows
<1>7. \A k \in 1..MaxBlocks : <<c, k>> \in VBlocks /\ (k # i => <<c, k>> # b)
  BY <1>1 DEF VBlocks
<1> DEFINE e == IF last[c] = 0 THEN i ELSE last[c]
           l == IF last[c] = 0 THEN 0 ELSE i
<1>8. e \in 1..MaxBlocks /\ <<c, e>> \in VBlocks /\ l \in Nat
  BY <1>4, <1>6, <1>7
<1>9. /\ word' = [[word EXCEPT ![b] = [use |-> 0, link |-> 0, text |-> NoText]] EXCEPT ![<<c, e>>].link = l]
      /\ first' = [first EXCEPT ![c] = IF last[c] = 0 THEN i ELSE @]
      /\ last' = [last EXCEPT ![c] = i]
      /\ UNCHANGED <<top, opened>>
  BY <1>1 DEF Release
<1> HIDE DEF e, l
<1>10. /\ word' \in [VBlocks -> [use : Nat, link : Nat, text : Texts \union {NoText}]]
       /\ \A x \in VBlocks :
             /\ word'[x].use = IF x = b THEN 0 ELSE word[x].use
             /\ x # b => word'[x].text = word[x].text
             /\ word'[x].link = IF x = <<c, e>> THEN l ELSE IF x = b THEN 0 ELSE word[x].link
             /\ x # b /\ x # <<c, e>> => word'[x] = word[x]
  <2> DEFINE v == [word EXCEPT ![b] = [use |-> 0, link |-> 0, text |-> NoText]]
  <2>1. v \in [VBlocks -> [use : Nat, link : Nat, text : Texts \union {NoText}]]
    BY DEF StoreTypes
  <2>2. \A x \in VBlocks : /\ x # b => v[x] = word[x]
                           /\ x = b => v[x].use = 0 /\ v[x].link = 0
    BY DEF StoreTypes
  <2> HIDE DEF v
  <2>3. word' = [v EXCEPT ![<<c, e>>].link = l]
    BY <1>9 DEF v
  <2>4. word' \in [VBlocks -> [use : Nat, link : Nat, text : Texts \union {NoText}]]
    BY <1>8, <2>1, <2>3
  <2>5. \A x \in VBlocks : /\ word'[x].use = v[x].use /\ word'[x].text = v[x].text
                           /\ x # <<c, e>> => word'[x] = v[x]
                           /\ x = <<c, e>> => word'[x].link = l
    BY <1>8, <2>1, <2>3
  <2> QED
    BY <2>2, <2>4, <2>5
<1>11. StoreTypes'
  <2>1. i \in Nat
    OBVIOUS
  <2>2. first' \in [Classes -> Nat] /\ last' \in [Classes -> Nat]
    BY <1>9, <2>1 DEF StoreTypes
  <2> QED
    BY <1>9, <1>10, <2>2 DEF StoreTypes
<1>12. ASSUME NEW d \in Classes, d # c PROVE ListAt(d)'
  <2>1. ListAt(d) /\ first'[d] = first[d] /\ last'[d] = last[d] /\ top'[d] = top[d] /\ d # b[1]
    BY <1>1, <1>9, <1>12 DEF StoreTypes, ListsOK
  <2>2. ASSUME NEW k \in 1..MaxBlocks
        PROVE  word'[<<d, k>>] = word[<<d, k>>] /\ (<<d, k>> \in Pending' <=> <<d, k>> \in Pending)
    <3>1. <<d, k>> \in VBlocks /\ <<d, k>> # b /\ <<d, k>> # <<c, e>>
      BY <1>1, <1>12 DEF VBlocks
    <3> QED
      BY <1>10, <3>1
  <2> QED
    BY <2>1, <2>2, OtherClass
<1>13. ListAt(c)'
  <2>1. Spare(c)' = Spare(c) \union {i}
    <3>1. ASSUME NEW k \in 1..MaxBlocks PROVE k \in Spare(c)' <=> k \in Spare(c) \/ k = i
      <4>1. CASE k = i
        BY <1>1, <1>7, <1>9, <1>10, <4>1 DEF Spare
      <4>2. CASE k # i
        BY <1>1, <1>7, <1>9, <1>10, <4>2 DEF Spare
      <4> QED
        BY <4>1, <4>2
    <3> QED
      BY <3>1 DEF Spare
  <2>2. first'[c] = (IF last[c] = 0 THEN i ELSE first[c]) /\ last'[c] = i
    BY <1>9 DEF StoreTypes
  <2>3. /\ Links(c)'[i] = 0
        /\ last[c] # 0 => Links(c)'[last[c]] = i
        /\ \A k \in Spare(c) \ {last[c]} : Links(c)'[k] = Links(c)[k]
    <3>1. \A k \in 1..MaxBlocks : Links(c)'[k] = word'[<<c, k>>].link /\ Links(c)[k] = word[<<c, k>>].link
      BY DEF Links
    <3>2. Links(c)'[i] = 0
      <4>1. b \in VBlocks /\ Links(c)'[i] = word'[b].link
        BY <1>1, <3>1
      <4>2. CASE last[c] = 0
        BY <1>1, <1>10, <4>1, <4>2 DEF e, l
      <4>3. CASE last[c] # 0
        <5>1. e # i /\ b # <<c, e>>
          BY <1>1, <1>5, <1>6, <4>3 DEF e
        <5> QED
          BY <1>10, <4>1, <5>1
      <4> QED
        BY <4>2, <4>3
    <3>3. last[c] # 0 => Links(c)'[last[c]] = i
      BY <1>4, <1>6, <1>7, <1>10, <3>1 DEF e, l
    <3>4. ASSUME NEW k \in Spare(c) \ {last[c]} PROVE Links(c)'[k] = Links(c)[k]
      <4>1. k # i /\ k # e /\ k \in 1..MaxBlocks
        BY <1>4, <1>5, <3>4 DEF e
      <4>2. <<c, k>> \in VBlocks /\ <<c, k>> # b /\ <<c, k>> # <<c, e>>
        BY <1>1, <1>7, <4>1
      <4> QED
        BY <1>10, <3>1, <4>1, <4>2
    <3> QED
      BY <3>2, <3>3, <3>4
  <2>4. i \in Nat \ {0}
    OBVIOUS
  <2>5. Appended(Spare(c), last[c], Links(c), Links(c)', i)
    BY <1>4, <1>5, <2>3, <2>4 DEF Appended
  <2>6. IsList(Spare(c) \union {i}, IF last[c] = 0 THEN i ELSE first[c], i, Links(c)')
    BY <1>3, <2>5, ListLinked
  <2> QED
    BY <2>1, <2>2, <2>6 DEF ListAt
<1>14. ListsOK'
  BY <1>12, <1>13 DEF ListsOK
<1> QED
  BY <1>9, <1>10, <1>11, <1>14

\* xdb_vdata_free of a block in use: one reference less.
LEMMA DropGives ==
    ASSUME StoreTypes, ListsOK, Pending = {}, Pending' = {}, ~missed',
           NEW b \in VBlocks, b[2] <= top[b[1]], word[b].use \in {8, 9}, Drop(b)
    PROVE  /\ StoreTypes' /\ ListsOK' /\ UNCHANGED <<top, opened>>
           /\ \A x \in VBlocks :
                 /\ word'[x].use = IF x # b THEN word[x].use ELSE IF word[b].use = 9 THEN 8 ELSE 0
                 /\ x # b \/ word[b].use = 9 => word'[x].text = word[x].text
<1>1. b # NoBlock
  BY NoBlockIsNone
<1>2. CASE word[b].use = 8
  <2>1. Release(b)
    BY <1>1, <1>2 DEF Drop
  <2>2. word[b].use # 0 \/ b \in Pending
    BY <1>2
  <2>3. Pending' = Pending \ {b}
    OBVIOUS
  <2>4. /\ StoreTypes' /\ ListsOK' /\ UNCHANGED <<top, opened>>
        /\ \A x \in VBlocks : /\ word'[x].use = IF x = b THEN 0 ELSE word[x].use
                              /\ x # b => word'[x].text = word[x].text
    BY <2>1, <2>2, <2>3, ReleaseGives
  <2> QED
    BY <1>2, <2>4
<1>3. CASE word[b].use = 9
  <2>1. word' = [word EXCEPT ![b].use = @ - 1] /\ UNCHANGED <<first, last, top, opened>>
    BY <1>1, <1>3 DEF Drop
  <2>2. /\ word' \in [VBlocks -> [use : Nat, link : Nat, text : Texts \union {NoText}]]
        /\ \A x \in VBlocks : /\ word'[x].use = IF x # b THEN word[x].use ELSE 8
                              /\ word'[x].text = word[x].text /\ word'[x].link = word[x].link
    BY <1>3, <2>1 DEF StoreTypes
  <2>3. StoreTypes'
    BY <2>1, <2>2 DEF StoreTypes
  <2>4. ASSUME NEW c \in Classes PROVE ListAt(c)'
    <3>1. \A i \in 1..MaxBlocks : <<c, i>> \in VBlocks
      BY DEF VBlocks
    <3>2. Spare(c)' = Spare(c)
      BY <1>3, <2>1, <2>2, <3>1 DEF Spare
    <3>3. \A i \in Spare(c) : word'[<<c, i>>].link = word[<<c, i>>].link
      BY <2>2, <3>1 DEF Spare
    <3> QED
      BY <2>1, <3>2, <3>3, ListStays DEF ListsOK
  <2> QED
    BY <1>3, <2>1, <2>2, <2>3, <2>4 DEF ListsOK
<1> QED
  BY <1>2, <1>3

-------------------------------------------------------------------------------
(* What the operations on a row do to it and to the blocks.                 *)

\* The number of a block in use is one that was given out.
LEMMA InUse ==
    ASSUME Types, RowsOK, UpdateOK, UseOK, ~Repairing, NEW b \in VBlocks,
           Owned(b) \/ upd.block = b
    PROVE  b[2] <= top[b[1]] /\ word[b].use = IF Owned(b) /\ upd.block = b THEN 9 ELSE 8
<1>1. b[2] <= top[b[1]]
  BY NoBlockIsNone DEF Owned, RowsOK, UpdateOK
<1> QED
  BY <1>1 DEF UseOK, Repairing

\* xdb_row_insert: a new row, with a block of its own if it has a string.
LEMMA PutRowGives ==
    ASSUME Types, RowsOK, UpdateOK, UseOK, ListsOK, ~Repairing, Pending = {}, Pending' = {},
           NEW r \in RowIds, NEW t \in Texts \union {NoText}, NEW fast \in BOOLEAN,
           PutRow(r, t, fast)
    PROVE  /\ StoreTypes' /\ ListsOK' /\ RowsOK' /\ opened \subseteq opened'
           /\ rows' \in [RowIds -> [ctrl : {"free", "trans", "commit"}, block : VBlocks \union {NoBlock},
                                    says : Texts \union {NoText}]]
           /\ rows[r].ctrl = "free" /\ rows'[r].ctrl = IF fast THEN "commit" ELSE "trans"
           /\ \A q \in RowIds : q # r => rows'[q] = rows[q]
           /\ \E b \in VBlocks \union {NoBlock} :
                 \A x \in VBlocks :
                    /\ Owned(x)' <=> Owned(x) \/ x = b
                    /\ x[2] <= top'[x[1]] <=> x[2] <= top[x[1]] \/ x = b
                    /\ word'[x].use = IF x = b THEN 8 ELSE word[x].use
                    /\ x = b => ~Owned(x) /\ upd.block # x
<1>1. rows[r] = FreeSlot
  BY DEF PutRow
<1> DEFINE ctrl == IF fast THEN "commit" ELSE "trans"
<1>2. ASSUME t = NoText, UNCHANGED storeVars, rows' = [rows EXCEPT ![r].ctrl = ctrl]
      PROVE  /\ StoreTypes' /\ ListsOK' /\ RowsOK'
             /\ \A q \in RowIds : rows'[q].block = rows[q].block
             /\ rows'[r].ctrl = ctrl /\ UNCHANGED storeVars
  <2>1. \A q \in RowIds : /\ q # r => rows'[q] = rows[q]
                          /\ rows'[q].block = rows[q].block /\ rows'[q].says = rows[q].says
        /\ rows'[r].ctrl = ctrl /\ ctrl # "free"
    BY <1>2 DEF Types
  <2>2. StoreTypes'
    BY <1>2 DEF Types, StoreTypes, storeVars
  <2>3. RowsOK'
    BY <1>2, <2>1 DEF RowsOK, storeVars
  <2>4. ASSUME NEW c \in Classes PROVE ListAt(c)'
    BY <1>2, ListStays DEF storeVars, Spare, ListsOK
  <2> QED
    BY <1>2, <2>1, <2>2, <2>3, <2>4 DEF ListsOK
<1>3. CASE t = NoText
  <2>1. UNCHANGED storeVars /\ rows' = [rows EXCEPT ![r].ctrl = ctrl]
    BY <1>3 DEF PutRow
  <2>2. /\ StoreTypes' /\ ListsOK' /\ RowsOK'
        /\ \A q \in RowIds : rows'[q].block = rows[q].block
        /\ rows'[r].ctrl = ctrl
    BY <1>2, <1>3, <2>1
  <2>3. /\ rows' \in [RowIds -> [ctrl : {"free", "trans", "commit"}, block : VBlocks \union {NoBlock},
                                 says : Texts \union {NoText}]]
        /\ \A q \in RowIds : q # r => rows'[q] = rows[q]
    BY <2>1 DEF Types
  <2>4. \A x \in VBlocks : Owned(x)' <=> Owned(x)
    BY <2>2 DEF Owned
  <2>5. \A x \in VBlocks :
           /\ Owned(x)' <=> Owned(x) \/ x = NoBlock
           /\ x[2] <= top'[x[1]] <=> x[2] <= top[x[1]] \/ x = NoBlock
           /\ word'[x].use = IF x = NoBlock THEN 8 ELSE word[x].use
           /\ x = NoBlock => ~Owned(x) /\ upd.block # x
    BY <2>1, <2>4, NoBlockIsNone DEF storeVars
  <2>6. rows[r].ctrl = "free" /\ opened \subseteq opened'
    BY <1>1, <2>1 DEF FreeSlot, storeVars
  <2> QED
    BY <2>2, <2>3, <2>5, <2>6
<1>4. CASE t # NoText
  <2>1. PICK b \in VBlocks :
           /\ Take(t, b)
           /\ rows' = [rows EXCEPT ![r] = [ctrl |-> ctrl, block |-> b, says |-> t]]
    BY <1>4 DEF PutRow
  <2>2. t \in Texts
    BY <1>4
  <2>3. /\ StoreTypes' /\ ListsOK'
        /\ \A x \in VBlocks : x[2] <= top'[x[1]] <=> x = b \/ x[2] <= top[x[1]]
        /\ b[2] <= top[b[1]] => word[b].use = 0
        /\ word' = [word EXCEPT ![b] = [use |-> 8, link |-> 0, text |-> t]]
        /\ opened' = opened \union {b[1]}
    BY <2>1, <2>2, TakeGives DEF Types
  <2>4. \A x \in VBlocks : word'[x] = IF x = b THEN [use |-> 8, link |-> 0, text |-> t] ELSE word[x]
    BY <2>3 DEF Types, StoreTypes
  <2>5. ~Owned(b) /\ upd.block # b
    BY <2>3, InUse
  <2>6. \A q \in RowIds : rows'[q] = IF q = r THEN [ctrl |-> ctrl, block |-> b, says |-> t] ELSE rows[q]
    BY <2>1 DEF Types
  <2>7. rows' \in [RowIds -> [ctrl : {"free", "trans", "commit"}, block : VBlocks \union {NoBlock},
                              says : Texts \union {NoText}]]
    BY <2>1 DEF Types
  <2>8. \A x \in VBlocks : Owned(x)' <=> Owned(x) \/ x = b
    BY <1>1, <2>6, NoBlockIsNone DEF Owned, FreeSlot
  <2>9. RowsOK'
    <3>1. ASSUME NEW q \in RowIds, rows'[q].block # NoBlock
          PROVE  /\ rows'[q].block[2] <= top'[rows'[q].block[1]]
                 /\ word'[rows'[q].block].text = rows'[q].says
      <4>1. CASE q = r
        BY <2>3, <2>4, <2>6, <4>1
      <4>2. CASE q # r
        <5>1. rows'[q] = rows[q] /\ rows[q].block \in VBlocks /\ rows[q].block # b
          BY <2>5, <2>6, <3>1, <4>2 DEF Types, Owned
        <5> QED
          BY <2>3, <2>4, <5>1, <3>1 DEF RowsOK
      <4> QED
        BY <4>1, <4>2
    <3>2. ASSUME NEW p \in RowIds, NEW q \in RowIds, rows'[p].block = rows'[q].block, rows'[q].block # NoBlock
          PROVE  p = q
      BY <2>5, <2>6, <3>2 DEF RowsOK, Owned
    <3>3. ASSUME NEW q \in RowIds, rows'[q].ctrl = "free" PROVE rows'[q] = FreeSlot
      BY <2>6, <3>3 DEF RowsOK
    <3> QED
      BY <3>1, <3>2, <3>3 DEF RowsOK
  <2>10. rows[r].ctrl = "free" /\ rows'[r].ctrl = ctrl /\ opened \subseteq opened'
    BY <1>1, <2>3, <2>6 DEF FreeSlot
  <2>11. \A x \in VBlocks :
            /\ Owned(x)' <=> Owned(x) \/ x = b
            /\ x[2] <= top'[x[1]] <=> x[2] <= top[x[1]] \/ x = b
            /\ word'[x].use = IF x = b THEN 8 ELSE word[x].use
            /\ x = b => ~Owned(x) /\ upd.block # x
    BY <2>3, <2>4, <2>5, <2>8
  <2> QED
    BY <2>3, <2>6, <2>7, <2>9, <2>10, <2>11
<1> QED
  BY <1>3, <1>4

\* __xdb_row_delete: the row is gone and its block has a reference less.
LEMMA FreeRowGives ==
    ASSUME Types, RowsOK, UpdateOK, UseOK, ListsOK, ~Repairing, Pending = {}, Pending' = {}, ~missed',
           NEW r \in RowIds, FreeRow(r)
    PROVE  /\ StoreTypes' /\ ListsOK' /\ RowsOK' /\ UNCHANGED <<top, opened>>
           /\ rows' \in [RowIds -> [ctrl : {"free", "trans", "commit"}, block : VBlocks \union {NoBlock},
                                    says : Texts \union {NoText}]]
           /\ \A q \in RowIds : rows'[q] = IF q = r THEN FreeSlot ELSE rows[q]
           /\ \A x \in VBlocks :
                 /\ Owned(x)' <=> Owned(x) /\ rows[r].block # x
                 /\ word'[x].use = IF x # rows[r].block THEN word[x].use
                                   ELSE IF upd.block = x THEN 8 ELSE 0
<1> DEFINE b == rows[r].block
<1>1. rows' = [rows EXCEPT ![r] = FreeSlot] /\ Drop(b)
  BY DEF FreeRow
<1>2. \A q \in RowIds : rows'[q] = IF q = r THEN FreeSlot ELSE rows[q]
  BY <1>1 DEF Types
<1>3. rows' \in [RowIds -> [ctrl : {"free", "trans", "commit"}, block : VBlocks \union {NoBlock},
                            says : Texts \union {NoText}]]
  <2>1. FreeSlot \in [ctrl : {"free", "trans", "commit"}, block : VBlocks \union {NoBlock},
                      says : Texts \union {NoText}]
    BY DEF FreeSlot
  <2> QED
    BY <1>1, <2>1 DEF Types
<1>4. \A x \in VBlocks : Owned(x)' <=> Owned(x) /\ b # x
  <2>1. FreeSlot.block = NoBlock
    BY DEF FreeSlot
  <2> QED
    BY <1>2, <2>1, NoBlockIsNone DEF Owned, RowsOK
<1>5. /\ StoreTypes' /\ ListsOK' /\ UNCHANGED <<top, opened>>
      /\ \A x \in VBlocks :
            /\ word'[x].use = IF x # b THEN word[x].use ELSE IF upd.block = x THEN 8 ELSE 0
            /\ x # b => word'[x].text = word[x].text
  <2>1. CASE b = NoBlock
    <3>1. UNCHANGED storeVars
      BY <1>1, <2>1 DEF Drop
    <3>2. StoreTypes'
      BY <3>1 DEF Types, StoreTypes, storeVars
    <3>3. ASSUME NEW c \in Classes PROVE ListAt(c)'
      BY <3>1, ListStays DEF storeVars, Spare, ListsOK
    <3> QED
      BY <2>1, <3>1, <3>2, <3>3, NoBlockIsNone DEF ListsOK, storeVars
  <2>2. CASE b # NoBlock
    <3>1. b \in VBlocks /\ Owned(b)
      BY <2>2 DEF Types, Owned
    <3>2. b[2] <= top[b[1]] /\ word[b].use = IF upd.block = b THEN 9 ELSE 8
      BY <3>1, InUse
    <3>3. word[b].use \in {8, 9}
      BY <3>2
    <3>4. /\ StoreTypes' /\ ListsOK' /\ UNCHANGED <<top, opened>>
          /\ \A x \in VBlocks :
                /\ word'[x].use = IF x # b THEN word[x].use ELSE IF word[b].use = 9 THEN 8 ELSE 0
                /\ x # b \/ word[b].use = 9 => word'[x].text = word[x].text
      BY <1>1, <3>1, <3>2, <3>3, DropGives DEF Types
    <3> QED
      BY <3>2, <3>4
  <2> QED
    BY <2>1, <2>2
<1>6. RowsOK'
  <2>1. FreeSlot.block = NoBlock
    BY DEF FreeSlot
  <2>2. ASSUME NEW q \in RowIds, rows'[q].block # NoBlock
        PROVE  /\ rows'[q].block[2] <= top'[rows'[q].block[1]]
               /\ word'[rows'[q].block].text = rows'[q].says
    <3>1. q # r /\ rows'[q] = rows[q] /\ rows[q].block \in VBlocks
      BY <1>2, <2>1, <2>2 DEF Types
    <3>2. rows[q].block # b
      BY <2>2, <3>1 DEF RowsOK
    <3> QED
      BY <1>5, <2>2, <3>1, <3>2 DEF RowsOK
  <2>3. ASSUME NEW p \in RowIds, NEW q \in RowIds, rows'[p].block = rows'[q].block, rows'[q].block # NoBlock
        PROVE  p = q
    BY <1>2, <2>1, <2>3 DEF RowsOK
  <2>4. ASSUME NEW q \in RowIds, rows'[q].ctrl = "free" PROVE rows'[q] = FreeSlot
    BY <1>2, <2>4 DEF RowsOK
  <2> QED
    BY <2>2, <2>3, <2>4 DEF RowsOK
<1> QED
  BY <1>2, <1>3, <1>4, <1>5, <1>6

-------------------------------------------------------------------------------
(* The invariant holds at the start and after every step.                   *)

\* No list is a list of nothing.
LEMMA ListEmpty == \A lk : IsList({}, 0, 0, lk)
<1> TAKE lk
<1>1. <<>> \in [1..0 -> {}] /\ \A i \in 1..0 : FALSE
  OBVIOUS
<1>2. Follows(0, <<>>, {}, 0, 0, lk)
  BY <1>1 DEF Follows
<1> QED
  BY <1>1, <1>2 DEF IsList

\* Stores that stay as they are.
LEMMA StoreSame ==
    ASSUME StoreTypes, ListsOK, UNCHANGED <<word, first, last, top>>, Pending' = Pending,
           opened' \subseteq Classes
    PROVE  StoreTypes' /\ ListsOK'
<1>1. StoreTypes'
  BY DEF StoreTypes
<1>2. ASSUME NEW c \in Classes PROVE ListAt(c)'
  BY ListStays DEF Spare, ListsOK
<1> QED
  BY <1>1, <1>2 DEF ListsOK

LEMMA InitIInv == VdataInit => IInv
<1> SUFFICES ASSUME VdataInit PROVE IInv
  OBVIOUS
<1>1. stage[1] = "idle" /\ ~Repairing /\ ~Updating /\ missed = FALSE
  BY DEF VdataInit, Repairing, Updating
<1>2. /\ \A r \in RowIds : rows[r] = FreeSlot
      /\ \A b \in VBlocks : word[b] = [use |-> 0, link |-> 0, text |-> NoText]
      /\ \A c \in Classes : first[c] = 0 /\ last[c] = 0 /\ top[c] = 0
  BY DEF VdataInit
<1>3. FreeSlot.ctrl = "free" /\ FreeSlot.block = NoBlock /\ FreeSlot.says = NoText
  BY DEF FreeSlot
<1>4. Types
  <2>1. StoreTypes
    <3>1. [use |-> 0, link |-> 0, text |-> NoText] \in [use : Nat, link : Nat, text : Texts \union {NoText}]
      OBVIOUS
    <3>2. MaxBlocks \in Nat
      BY VdataAssumption
    <3> QED
      BY <3>1, <3>2 DEF VdataInit, StoreTypes
  <2>2. FreeSlot \in [ctrl : {"free", "trans", "commit"}, block : VBlocks \union {NoBlock},
                      says : Texts \union {NoText}]
    BY DEF FreeSlot
  <2>3. NoUpdate \in [row : RowIds \union {0}, block : VBlocks \union {NoBlock}, gone : BOOLEAN]
    BY DEF NoUpdate
  <2> QED
    BY <2>1, <2>2, <2>3 DEF VdataInit, Types
<1>5. RowsOK
  BY <1>2, <1>3 DEF RowsOK
<1>6. TransOK
  BY <1>2, <1>3 DEF TransOK, Trans
<1>7. UpdateOK
  BY <1>1, NoBlockIsNone DEF UpdateOK, VdataInit
<1>8. RefusedOK /\ RepairOK
  BY <1>1 DEF RefusedOK, RepairOK, VdataInit
<1>9. UseOK
  BY <1>1, <1>2 DEF UseOK, VBlocks
<1>10. ASSUME NEW c \in Classes PROVE ListAt(c)
  <2>1. Spare(c) = {}
    BY <1>2 DEF Spare
  <2> QED
    BY <1>2, <2>1, ListEmpty DEF ListAt
<1> QED
  BY <1>1, <1>4, <1>5, <1>6, <1>7, <1>8, <1>9, <1>10 DEF IInv, Good, ListsOK

\* Between statements.
LEMMA AtRest ==
    ASSUME IInv, ~missed, stage = <<"idle">>
    PROVE  /\ Good /\ stage[1] = "idle" /\ ~Repairing /\ ~Updating /\ Pending = {}
           /\ upd = NoUpdate /\ upd.block = NoBlock
<1>1. Good /\ stage[1] = "idle"
  BY DEF IInv
<1>2. ~Repairing /\ ~Updating /\ Pending = {}
  BY <1>1 DEF Repairing, Updating, Pending
<1>3. upd = NoUpdate
  BY <1>1, <1>2 DEF Good, UpdateOK
<1> QED
  BY <1>1, <1>2, <1>3, NoBlockIsNone

LEMMA InsertRowIInv ==
    ASSUME IInv, NEW r \in RowIds, NEW t \in Texts \union {NoText}, NEW fast \in BOOLEAN,
           InsertRow(r, t, fast)
    PROVE  IInv'
<1>1. /\ stage = <<"idle">> /\ ~missed /\ PutRow(r, t, fast)
      /\ new' = (IF fast THEN new ELSE new \union {r}) /\ dirty' = ~memory
      /\ UNCHANGED <<memory, del, stage, upd, missed>>
  BY DEF InsertRow, Running, Touch
<1>2. Good /\ stage[1] = "idle" /\ ~Repairing /\ ~Updating /\ Pending = {} /\ upd = NoUpdate /\ upd.block = NoBlock
  BY <1>1, AtRest
<1>3. stage'[1] = "idle" /\ ~Repairing' /\ ~Updating' /\ Pending' = {}
  BY <1>1, <1>2 DEF Repairing, Updating, Pending
<1>4. /\ StoreTypes' /\ ListsOK' /\ RowsOK'
      /\ rows' \in [RowIds -> [ctrl : {"free", "trans", "commit"}, block : VBlocks \union {NoBlock},
                               says : Texts \union {NoText}]]
      /\ rows'[r].ctrl = IF fast THEN "commit" ELSE "trans"
      /\ \A q \in RowIds : q # r => rows'[q] = rows[q]
      /\ \E b \in VBlocks \union {NoBlock} :
            \A x \in VBlocks :
               /\ Owned(x)' <=> Owned(x) \/ x = b
               /\ x[2] <= top'[x[1]] <=> x[2] <= top[x[1]] \/ x = b
               /\ word'[x].use = IF x = b THEN 8 ELSE word[x].use
  BY <1>1, <1>2, <1>3, PutRowGives DEF Good
<1>5. Types'
  BY <1>1, <1>2, <1>4 DEF Good, Types
<1>6. TransOK'
  BY <1>1, <1>2, <1>3, <1>4 DEF Good, TransOK, Trans
<1>7. UpdateOK' /\ RefusedOK' /\ RepairOK'
  BY <1>1, <1>2, <1>3 DEF UpdateOK, RefusedOK, RepairOK
<1>8. UseOK'
  <2>1. PICK b \in VBlocks \union {NoBlock} :
           \A x \in VBlocks :
              /\ Owned(x)' <=> Owned(x) \/ x = b
              /\ x[2] <= top'[x[1]] <=> x[2] <= top[x[1]] \/ x = b
              /\ word'[x].use = IF x = b THEN 8 ELSE word[x].use
    BY <1>4
  <2>2. \A x \in VBlocks : upd'.block # x
    BY <1>1, <1>2, NoBlockIsNone
  <2> QED
    BY <1>1, <1>2, <1>3, <2>1, <2>2 DEF Good, UseOK
<1> QED
  BY <1>1, <1>2, <1>3, <1>4, <1>5, <1>6, <1>7, <1>8 DEF IInv, Good

LEMMA RefuseRowIInv ==
    ASSUME IInv, NEW t \in Texts, NEW fast \in BOOLEAN, RefuseRow(t, fast)
    PROVE  IInv'
<1>1. PICK b \in VBlocks :
         /\ Take(t, b)
         /\ stage' = IF fast THEN <<"idle">> ELSE <<"refused", b>>
  BY DEF RefuseRow
<1>2. /\ stage = <<"idle">> /\ ~missed /\ (fast => memory) /\ dirty' = ~memory
      /\ UNCHANGED <<memory, rows, new, del, upd, missed>>
  BY DEF RefuseRow, Running, Touch, Alone, txVars
<1>3. Good /\ stage[1] = "idle" /\ ~Repairing /\ ~Updating /\ Pending = {} /\ upd = NoUpdate /\ upd.block = NoBlock
  BY <1>2, AtRest
<1>4. /\ stage'[1] = IF fast THEN "idle" ELSE "refused"
      /\ ~fast => stage'[2] = b
      /\ \A x : fast => stage' # <<"refused", x>>
  BY <1>1
<1>5. ~Repairing' /\ ~Updating' /\ Pending' = {}
  BY <1>4 DEF Repairing, Updating, Pending
<1>6. /\ StoreTypes' /\ ListsOK'
      /\ \A x \in VBlocks : x[2] <= top'[x[1]] <=> x = b \/ x[2] <= top[x[1]]
      /\ b[2] <= top[b[1]] => word[b].use = 0
      /\ word' = [word EXCEPT ![b] = [use |-> 8, link |-> 0, text |-> t]]
      /\ opened' = opened \union {b[1]}
  BY <1>1, <1>3, <1>5, TakeGives DEF Good, Types
<1>7. \A x \in VBlocks : /\ word'[x].use = IF x = b THEN 8 ELSE word[x].use
                         /\ x # b => word'[x].text = word[x].text
  BY <1>3, <1>6 DEF Good, Types, StoreTypes
<1>8. ~Owned(b) /\ \A x \in VBlocks : Owned(x)' <=> Owned(x)
  BY <1>2, <1>3, <1>6, InUse DEF Good, Owned
<1>9. Types'
  <2>1. stage' \in {<<"idle">>} \union ({"refused"} \X VBlocks)
    BY <1>1
  <2> QED
    BY <1>2, <1>3, <1>6, <2>1 DEF Good, Types
<1>10. RowsOK'
  <2>1. ASSUME NEW q \in RowIds, rows[q].block # NoBlock
        PROVE  /\ rows[q].block[2] <= top'[rows[q].block[1]]
               /\ word'[rows[q].block].text = rows[q].says
    <3>1. rows[q].block \in VBlocks /\ rows[q].block # b
      BY <1>3, <1>8, <2>1 DEF Good, Types, Owned
    <3> QED
      BY <1>3, <1>6, <1>7, <2>1, <3>1 DEF Good, RowsOK
  <2> QED
    BY <1>2, <1>3, <2>1 DEF Good, RowsOK
<1>11. TransOK'
  BY <1>2, <1>3, <1>4 DEF Good, TransOK, Trans
<1>12. UpdateOK' /\ RepairOK'
  BY <1>2, <1>3, <1>4, <1>5 DEF UpdateOK, RepairOK
<1>13. RefusedOK'
  BY <1>4, <1>6, <1>8 DEF RefusedOK
<1>14. UseOK'
  <2>1. ASSUME NEW x \in VBlocks, x[2] <= top'[x[1]]
        PROVE  IF Owned(x)' THEN word'[x].use = 8
               ELSE IF stage' = <<"refused", x>> THEN word'[x].use = 8
               ELSE word'[x].use = 0 \/ (memory' /\ word'[x].use = 8)
    <3>1. CASE x = b
      BY <1>1, <1>2, <1>7, <1>8, <3>1
    <3>2. CASE x # b
      <4>1. stage' # <<"refused", x>>
        BY <1>4, <3>2
      <4>2. x[2] <= top[x[1]] /\ upd.block # x /\ stage # <<"refused", x>>
        BY <1>2, <1>3, <1>6, <2>1, <3>2, NoBlockIsNone
      <4>3. IF Owned(x) THEN word[x].use = 8 ELSE word[x].use = 0 \/ (memory /\ word[x].use = 8)
        BY <1>3, <4>2 DEF Good, UseOK
      <4> QED
        BY <1>2, <1>7, <1>8, <3>2, <4>1, <4>3
    <3> QED
      BY <3>1, <3>2
  <2>2. \A x \in VBlocks : upd'.block # x
    BY <1>2, <1>3, NoBlockIsNone
  <2> QED
    BY <1>4, <2>1, <2>2 DEF UseOK
<1> QED
  BY <1>2, <1>6, <1>9, <1>10, <1>11, <1>12, <1>13, <1>14 DEF IInv, Good

LEMMA EndRefusedIInv ==
    ASSUME IInv, EndRefused
    PROVE  IInv'
<1>1. /\ stage[1] = "refused" /\ Drop(stage[2]) /\ stage' = <<"idle">>
      /\ UNCHANGED <<memory, rows, new, del, dirty, upd>>
  BY DEF EndRefused, txVars, markVars
<1>2. ~missed /\ Good
  BY <1>1 DEF IInv
<1> DEFINE b == stage[2]
<1>3. b \in VBlocks /\ stage = <<"refused", b>>
  BY <1>1, <1>2 DEF Good, Types
<1>4. b[1] \in opened /\ b[2] <= top[b[1]] /\ ~Owned(b)
  BY <1>1, <1>2 DEF Good, RefusedOK
<1>5. ~Repairing /\ Pending = {} /\ ~Updating /\ upd = NoUpdate /\ upd.block = NoBlock
  BY <1>1, <1>2, NoBlockIsNone DEF Repairing, Updating, Pending, Good, UpdateOK
<1>6. stage'[1] = "idle" /\ ~Repairing' /\ ~Updating' /\ Pending' = {}
  BY <1>1 DEF Repairing, Updating, Pending
<1>7. ~missed' /\ missed' \in BOOLEAN
  BY <1>1, <1>4 DEF Drop
<1>8. \A x \in VBlocks : upd.block # x
  BY <1>5, NoBlockIsNone
<1>9. word[b].use = 8
  BY <1>1, <1>2, <1>3, <1>4, <1>5, <1>8 DEF Good, UseOK, Repairing
<1> HIDE DEF b
<1>10. /\ StoreTypes' /\ ListsOK' /\ UNCHANGED <<top, opened>>
       /\ \A x \in VBlocks :
             /\ word'[x].use = IF x # b THEN word[x].use ELSE 0
             /\ x # b => word'[x].text = word[x].text
  <2>1. Drop(b) /\ word[b].use \in {8, 9}
    BY <1>1, <1>9 DEF b
  <2>2. /\ StoreTypes' /\ ListsOK' /\ UNCHANGED <<top, opened>>
        /\ \A x \in VBlocks :
              /\ word'[x].use = IF x # b THEN word[x].use ELSE IF word[b].use = 9 THEN 8 ELSE 0
              /\ x # b \/ word[b].use = 9 => word'[x].text = word[x].text
    BY <1>2, <1>3, <1>4, <1>5, <1>6, <1>7, <2>1, DropGives DEF Good, Types
  <2> QED
    BY <1>9, <2>2
<1>11. Types'
  BY <1>1, <1>2, <1>10 DEF Good, Types
<1>12. RowsOK'
  <2>1. \A q \in RowIds : rows[q].block # NoBlock => rows[q].block \in VBlocks /\ rows[q].block # b
    BY <1>2, <1>4 DEF Good, Types, Owned
  <2> QED
    BY <1>1, <1>2, <1>10, <2>1 DEF Good, RowsOK
<1>13. TransOK'
  BY <1>1, <1>2, <1>6 DEF Good, TransOK, Trans
<1>14. UpdateOK' /\ RefusedOK' /\ RepairOK'
  BY <1>1, <1>2, <1>5, <1>6 DEF Good, UpdateOK, RefusedOK, RepairOK
<1>15. UseOK'
  <2>1. ASSUME NEW x \in VBlocks PROVE Owned(x)' <=> Owned(x)
    BY <1>1 DEF Owned
  <2>2. ASSUME NEW x \in VBlocks, x[2] <= top[x[1]]
        PROVE  IF Owned(x) THEN word'[x].use = 8 ELSE word'[x].use = 0 \/ (memory /\ word'[x].use = 8)
    <3>1. CASE x = b
      BY <1>4, <1>10, <3>1
    <3>2. CASE x # b
      <4>1. stage # <<"refused", x>>
        BY <1>3, <3>2
      <4> QED
        BY <1>2, <1>5, <1>8, <1>10, <2>2, <3>2, <4>1 DEF Good, UseOK, Repairing
    <3> QED
      BY <3>1, <3>2
  <2> QED
    BY <1>1, <1>6, <1>8, <1>10, <2>1, <2>2 DEF UseOK
<1> QED
  BY <1>7, <1>10, <1>11, <1>12, <1>13, <1>14, <1>15 DEF IInv, Good

LEMMA DeleteRowIInv ==
    ASSUME IInv, NEW r \in RowIds, NEW fast \in BOOLEAN, DeleteRow(r, fast)
    PROVE  IInv'
<1>1. /\ stage = <<"idle">> /\ ~missed /\ r \in Live /\ dirty' = ~memory
      /\ UNCHANGED <<memory, stage, upd>>
  BY DEF DeleteRow, Running, Touch
<1>2. Good /\ stage[1] = "idle" /\ ~Repairing /\ ~Updating /\ Pending = {} /\ upd = NoUpdate /\ upd.block = NoBlock
  BY <1>1, AtRest
<1>3. stage'[1] = "idle" /\ ~Repairing' /\ ~Updating' /\ Pending' = {}
  BY <1>1, <1>2 DEF Repairing, Updating, Pending
<1>4. UpdateOK' /\ RefusedOK' /\ RepairOK'
  BY <1>1, <1>2, <1>3 DEF UpdateOK, RefusedOK, RepairOK
<1>5. \A x \in VBlocks : upd.block # x /\ stage # <<"refused", x>>
  BY <1>1, <1>2, NoBlockIsNone
<1>6. CASE FreeRow(r) /\ new' = new \ {r} /\ del' = del
  <2>1. missed' \in BOOLEAN
    BY <1>6 DEF FreeRow, Drop
  <2>2. ASSUME ~missed' PROVE Good'
    <3>1. /\ StoreTypes' /\ ListsOK' /\ RowsOK' /\ UNCHANGED <<top, opened>>
          /\ rows' \in [RowIds -> [ctrl : {"free", "trans", "commit"}, block : VBlocks \union {NoBlock},
                                   says : Texts \union {NoText}]]
          /\ \A q \in RowIds : rows'[q] = IF q = r THEN FreeSlot ELSE rows[q]
          /\ \A x \in VBlocks :
                /\ Owned(x)' <=> Owned(x) /\ rows[r].block # x
                /\ word'[x].use = IF x # rows[r].block THEN word[x].use
                                  ELSE IF upd.block = x THEN 8 ELSE 0
      BY <1>2, <1>3, <1>6, <2>2, FreeRowGives DEF Good
    <3>2. Types'
      BY <1>1, <1>2, <1>6, <3>1 DEF Good, Types
    <3>3. TransOK'
      <4>1. FreeSlot.ctrl = "free"
        BY DEF FreeSlot
      <4> QED
        BY <1>2, <1>3, <1>6, <3>1, <4>1 DEF Good, TransOK, Trans
    <3>4. UseOK'
      BY <1>1, <1>2, <1>3, <1>5, <3>1 DEF Good, UseOK
    <3> QED
      BY <1>4, <3>1, <3>2, <3>3, <3>4 DEF Good
  <2> QED
    BY <1>3, <2>1, <2>2 DEF IInv
<1>7. CASE del' = del \union {r} /\ UNCHANGED <<rows, storeVars, new, missed>>
  <2>1. UNCHANGED <<word, first, last, top, opened>>
    BY <1>7 DEF storeVars
  <2>2. StoreTypes' /\ ListsOK'
    BY <1>2, <1>3, <2>1, StoreSame DEF Good, Types, StoreTypes
  <2>3. Types'
    BY <1>1, <1>2, <1>7, <2>2 DEF Good, Types
  <2>4. RowsOK' /\ TransOK'
    BY <1>2, <1>3, <1>7, <2>1 DEF Good, RowsOK, TransOK, Trans
  <2>5. UseOK'
    BY <1>1, <1>2, <1>3, <1>7, <2>1 DEF Good, UseOK, Owned
  <2> QED
    BY <1>1, <1>4, <1>7, <2>2, <2>3, <2>4, <2>5 DEF IInv, Good
<1> QED
  BY <1>6, <1>7 DEF DeleteRow

LEMMA UpdateBeginIInv ==
    ASSUME IInv, NEW r \in RowIds, NEW fast \in BOOLEAN, UpdateBegin(r, fast)
    PROVE  IInv'
<1> DEFINE b == rows[r].block
<1>1. /\ stage = <<"idle">> /\ ~missed /\ r \in Live /\ dirty' = ~memory
      /\ word' = Held(word, b)
      /\ upd' = [row |-> r, block |-> b, gone |-> fast \/ rows[r].ctrl = "trans"]
      /\ stage' = <<"copy", fast>>
      /\ opened' = IF b = NoBlock THEN opened ELSE opened \union {b[1]}
      /\ UNCHANGED <<memory, rows, first, last, top, new, del, missed>>
  BY DEF UpdateBegin, Running, Touch, txVars
<1>2. Good /\ stage[1] = "idle" /\ ~Repairing /\ ~Updating /\ Pending = {} /\ upd = NoUpdate /\ upd.block = NoBlock
  BY <1>1, AtRest
<1>3. /\ stage'[1] = "copy" /\ ~Repairing' /\ Updating' /\ Pending' = {}
      /\ \A x : stage' # <<"refused", x>>
  BY <1>1 DEF Repairing, Updating, Pending
<1>4. \A x \in VBlocks : upd.block # x /\ stage # <<"refused", x>>
  BY <1>1, <1>2, NoBlockIsNone
<1>5. b \in VBlocks \union {NoBlock} /\ rows[r].ctrl # "free"
  BY <1>1, <1>2 DEF Good, Types, Live
<1>6. b # NoBlock => b \in VBlocks /\ Owned(b) /\ b[2] <= top[b[1]] /\ word[b].use = 8 /\ b[1] \in Classes
  <2>1. b # NoBlock => b \in VBlocks /\ Owned(b)
    BY <1>5 DEF Owned
  <2> QED
    BY <1>2, <1>4, <2>1, InUse DEF Good, VBlocks
<1>7. /\ word' \in [VBlocks -> [use : Nat, link : Nat, text : Texts \union {NoText}]]
      /\ \A x \in VBlocks : /\ word'[x].use = IF x = b THEN 9 ELSE word[x].use
                            /\ word'[x].text = word[x].text /\ word'[x].link = word[x].link
  <2>1. CASE b = NoBlock
    BY <1>1, <1>2, <2>1, NoBlockIsNone DEF Good, Types, StoreTypes, Held
  <2>2. CASE b # NoBlock
    BY <1>1, <1>2, <1>6, <2>2 DEF Good, Types, StoreTypes, Held
  <2> QED
    BY <2>1, <2>2
<1>8. opened \subseteq opened' /\ opened' \subseteq Classes /\ (b # NoBlock => b[1] \in opened')
  BY <1>1, <1>2, <1>6 DEF Good, Types, StoreTypes
<1> HIDE DEF b
<1>9. Types'
  <2>1. StoreTypes'
    BY <1>1, <1>2, <1>7, <1>8 DEF Good, Types, StoreTypes
  <2>2. upd' \in [row : RowIds \union {0}, block : VBlocks \union {NoBlock}, gone : BOOLEAN]
    BY <1>1, <1>5
  <2>3. stage' \in {"copy"} \X BOOLEAN
    BY <1>1
  <2> QED
    BY <1>1, <1>2, <2>1, <2>2, <2>3 DEF Good, Types
<1>10. RowsOK'
  <2>1. \A q \in RowIds : rows[q].block # NoBlock => rows[q].block \in VBlocks
    BY <1>2 DEF Good, Types
  <2> QED
    BY <1>1, <1>2, <1>7, <2>1 DEF Good, RowsOK
<1>11. TransOK'
  BY <1>1, <1>2, <1>3 DEF Good, TransOK, Trans
<1>12. UpdateOK' /\ RefusedOK' /\ RepairOK'
  <2>1. upd'.row = r /\ upd'.block = b /\ upd'.gone = (fast \/ rows[r].ctrl = "trans")
    BY <1>1
  <2> QED
    BY <1>1, <1>3, <1>5, <1>6, <1>8, <2>1 DEF UpdateOK, RefusedOK, RepairOK, b
<1>13. UseOK'
  <2>1. \A x \in VBlocks : Owned(x)' <=> Owned(x)
    BY <1>1 DEF Owned
  <2>2. upd'.block = b
    BY <1>1
  <2>3. ASSUME NEW x \in VBlocks, x[2] <= top[x[1]]
        PROVE  IF Owned(x) THEN word'[x].use = IF b = x THEN 9 ELSE 8
               ELSE word'[x].use = 0 \/ (memory /\ word'[x].use = 8)
    <3>1. CASE x = b
      <4>1. Owned(x)
        BY <1>6, <3>1, NoBlockIsNone
      <4> QED
        BY <1>7, <3>1, <4>1
    <3>2. CASE x # b
      BY <1>2, <1>4, <1>7, <2>3, <3>2 DEF Good, UseOK, Repairing
    <3> QED
      BY <3>1, <3>2
  <2>4. \A x \in VBlocks : b = x => Owned(x)
    BY <1>6, NoBlockIsNone
  <2> QED
    BY <1>1, <1>3, <2>1, <2>2, <2>3, <2>4 DEF UseOK
<1>14. ASSUME NEW c \in Classes PROVE ListAt(c)'
  <2>1. \A i \in 1..MaxBlocks : <<c, i>> \in VBlocks
    BY DEF VBlocks
  <2>2. Spare(c)' = Spare(c)
    <3>1. \A i \in 1..MaxBlocks : i <= top[c] => (word'[<<c, i>>].use = 0 <=> word[<<c, i>>].use = 0)
      BY <1>6, <1>7, <2>1, NoBlockIsNone
    <3> QED
      BY <1>1, <1>2, <1>3, <3>1 DEF Spare
  <2>3. \A i \in Spare(c) : word'[<<c, i>>].link = word[<<c, i>>].link
    BY <1>7, <2>1 DEF Spare
  <2> QED
    BY <1>1, <1>2, <2>2, <2>3, ListStays DEF Good, ListsOK
<1> QED
  BY <1>1, <1>9, <1>10, <1>11, <1>12, <1>13, <1>14 DEF IInv, Good, ListsOK

LEMMA UpdateCopyIInv ==
    ASSUME IInv, NEW r \in RowIds, NEW t \in Texts \union {NoText}, UpdateCopy(r, t)
    PROVE  IInv'
<1>1. /\ stage[1] = "copy" /\ PutRow(r, t, stage[2]) /\ stage' = <<"old">>
      /\ new' = (new \ {upd.row}) \union (IF stage[2] THEN {} ELSE {r})
      /\ del' = IF upd.gone THEN del ELSE del \union {upd.row}
      /\ UNCHANGED <<memory, dirty, upd, missed>>
  BY DEF UpdateCopy, markVars
<1>2. ~missed /\ Good /\ ~Repairing /\ Pending = {} /\ Updating
  BY <1>1 DEF IInv, Repairing, Updating, Pending
<1>3. /\ stage'[1] = "old" /\ ~Repairing' /\ Updating' /\ Pending' = {}
      /\ \A x : stage' # <<"refused", x>> /\ stage # <<"refused", x>>
  BY <1>1 DEF Repairing, Updating, Pending
<1>4. stage[2] \in BOOLEAN
  BY <1>1, <1>2 DEF Good, Types
<1>5. /\ StoreTypes' /\ ListsOK' /\ RowsOK' /\ opened \subseteq opened'
      /\ rows' \in [RowIds -> [ctrl : {"free", "trans", "commit"}, block : VBlocks \union {NoBlock},
                               says : Texts \union {NoText}]]
      /\ rows[r].ctrl = "free" /\ rows'[r].ctrl = IF stage[2] THEN "commit" ELSE "trans"
      /\ \A q \in RowIds : q # r => rows'[q] = rows[q]
      /\ \E b \in VBlocks \union {NoBlock} :
            \A x \in VBlocks :
               /\ Owned(x)' <=> Owned(x) \/ x = b
               /\ x[2] <= top'[x[1]] <=> x[2] <= top[x[1]] \/ x = b
               /\ word'[x].use = IF x = b THEN 8 ELSE word[x].use
               /\ x = b => ~Owned(x) /\ upd.block # x
  BY <1>1, <1>2, <1>3, <1>4, PutRowGives DEF Good
<1>6. /\ upd.row \in RowIds /\ upd.row # r /\ rows'[upd.row] = rows[upd.row]
      /\ rows[upd.row].ctrl # "free" /\ rows[upd.row].block = upd.block
      /\ rows[upd.row].ctrl = "trans" => upd.gone
  BY <1>1, <1>2, <1>5 DEF Good, UpdateOK
<1>7. Types'
  BY <1>1, <1>2, <1>5, <1>6 DEF Good, Types
<1>8. TransOK'
  BY <1>1, <1>2, <1>3, <1>5 DEF Good, TransOK, Trans
<1>9. UpdateOK'
  <2>1. upd.block # NoBlock => upd.block \in VBlocks
    BY <1>2 DEF Good, Types
  <2>2. PICK b \in VBlocks \union {NoBlock} :
           \A x \in VBlocks : x[2] <= top'[x[1]] <=> x[2] <= top[x[1]] \/ x = b
    BY <1>5
  <2> QED
    BY <1>1, <1>2, <1>3, <1>5, <1>6, <2>1, <2>2 DEF Good, UpdateOK
<1>10. RefusedOK' /\ RepairOK'
  BY <1>1, <1>2, <1>3 DEF Good, RefusedOK, RepairOK
<1>11. UseOK'
  <2>1. PICK b \in VBlocks \union {NoBlock} :
           \A x \in VBlocks :
               /\ Owned(x)' <=> Owned(x) \/ x = b
               /\ x[2] <= top'[x[1]] <=> x[2] <= top[x[1]] \/ x = b
               /\ word'[x].use = IF x = b THEN 8 ELSE word[x].use
               /\ x = b => ~Owned(x) /\ upd.block # x
    BY <1>5
  <2> QED
    BY <1>1, <1>2, <1>3, <2>1 DEF Good, UseOK, Repairing
<1> QED
  BY <1>1, <1>2, <1>5, <1>7, <1>8, <1>9, <1>10, <1>11 DEF IInv, Good

LEMMA UpdateOldIInv ==
    ASSUME IInv, UpdateOld
    PROVE  IInv'
<1>1. /\ stage[1] = "old" /\ stage' = <<"held">>
      /\ UNCHANGED <<memory, new, del, dirty, upd>>
  BY DEF UpdateOld, txVars, markVars
<1>2. ~missed /\ Good /\ ~Repairing /\ Pending = {} /\ Updating
  BY <1>1 DEF IInv, Repairing, Updating, Pending
<1>3. /\ stage'[1] = "held" /\ ~Repairing' /\ Updating' /\ Pending' = {}
      /\ \A x : stage' # <<"refused", x>> /\ stage # <<"refused", x>>
  BY <1>1 DEF Repairing, Updating, Pending
<1>4. /\ upd.row \in RowIds /\ rows[upd.row].block = upd.block
      /\ rows[upd.row].ctrl = "trans" => upd.gone
      /\ upd.block # NoBlock => upd.block[1] \in opened /\ upd.block[2] <= top[upd.block[1]]
  BY <1>1, <1>2 DEF Good, UpdateOK
<1>5. RefusedOK' /\ RepairOK'
  BY <1>1, <1>2, <1>3 DEF Good, RefusedOK, RepairOK
<1>6. CASE upd.gone
  <2>1. FreeRow(upd.row)
    BY <1>6 DEF UpdateOld
  <2>2. ~missed' /\ missed' \in BOOLEAN
    BY <1>4, <2>1 DEF FreeRow, Drop
  <2>3. /\ StoreTypes' /\ ListsOK' /\ RowsOK' /\ UNCHANGED <<top, opened>>
        /\ rows' \in [RowIds -> [ctrl : {"free", "trans", "commit"}, block : VBlocks \union {NoBlock},
                                 says : Texts \union {NoText}]]
        /\ \A q \in RowIds : rows'[q] = IF q = upd.row THEN FreeSlot ELSE rows[q]
        /\ \A x \in VBlocks :
              /\ Owned(x)' <=> Owned(x) /\ upd.block # x
              /\ word'[x].use = IF x # upd.block THEN word[x].use ELSE 8
    <3>1. /\ StoreTypes' /\ ListsOK' /\ RowsOK' /\ UNCHANGED <<top, opened>>
          /\ rows' \in [RowIds -> [ctrl : {"free", "trans", "commit"}, block : VBlocks \union {NoBlock},
                                   says : Texts \union {NoText}]]
          /\ \A q \in RowIds : rows'[q] = IF q = upd.row THEN FreeSlot ELSE rows[q]
          /\ \A x \in VBlocks :
                /\ Owned(x)' <=> Owned(x) /\ rows[upd.row].block # x
                /\ word'[x].use = IF x # rows[upd.row].block THEN word[x].use
                                  ELSE IF upd.block = x THEN 8 ELSE 0
      BY <1>2, <1>3, <1>4, <2>1, <2>2, FreeRowGives DEF Good
    <3> QED
      BY <1>4, <3>1
  <2>4. Types'
    BY <1>1, <1>2, <2>3 DEF Good, Types
  <2>5. TransOK'
    <3>1. FreeSlot.ctrl = "free"
      BY DEF FreeSlot
    <3> QED
      BY <1>1, <1>2, <1>3, <2>3, <3>1 DEF Good, TransOK, Trans
  <2>6. UpdateOK'
    BY <1>1, <1>3, <1>4, <2>3 DEF UpdateOK
  <2>7. UseOK'
    BY <1>1, <1>2, <1>3, <2>3 DEF Good, UseOK, Repairing
  <2> QED
    BY <1>5, <2>2, <2>3, <2>4, <2>5, <2>6, <2>7 DEF IInv, Good
<1>7. CASE ~upd.gone
  <2>1. UNCHANGED <<rows, word, first, last, top, opened, missed>>
    BY <1>7 DEF UpdateOld, storeVars
  <2>2. StoreTypes' /\ ListsOK'
    BY <1>2, <1>3, <2>1, StoreSame DEF Good, Types, StoreTypes
  <2>3. Types'
    BY <1>1, <1>2, <2>1, <2>2 DEF Good, Types
  <2>4. RowsOK' /\ TransOK'
    BY <1>1, <1>2, <1>3, <1>4, <1>7, <2>1 DEF Good, RowsOK, TransOK, Trans
  <2>5. UpdateOK'
    BY <1>1, <1>3, <1>4, <2>1 DEF UpdateOK
  <2>6. UseOK'
    BY <1>1, <1>2, <1>3, <2>1 DEF Good, UseOK, Repairing, Owned
  <2> QED
    BY <1>2, <1>5, <2>1, <2>2, <2>3, <2>4, <2>5, <2>6 DEF IInv, Good
<1> QED
  BY <1>6, <1>7

LEMMA UpdateEndIInv ==
    ASSUME IInv, UpdateEnd
    PROVE  IInv'
<1> DEFINE b == upd.block
<1>1. /\ stage[1] = "held" /\ Drop(b) /\ stage' = <<"idle">> /\ upd' = NoUpdate
      /\ UNCHANGED <<memory, rows, new, del, dirty>>
  BY DEF UpdateEnd, txVars, markVars
<1>2. ~missed /\ Good /\ ~Repairing /\ Pending = {} /\ Updating
  BY <1>1 DEF IInv, Repairing, Updating, Pending
<1>3. /\ stage'[1] = "idle" /\ ~Repairing' /\ ~Updating' /\ Pending' = {}
      /\ \A x : stage' # <<"refused", x>> /\ stage # <<"refused", x>>
  BY <1>1 DEF Repairing, Updating, Pending
<1>4. b \in VBlocks \union {NoBlock} /\ (b # NoBlock => b[1] \in opened /\ b[2] <= top[b[1]])
  BY <1>2 DEF Good, Types, UpdateOK
<1>5. ~missed' /\ missed' \in BOOLEAN
  BY <1>1, <1>4 DEF Drop
<1>6. \A x \in VBlocks : upd'.block # x
  BY <1>1, NoBlockIsNone
<1>7. /\ StoreTypes' /\ ListsOK' /\ UNCHANGED <<top, opened>>
      /\ \A x \in VBlocks :
            /\ word'[x].use = IF x # b THEN word[x].use ELSE IF Owned(b) THEN 8 ELSE 0
            /\ Owned(x) => word'[x].text = word[x].text
  <2>1. CASE b = NoBlock
    <3>1. UNCHANGED <<word, first, last, top, opened>>
      BY <1>1, <2>1 DEF Drop, storeVars
    <3> QED
      BY <1>2, <1>3, <2>1, <3>1, StoreSame, NoBlockIsNone DEF Good, Types, StoreTypes
  <2>2. CASE b # NoBlock
    <3>1. b \in VBlocks /\ b[2] <= top[b[1]]
      BY <1>4, <2>2
    <3>2. word[b].use = IF Owned(b) THEN 9 ELSE 8
      BY <1>2, <3>1, InUse DEF Good
    <3>3. word[b].use \in {8, 9}
      BY <3>2
    <3>4. /\ StoreTypes' /\ ListsOK' /\ UNCHANGED <<top, opened>>
          /\ \A x \in VBlocks :
                /\ word'[x].use = IF x # b THEN word[x].use ELSE IF word[b].use = 9 THEN 8 ELSE 0
                /\ x # b \/ word[b].use = 9 => word'[x].text = word[x].text
      BY <1>1, <1>2, <1>3, <1>5, <3>1, <3>3, DropGives DEF Good, Types
    <3> QED
      BY <3>2, <3>4
  <2> QED
    BY <2>1, <2>2
<1>8. Types'
  <2>1. NoUpdate \in [row : RowIds \union {0}, block : VBlocks \union {NoBlock}, gone : BOOLEAN]
    BY DEF NoUpdate
  <2> QED
    BY <1>1, <1>2, <1>7, <2>1 DEF Good, Types
<1>9. RowsOK'
  <2>1. \A q \in RowIds : rows[q].block # NoBlock => rows[q].block \in VBlocks /\ Owned(rows[q].block)
    BY <1>2 DEF Good, Types, Owned
  <2> QED
    BY <1>1, <1>2, <1>7, <2>1 DEF Good, RowsOK
<1>10. TransOK'
  BY <1>1, <1>2, <1>3 DEF Good, TransOK, Trans
<1>11. UpdateOK' /\ RefusedOK' /\ RepairOK'
  BY <1>1, <1>2, <1>3, NoBlockIsNone DEF Good, UpdateOK, RefusedOK, RepairOK
<1>12. UseOK'
  <2>1. ASSUME NEW x \in VBlocks PROVE Owned(x)' <=> Owned(x)
    BY <1>1 DEF Owned
  <2> HIDE DEF b
  <2>2. ASSUME NEW x \in VBlocks, x[2] <= top[x[1]]
        PROVE  IF Owned(x) THEN word'[x].use = 8 ELSE word'[x].use = 0 \/ (memory /\ word'[x].use = 8)
    <3>1. CASE x = b
      BY <1>7, <3>1
    <3>2. CASE x # b
      BY <1>1, <1>2, <1>3, <1>7, <2>2, <3>2 DEF Good, UseOK, Repairing, b
    <3> QED
      BY <3>1, <3>2
  <2> QED
    BY <1>1, <1>3, <1>6, <1>7, <2>1, <2>2 DEF UseOK
<1> QED
  BY <1>5, <1>7, <1>8, <1>9, <1>10, <1>11, <1>12 DEF IInv, Good

LEMMA CommitIInv ==
    ASSUME IInv, Commit
    PROVE  IInv'
<1>1. /\ stage = <<"idle">> /\ ~missed /\ stage' = <<"walk">>
      /\ rows' = [r \in RowIds |-> IF r \in new THEN [rows[r] EXCEPT !.ctrl = "commit"] ELSE rows[r]]
      /\ new' = {} /\ dirty' = ~memory
      /\ UNCHANGED <<memory, word, first, last, top, opened, del, upd, missed>>
  BY DEF Commit, Running, storeVars
<1>2. Good /\ stage[1] = "idle" /\ ~Repairing /\ ~Updating /\ Pending = {} /\ upd = NoUpdate /\ upd.block = NoBlock
  BY <1>1, AtRest
<1>3. /\ stage'[1] = "walk" /\ ~Repairing' /\ ~Updating' /\ Pending' = {}
      /\ \A x : stage' # <<"refused", x>> /\ stage # <<"refused", x>>
  BY <1>1 DEF Repairing, Updating, Pending
<1>4. /\ rows' \in [RowIds -> [ctrl : {"free", "trans", "commit"}, block : VBlocks \union {NoBlock},
                               says : Texts \union {NoText}]]
      /\ \A q \in RowIds : /\ rows'[q].block = rows[q].block /\ rows'[q].says = rows[q].says
                           /\ rows'[q].ctrl = IF q \in new THEN "commit" ELSE rows[q].ctrl
                           /\ q \notin new => rows'[q] = rows[q]
  BY <1>1, <1>2 DEF Good, Types
<1>5. StoreTypes' /\ ListsOK'
  BY <1>1, <1>2, <1>3, StoreSame DEF Good, Types, StoreTypes
<1>6. Types'
  BY <1>1, <1>2, <1>4, <1>5 DEF Good, Types
<1>7. RowsOK'
  BY <1>1, <1>2, <1>4 DEF Good, RowsOK
<1>8. TransOK'
  BY <1>2, <1>3, <1>4 DEF Good, TransOK, Trans
<1>9. UpdateOK' /\ RefusedOK' /\ RepairOK'
  BY <1>1, <1>2, <1>3 DEF UpdateOK, RefusedOK, RepairOK
<1>10. UseOK'
  <2>1. \A x \in VBlocks : Owned(x)' <=> Owned(x)
    BY <1>4 DEF Owned
  <2> QED
    BY <1>1, <1>2, <1>3, <2>1 DEF Good, UseOK, Repairing
<1> QED
  BY <1>1, <1>2, <1>5, <1>6, <1>7, <1>8, <1>9, <1>10 DEF IInv, Good

\* Steps between statements that change no row and no list.
LEMMA QuietStep ==
    ASSUME IInv, ~missed, stage \in {<<"idle">>, <<"walk">>}, stage' \in {<<"idle">>, <<"walk">>},
           UNCHANGED <<memory, rows, word, first, last, top, upd, missed>>,
           opened' \subseteq Classes, dirty' \in BOOLEAN, dirty' => ~memory,
           new' \subseteq RowIds, del' \subseteq RowIds,
           Trans \subseteq IF stage' = <<"walk">> THEN del' ELSE new'
    PROVE  IInv'
<1>1. Good /\ ~Repairing /\ ~Updating /\ Pending = {} /\ \A x : stage # <<"refused", x>>
  BY DEF IInv, Repairing, Updating, Pending
<1>2. /\ stage'[1] \in {"idle", "walk"} /\ ~Repairing' /\ ~Updating' /\ Pending' = {}
      /\ \A x : stage' # <<"refused", x>>
      /\ stage'[1] = "walk" <=> stage' = <<"walk">>
  BY DEF Repairing, Updating, Pending
<1>3. upd = NoUpdate /\ upd.block = NoBlock
  BY <1>1, NoBlockIsNone DEF Good, UpdateOK
<1>4. StoreTypes' /\ ListsOK'
  BY <1>1, <1>2, StoreSame DEF Good, Types
<1>5. Types'
  BY <1>1, <1>4 DEF Good, Types
<1>6. RowsOK' /\ TransOK'
  BY <1>1, <1>2 DEF Good, RowsOK, TransOK, Trans
<1>7. UpdateOK' /\ RefusedOK' /\ RepairOK'
  BY <1>2, <1>3 DEF UpdateOK, RefusedOK, RepairOK
<1>8. UseOK'
  BY <1>1, <1>2 DEF Good, UseOK, Repairing, Owned
<1> QED
  BY <1>2, <1>4, <1>5, <1>6, <1>7, <1>8 DEF IInv, Good

LEMMA RollbackIInv == ASSUME IInv, Rollback PROVE IInv'
<1>1. /\ stage = <<"idle">> /\ ~missed /\ stage' = <<"walk">> /\ del' = new /\ new' = {} /\ dirty' = ~memory
      /\ UNCHANGED <<memory, rows, word, first, last, top, opened, upd, missed>>
  BY DEF Rollback, Running, Touch, storeVars
<1>2. Good /\ stage[1] = "idle"
  BY <1>1, AtRest
<1>3. Trans \subseteq del' /\ new \subseteq RowIds /\ memory \in BOOLEAN /\ opened \subseteq Classes
  BY <1>1, <1>2 DEF Good, TransOK, Types, StoreTypes
<1> QED
  BY <1>1, <1>3, QuietStep

LEMMA WalkEndIInv == ASSUME IInv, WalkEnd PROVE IInv'
<1>1. /\ stage[1] = "walk" /\ ~missed /\ stage' = <<"idle">> /\ del = {}
      /\ UNCHANGED <<memory, rows, word, first, last, top, opened, new, del, dirty, upd, missed>>
  BY DEF WalkEnd, storeVars, txVars, markVars
<1>2. Good
  BY <1>1 DEF IInv
<1>3. stage = <<"walk">> /\ stage' # <<"walk">>
  BY <1>1, <1>2 DEF Good, Types
<1>4. /\ Trans \subseteq new' /\ new' \subseteq RowIds /\ del' \subseteq RowIds /\ dirty' \in BOOLEAN
      /\ opened' \subseteq Classes /\ (dirty' => ~memory)
  BY <1>1, <1>2 DEF Good, TransOK, Types, StoreTypes, RepairOK
<1> QED
  BY <1>1, <1>3, <1>4, QuietStep

LEMMA FlushIInv == ASSUME IInv, Flush PROVE IInv'
<1>1. /\ stage = <<"idle">> /\ ~missed /\ dirty' = FALSE
      /\ UNCHANGED <<memory, rows, word, first, last, top, opened, new, del, stage, upd, missed>>
  BY DEF Flush, Running, storeVars, txVars
<1>2. Good /\ stage[1] = "idle"
  BY <1>1, AtRest
<1>3. Trans \subseteq new' /\ new' \subseteq RowIds /\ del' \subseteq RowIds /\ opened' \subseteq Classes
  BY <1>1, <1>2 DEF Good, TransOK, Types, StoreTypes
<1> QED
  BY <1>1, <1>3, QuietStep

LEMMA ReadIInv == ASSUME IInv, NEW r \in RowIds, Read(r) PROVE IInv'
<1>1. /\ stage = <<"idle">> /\ ~missed /\ rows[r].block # NoBlock
      /\ opened' = opened \union {rows[r].block[1]}
      /\ UNCHANGED <<memory, rows, word, first, last, top, new, del, dirty, stage, upd, missed>>
  BY DEF Read, Running, txVars, markVars
<1>2. Good /\ stage[1] = "idle"
  BY <1>1, AtRest
<1>3. rows[r].block[1] \in Classes
  BY <1>1, <1>2 DEF Good, Types, VBlocks
<1>4. /\ Trans \subseteq new' /\ new' \subseteq RowIds /\ del' \subseteq RowIds /\ dirty' \in BOOLEAN
      /\ opened' \subseteq Classes /\ (dirty' => ~memory)
  BY <1>1, <1>2, <1>3 DEF Good, TransOK, Types, StoreTypes, RepairOK
<1> QED
  BY <1>1, <1>4, QuietStep

LEMMA ReopenIInv == ASSUME IInv, Reopen PROVE IInv'
<1>1. /\ stage = <<"idle">> /\ opened' = {} /\ dirty' = FALSE
      /\ UNCHANGED <<memory, rows, word, first, last, top, new, del, stage, upd, missed>>
  BY DEF Reopen, txVars
<1>2. CASE missed
  BY <1>1, <1>2 DEF IInv
<1>3. CASE ~missed
  <2>1. Good /\ stage[1] = "idle"
    BY <1>1, <1>3, AtRest
  <2>2. Trans \subseteq new' /\ new' \subseteq RowIds /\ del' \subseteq RowIds
    BY <1>1, <2>1 DEF Good, TransOK, Types
  <2> QED
    BY <1>1, <1>3, <2>2, QuietStep
<1> QED
  BY <1>2, <1>3

LEMMA DieIInv == ASSUME IInv, Die PROVE IInv'
BY DEF IInv, Die

LEMMA WalkRowIInv ==
    ASSUME IInv, NEW r \in RowIds, WalkRow(r)
    PROVE  IInv'
<1>1. /\ stage[1] = "walk" /\ ~missed /\ FreeRow(r) /\ del' = del \ {r}
      /\ UNCHANGED <<memory, new, dirty, stage, upd>>
  BY DEF WalkRow, markVars
<1>2. Good /\ ~Repairing /\ ~Updating /\ Pending = {} /\ \A x : stage # <<"refused", x>>
  BY <1>1 DEF IInv, Repairing, Updating, Pending
<1>3. stage'[1] = "walk" /\ ~Repairing' /\ ~Updating' /\ Pending' = {}
  BY <1>1, <1>2 DEF Repairing, Updating, Pending
<1>4. upd = NoUpdate /\ \A x \in VBlocks : upd.block # x
  BY <1>2, NoBlockIsNone DEF Good, UpdateOK
<1>5. UpdateOK' /\ RefusedOK' /\ RepairOK'
  BY <1>1, <1>2, <1>3, <1>4, NoBlockIsNone DEF Good, UpdateOK, RefusedOK, RepairOK
<1>6. missed' \in BOOLEAN
  BY <1>1 DEF FreeRow, Drop
<1>7. ASSUME ~missed' PROVE Good'
  <2>1. /\ StoreTypes' /\ ListsOK' /\ RowsOK' /\ UNCHANGED <<top, opened>>
        /\ rows' \in [RowIds -> [ctrl : {"free", "trans", "commit"}, block : VBlocks \union {NoBlock},
                                 says : Texts \union {NoText}]]
        /\ \A q \in RowIds : rows'[q] = IF q = r THEN FreeSlot ELSE rows[q]
        /\ \A x \in VBlocks :
              /\ Owned(x)' <=> Owned(x) /\ rows[r].block # x
              /\ word'[x].use = IF x # rows[r].block THEN word[x].use
                                ELSE IF upd.block = x THEN 8 ELSE 0
    BY <1>1, <1>2, <1>3, <1>7, FreeRowGives DEF Good
  <2>2. Types'
    BY <1>1, <1>2, <2>1 DEF Good, Types
  <2>3. TransOK'
    <3>1. FreeSlot.ctrl = "free"
      BY DEF FreeSlot
    <3> QED
      BY <1>1, <1>2, <1>3, <2>1, <3>1 DEF Good, TransOK, Trans
  <2>4. UseOK'
    BY <1>1, <1>2, <1>3, <1>4, <2>1 DEF Good, UseOK, Repairing
  <2> QED
    BY <1>5, <2>1, <2>2, <2>3, <2>4 DEF Good
<1> QED
  BY <1>3, <1>6, <1>7 DEF IInv

LEMMA RepairMarkIInv ==
    ASSUME IInv, RepairMark
    PROVE  IInv'
<1>1. /\ stage = <<"idle">> /\ ~missed /\ dirty /\ new = {} /\ stage' = <<"rows">>
      /\ first' = [c \in Classes |-> IF c \in opened THEN 0 ELSE first[c]]
      /\ last' = [c \in Classes |-> IF c \in opened THEN 0 ELSE last[c]]
      /\ word' = [b \in VBlocks |->
                    IF b[1] \in opened /\ b[2] <= top[b[1]] /\ word[b].use >= 8
                    THEN [word[b] EXCEPT !.use = 15] ELSE word[b]]
      /\ missed' = \E c \in Classes : c \notin opened /\ top[c] > 0
      /\ UNCHANGED <<memory, rows, top, opened, new, del, dirty, upd>>
  BY DEF RepairMark, Running, txVars, markVars
<1>2. Good /\ stage[1] = "idle" /\ ~Repairing /\ ~Updating /\ Pending = {} /\ upd = NoUpdate /\ upd.block = NoBlock
  BY <1>1, AtRest
<1>3. stage'[1] = "rows" /\ Repairing' /\ ~Updating' /\ Pending' = VBlocks
  BY <1>1 DEF Repairing, Updating, Pending
<1>4. missed' \in BOOLEAN
  BY <1>1
<1>5. ASSUME ~missed' PROVE Good'
  <2>1. \A c \in Classes : top[c] # 0 => c \in opened
    BY <1>1, <1>2, <1>5 DEF Good, Types, StoreTypes
  <2>2. /\ word' \in [VBlocks -> [use : Nat, link : Nat, text : Texts \union {NoText}]]
        /\ \A x \in VBlocks :
              /\ word'[x].text = word[x].text
              /\ word'[x].use = IF x[1] \in opened /\ x[2] <= top[x[1]] /\ word[x].use >= 8
                                THEN 15 ELSE word[x].use
    BY <1>1, <1>2 DEF Good, Types, StoreTypes
  <2>3. StoreTypes'
    BY <1>1, <1>2, <2>2 DEF Good, Types, StoreTypes
  <2>4. Types'
    BY <1>1, <1>2, <2>3 DEF Good, Types
  <2>5. RowsOK'
    <3>1. \A q \in RowIds : rows[q].block # NoBlock => rows[q].block \in VBlocks
      BY <1>2 DEF Good, Types
    <3> QED
      BY <1>1, <1>2, <2>2, <3>1 DEF Good, RowsOK
  <2>6. TransOK'
    BY <1>1, <1>2, <1>3 DEF Good, TransOK, Trans
  <2>7. UpdateOK' /\ RefusedOK' /\ RepairOK'
    BY <1>1, <1>2, <1>3, <2>1 DEF Good, UpdateOK, RefusedOK, RepairOK
  <2>8. UseOK'
    <3>1. ASSUME NEW x \in VBlocks, x[2] <= top[x[1]]
          PROVE  word'[x].use \in {0, 15} /\ (Owned(x) => word'[x].use = 15)
      <4>1. x[1] \in Classes /\ x[2] \in 1..MaxBlocks /\ top[x[1]] \in Nat
        BY <1>2 DEF VBlocks, Good, Types, StoreTypes
      <4>2. x[1] \in opened
        BY <2>1, <3>1, <4>1
      <4>3. word[x].use \in {0, 8} /\ (Owned(x) => word[x].use = 8)
        <5>1. upd.block # x /\ stage # <<"refused", x>>
          BY <1>1, <1>2, NoBlockIsNone
        <5> QED
          BY <1>2, <3>1, <5>1 DEF Good, UseOK, Repairing
      <4> QED
        BY <2>2, <3>1, <4>2, <4>3
    <3>2. \A x \in VBlocks : Owned(x)' <=> Owned(x)
      BY <1>1 DEF Owned
    <3> QED
      BY <1>1, <1>3, <3>1, <3>2 DEF UseOK
  <2>9. ASSUME NEW c \in Classes PROVE ListAt(c)'
    <3>1. Spare(c)' = {}
      BY <1>3 DEF Spare, VBlocks
    <3>2. first'[c] = 0 /\ last'[c] = 0
      <4>1. CASE c \in opened
        BY <1>1, <4>1
      <4>2. CASE c \notin opened
        <5>1. top[c] = 0
          BY <2>1, <4>2
        <5>2. Spare(c) = {}
          BY <5>1 DEF Spare
        <5>3. PICK n \in Nat : \E s \in [1..n -> Spare(c)] : Follows(n, s, Spare(c), first[c], last[c], Links(c))
          BY <1>2 DEF Good, ListsOK, ListAt, IsList
        <5>4. PICK s \in [1..n -> Spare(c)] : Follows(n, s, Spare(c), first[c], last[c], Links(c))
          BY <5>3
        <5>5. n = 0
          <6>1. \A i \in 1..n : s[i] \in Spare(c)
            OBVIOUS
          <6> QED
            BY <5>2, <6>1
        <5>6. first[c] = 0 /\ last[c] = 0
          BY <5>4, <5>5 DEF Follows
        <5> QED
          BY <1>1, <4>2, <5>6
      <4> QED
        BY <4>1, <4>2
    <3> QED
      BY <3>1, <3>2, ListEmpty DEF ListAt
  <2> QED
    BY <2>3, <2>4, <2>5, <2>6, <2>7, <2>8, <2>9 DEF Good, ListsOK
<1> QED
  BY <1>3, <1>4, <1>5 DEF IInv

\* In a repair the rows that have blocks are the committed ones.
LEMMA WantedAre ==
    ASSUME Types, RowsOK, Trans = {}, NEW b \in VBlocks
    PROVE  b \in Wanted <=> Owned(b)
<1>1. \A r \in RowIds : rows[r].block = b => rows[r].ctrl = "commit"
  <2>1. FreeSlot.block = NoBlock
    BY DEF FreeSlot
  <2> QED
    BY <2>1, NoBlockIsNone DEF Types, RowsOK, Trans
<1> QED
  BY <1>1, NoBlockIsNone DEF Wanted, Owned

LEMMA RepairRowsIInv ==
    ASSUME IInv, RepairRows
    PROVE  IInv'
<1>1. /\ stage[1] = "rows" /\ stage' = <<"clean", VBlocks>>
      /\ word' = [b \in VBlocks |-> IF b \in Wanted THEN [word[b] EXCEPT !.use = 8] ELSE word[b]]
      /\ opened' = opened \union {b[1] : b \in Wanted}
      /\ UNCHANGED <<memory, rows, first, last, top, new, del, dirty, upd, missed>>
  BY DEF RepairRows, txVars, markVars
<1>2. stage'[1] = "clean" /\ stage'[2] = VBlocks /\ Repairing' /\ ~Updating' /\ Pending' = VBlocks
  BY <1>1 DEF Repairing, Updating, Pending
<1>3. CASE missed
  BY <1>1, <1>2, <1>3 DEF IInv
<1>4. CASE ~missed
  <2>1. Good /\ Repairing /\ ~Updating /\ Pending = VBlocks
    BY <1>1, <1>4 DEF IInv, Repairing, Updating, Pending
  <2>2. Trans = {} /\ new = {} /\ upd = NoUpdate /\ ~memory
    BY <1>1, <2>1 DEF Good, TransOK, RepairOK, UpdateOK
  <2>3. \A x \in VBlocks : x \in Wanted <=> Owned(x)
    BY <2>1, <2>2, WantedAre DEF Good
  <2>4. /\ word' \in [VBlocks -> [use : Nat, link : Nat, text : Texts \union {NoText}]]
        /\ \A x \in VBlocks : /\ word'[x].text = word[x].text
                              /\ word'[x].use = IF Owned(x) THEN 8 ELSE word[x].use
    <3>1. word' = [x \in VBlocks |-> IF Owned(x) THEN [word[x] EXCEPT !.use = 8] ELSE word[x]]
      BY <1>1, <2>3
    <3>2. word \in [VBlocks -> [use : Nat, link : Nat, text : Texts \union {NoText}]]
      BY <2>1 DEF Good, Types, StoreTypes
    <3> QED
      BY <3>1, <3>2
  <2>5. Wanted \subseteq VBlocks
    BY <2>1 DEF Wanted, Good, Types
  <2>6. opened' \subseteq Classes /\ opened \subseteq opened'
    BY <1>1, <2>1, <2>5 DEF Good, Types, StoreTypes, VBlocks
  <2>7. StoreTypes'
    BY <1>1, <2>1, <2>4, <2>6 DEF Good, Types, StoreTypes
  <2>8. Types'
    <3>1. stage' \in {"clean"} \X SUBSET VBlocks
      BY <1>1
    <3> QED
      BY <1>1, <2>1, <2>7, <3>1 DEF Good, Types
  <2>9. RowsOK'
    <3>1. \A q \in RowIds : rows[q].block # NoBlock => rows[q].block \in VBlocks
      BY <2>1 DEF Good, Types
    <3> QED
      BY <1>1, <2>1, <2>4, <3>1 DEF Good, RowsOK
  <2>10. TransOK' /\ RefusedOK'
    BY <1>1, <1>2, <2>2 DEF TransOK, RefusedOK, Trans
  <2>11. UpdateOK' /\ RepairOK'
    BY <1>1, <1>2, <2>1, <2>2, <2>6, NoBlockIsNone DEF Good, UpdateOK, RepairOK
  <2>12. UseOK'
    <3>1. \A x \in VBlocks : Owned(x)' <=> Owned(x)
      BY <1>1 DEF Owned
    <3>2. \A x \in VBlocks : x[2] <= top[x[1]] => word[x].use \in {0, 15}
      BY <1>1, <2>1 DEF Good, UseOK
    <3> QED
      BY <1>1, <1>2, <2>4, <3>1, <3>2 DEF UseOK
  <2>13. ASSUME NEW c \in Classes PROVE ListAt(c)'
    <3>1. Spare(c) = {} /\ Spare(c)' = {}
      BY <1>2, <2>1 DEF Spare, VBlocks
    <3> QED
      BY <1>1, <2>1, <3>1, ListStays DEF Good, ListsOK
  <2> QED
    BY <1>1, <1>4, <2>7, <2>8, <2>9, <2>10, <2>11, <2>12, <2>13 DEF IInv, Good, ListsOK
<1> QED
  BY <1>3, <1>4

LEMMA RepairCleanIInv ==
    ASSUME IInv, RepairClean
    PROVE  IInv'
<1>1. PICK b \in stage[2] :
         /\ stage' = <<"clean", stage[2] \ {b}>>
         /\ IF Unwanted(b) THEN Release(b) ELSE UNCHANGED storeVars
  BY DEF RepairClean
<1>2. stage[1] = "clean" /\ UNCHANGED <<memory, rows, new, del, dirty, upd, missed>>
  BY DEF RepairClean, txVars, markVars
<1>3. /\ stage'[1] = "clean" /\ stage'[2] = stage[2] \ {b} /\ Repairing' /\ ~Updating'
      /\ Pending' = stage[2] \ {b}
  BY <1>1 DEF Repairing, Updating, Pending
<1>4. CASE missed
  BY <1>2, <1>3, <1>4 DEF IInv
<1>5. CASE ~missed
  <2>1. Good /\ Repairing /\ ~Updating /\ Pending = stage[2]
    BY <1>2, <1>5 DEF IInv, Repairing, Updating, Pending
  <2>2. stage[2] \subseteq VBlocks /\ b \in VBlocks
    BY <1>1, <1>2, <2>1 DEF Good, Types
  <2>3. /\ Trans = {} /\ new = {} /\ upd = NoUpdate /\ ~memory
        /\ \A c \in Classes : top[c] # 0 => c \in opened
    BY <1>2, <2>1 DEF Good, TransOK, RepairOK, UpdateOK
  <2>4. \A x \in VBlocks : x[2] <= top[x[1]] =>
           /\ word[x].use \in {0, 8, 15} /\ (word[x].use = 8 <=> Owned(x))
           /\ x \notin stage[2] => word[x].use # 15
    BY <1>2, <2>1 DEF Good, UseOK
  <2>5. \A x \in VBlocks : (Owned(x)' <=> Owned(x)) /\ (Owned(x) => x[2] <= top[x[1]])
    BY <1>2, <2>1, NoBlockIsNone DEF Owned, Good, RowsOK
  <2>6. /\ StoreTypes' /\ ListsOK' /\ UNCHANGED <<top, opened>>
        /\ \A x \in VBlocks :
              /\ x # b => word'[x].use = word[x].use
              /\ b[2] <= top[b[1]] => word'[b].use = IF Owned(b) THEN 8 ELSE 0
              /\ Owned(x) => word'[x].text = word[x].text
    <3>1. CASE Unwanted(b)
      <4>1. b[2] <= top[b[1]] /\ ~Owned(b) /\ Release(b)
        BY <1>1, <2>2, <2>4, <3>1 DEF Unwanted
      <4>2. b \in Pending /\ Pending' = Pending \ {b}
        BY <1>3, <2>1
      <4>3. /\ StoreTypes' /\ ListsOK' /\ UNCHANGED <<top, opened>>
            /\ \A x \in VBlocks : /\ word'[x].use = IF x = b THEN 0 ELSE word[x].use
                                  /\ x # b => word'[x].text = word[x].text
        BY <2>1, <2>2, <4>1, <4>2, ReleaseGives DEF Good, Types
      <4> QED
        BY <2>2, <4>1, <4>3
    <3>2. CASE ~Unwanted(b)
      <4>1. UNCHANGED <<word, first, last, top, opened>>
        BY <1>1, <3>2 DEF storeVars
      <4>2. b[2] <= top[b[1]] => word[b].use = 8
        <5>1. b[1] \in Classes /\ b[2] \in 1..MaxBlocks
          BY <2>2 DEF VBlocks
        <5>2. b[2] <= top[b[1]] => b[1] \in opened
          BY <2>1, <2>3, <5>1 DEF Good, Types, StoreTypes
        <5> QED
          BY <3>2, <5>2 DEF Unwanted
      <4>3. StoreTypes'
        BY <2>1, <4>1 DEF Good, Types, StoreTypes
      <4>4. ASSUME NEW c \in Classes PROVE ListAt(c)'
        <5>1. ASSUME NEW i \in 1..MaxBlocks PROVE i \in Spare(c)' <=> i \in Spare(c)
          <6>1. CASE <<c, i>> = b
            <7>1. c = b[1] /\ i = b[2]
              BY <6>1
            <7> QED
              BY <4>1, <4>2, <6>1, <7>1 DEF Spare
          <6>2. CASE <<c, i>> # b
            BY <1>3, <2>1, <4>1, <6>2 DEF Spare
          <6> QED
            BY <6>1, <6>2
        <5>2. Spare(c)' = Spare(c)
          BY <5>1 DEF Spare
        <5> QED
          BY <2>1, <4>1, <5>2, ListStays DEF Good, ListsOK
      <4>5. b[2] <= top[b[1]] => Owned(b)
        BY <2>2, <2>4, <4>2
      <4> QED
        BY <2>2, <4>1, <4>2, <4>3, <4>4, <4>5 DEF ListsOK
    <3> QED
      BY <3>1, <3>2
  <2>7. Types'
    <3>1. stage' \in {"clean"} \X SUBSET VBlocks
      BY <1>1, <2>2
    <3> QED
      BY <1>2, <2>1, <2>6, <3>1 DEF Good, Types
  <2>8. RowsOK'
    <3>1. \A q \in RowIds : rows[q].block # NoBlock => rows[q].block \in VBlocks /\ Owned(rows[q].block)
      BY <2>1 DEF Good, Types, Owned
    <3> QED
      BY <1>2, <2>1, <2>6, <3>1 DEF Good, RowsOK
  <2>9. TransOK' /\ RefusedOK'
    BY <1>2, <1>3, <2>3 DEF TransOK, RefusedOK, Trans
  <2>10. UpdateOK' /\ RepairOK'
    BY <1>2, <1>3, <2>1, <2>3, <2>6, NoBlockIsNone DEF Good, UpdateOK, RepairOK
  <2>11. UseOK'
    <3>1. ASSUME NEW x \in VBlocks, x[2] <= top[x[1]]
          PROVE  /\ word'[x].use \in {0, 8, 15} /\ (word'[x].use = 8 <=> Owned(x))
                 /\ x \notin stage'[2] => word'[x].use # 15
      <4>1. CASE x = b
        BY <2>6, <3>1, <4>1
      <4>2. CASE x # b
        BY <1>3, <2>4, <2>6, <3>1, <4>2
      <4> QED
        BY <4>1, <4>2
    <3> QED
      BY <1>3, <2>5, <2>6, <3>1 DEF UseOK
  <2> QED
    BY <1>2, <1>5, <2>6, <2>7, <2>8, <2>9, <2>10, <2>11 DEF IInv, Good
<1> QED
  BY <1>4, <1>5

LEMMA RepairEndIInv ==
    ASSUME IInv, RepairEnd
    PROVE  IInv'
<1>1. /\ stage = <<"clean", {}>> /\ stage' = <<"idle">> /\ dirty' = FALSE
      /\ UNCHANGED <<memory, rows, word, first, last, top, opened, new, del, upd, missed>>
  BY DEF RepairEnd, storeVars, txVars
<1>2. stage'[1] = "idle" /\ ~Repairing' /\ ~Updating' /\ Pending' = {} /\ \A x : stage' # <<"refused", x>>
  BY <1>1 DEF Repairing, Updating, Pending
<1>3. CASE missed
  BY <1>1, <1>2, <1>3 DEF IInv
<1>4. CASE ~missed
  <2>1. stage[1] = "clean" /\ stage[2] = {}
    BY <1>1
  <2>2. Good /\ Repairing /\ ~Updating /\ Pending = {}
    BY <1>4, <2>1 DEF IInv, Repairing, Updating, Pending
  <2>3. upd = NoUpdate /\ ~memory /\ \A x \in VBlocks : upd.block # x
    BY <2>2, NoBlockIsNone DEF Good, UpdateOK, RepairOK
  <2>4. StoreTypes' /\ ListsOK'
    BY <1>1, <1>2, <2>2, StoreSame DEF Good, Types, StoreTypes
  <2>5. Types'
    BY <1>1, <2>2, <2>4 DEF Good, Types
  <2>6. RowsOK' /\ TransOK'
    BY <1>1, <1>2, <2>1, <2>2 DEF Good, RowsOK, TransOK, Trans
  <2>7. UpdateOK' /\ RefusedOK' /\ RepairOK'
    BY <1>1, <1>2, <2>3, NoBlockIsNone DEF UpdateOK, RefusedOK, RepairOK
  <2>8. UseOK'
    <3>1. \A x \in VBlocks : Owned(x)' <=> Owned(x)
      BY <1>1 DEF Owned
    <3> QED
      BY <1>1, <1>2, <2>1, <2>2, <2>3, <3>1 DEF Good, UseOK
  <2> QED
    BY <1>1, <1>4, <2>4, <2>5, <2>6, <2>7, <2>8 DEF IInv, Good
<1> QED
  BY <1>3, <1>4

\* Every name of the invariant is a function of the variables.
LEMMA StutterIInv == ASSUME IInv, UNCHANGED vdataVars PROVE IInv'
<1>1. UNCHANGED <<memory, rows, word, first, last, top, opened, new, del, dirty, stage, upd, missed>>
  BY DEF vdataVars, storeVars, txVars, markVars
<1>2. Types' <=> Types
  BY <1>1 DEF Types, StoreTypes
<1>3. (RowsOK' <=> RowsOK) /\ (TransOK' <=> TransOK)
  BY <1>1 DEF RowsOK, TransOK, Trans
<1>4. (UpdateOK' <=> UpdateOK) /\ (RefusedOK' <=> RefusedOK) /\ (RepairOK' <=> RepairOK)
  BY <1>1 DEF UpdateOK, Updating, RefusedOK, RepairOK, Repairing, Owned
<1>5. UseOK' <=> UseOK
  BY <1>1 DEF UseOK, Owned
<1>6. ListsOK' <=> ListsOK
  <2>1. \A c \in Classes : Spare(c)' = Spare(c) /\ Links(c)' = Links(c)
    BY <1>1 DEF Spare, Pending, Links
  <2> QED
    BY <1>1, <2>1 DEF ListsOK, ListAt
<1> QED
  BY <1>1, <1>2, <1>3, <1>4, <1>5, <1>6 DEF IInv, Good

LEMMA StepIInv == ASSUME IInv, [VdataNext]_vdataVars PROVE IInv'
<1>1. ASSUME VdataNext PROVE IInv'
  <2>1. ASSUME NEW fast \in BOOLEAN, NEW r \in RowIds, NEW t \in Texts \union {NoText}, InsertRow(r, t, fast)
        PROVE  IInv'
    BY <2>1, InsertRowIInv
  <2>2. ASSUME NEW fast \in BOOLEAN, NEW t \in Texts, RefuseRow(t, fast) PROVE IInv'
    BY <2>2, RefuseRowIInv
  <2>3. ASSUME NEW fast \in BOOLEAN, NEW r \in RowIds, DeleteRow(r, fast) \/ UpdateBegin(r, fast) PROVE IInv'
    BY <2>3, DeleteRowIInv, UpdateBeginIInv
  <2>4. CASE Update
    BY <2>4, UpdateCopyIInv, UpdateOldIInv, UpdateEndIInv DEF Update
  <2>5. CASE Repair
    BY <2>5, RepairMarkIInv, RepairRowsIInv, RepairCleanIInv, RepairEndIInv DEF Repair
  <2>6. ASSUME NEW r \in RowIds, WalkRow(r) \/ Read(r) PROVE IInv'
    BY <2>6, WalkRowIInv, ReadIInv
  <2>7. CASE EndRefused \/ Commit \/ Rollback \/ WalkEnd \/ Die \/ Flush \/ Reopen
    BY <2>7, EndRefusedIInv, CommitIInv, RollbackIInv, WalkEndIInv, DieIInv, FlushIInv, ReopenIInv
  <2> QED
    BY <1>1, <2>1, <2>2, <2>3, <2>4, <2>5, <2>6, <2>7 DEF VdataNext
<1> QED
  BY <1>1, StutterIInv

-------------------------------------------------------------------------------
(* The theorems.                                                            *)

\* The variables have their types, every list of a class runs through the free
\* blocks of it once, and every block in use counts the row and the UPDATE that
\* need it, in every state in which no closed store was met.
THEOREM VdataInvariant == VdataSpec => []IInv
<1>1. VdataInit => IInv
  BY InitIInv
<1>2. IInv /\ [VdataNext]_vdataVars => IInv'
  BY StepIInv
<1> QED
  BY <1>1, <1>2, PTL DEF VdataSpec

\* xdb_vdata_alloc, xdb_vdata_ref and xdb_vdata_free, as inserts, updates,
\* deletes, commits, rollbacks and repairs call them: a block has the string of
\* its one row and a count of those that need it, and is on the free list once
\* when nobody does.
THEOREM VdataBlocksExact == VdataSpec => []BlocksExact
<1>1. VdataSpec => []IInv
  BY VdataInvariant
<1>2. IInv => BlocksExact
  BY InvariantSays
<1> QED
  BY <1>1, <1>2, PTL
===============================================================================
