---------------------------- MODULE XdbStoreProofs ----------------------------
(***************************************************************************)
(* Proofs about the block store of core/xdb_store.c, for every initial and *)
(* maximal capacity: the free list inside the blocks stays exact through   *)
(* allocations, frees and the row-by-row rebuild of a repair, and the      *)
(* store implements the first-in first-out allocator of XdbStoreAbs.       *)
(***************************************************************************)
EXTENDS XdbStore, FiniteSetTheorems, SequenceTheorems, TLAPS

\* The inductive invariant.  The list of free blocks is followed by a witness,
\* the sequence of its ids; growing needs the blocks above blk_maxid to be free.
IInv == TypeOK /\ FreshAreFree /\ FreeListExact

\* A set of numbers has a least one.
LEMMA LeastNumber ==
    ASSUME NEW S, S \subseteq Nat, S # {}
    PROVE  \E m \in S : \A k \in S : m <= k
<1>1. PICK m \in S : \A k \in S : <<k, m>> \notin OpToRel(<, Nat)
  BY NatLessThanWellFounded, WFMin, Zenon
<1>2. ASSUME NEW k \in S PROVE ~(k < m)
  <2>1. k \in Nat /\ m \in Nat
    OBVIOUS
  <2> QED
    BY <1>1, <2>1 DEF OpToRel
<1>3. ASSUME NEW k \in S PROVE m <= k
  <2>1. k \in Nat /\ m \in Nat /\ ~(k < m)
    BY ONLY <1>2, S \subseteq Nat
  <2> QED
    BY ONLY <2>1
<1> QED
  BY ONLY <1>3

-------------------------------------------------------------------------------
\* The free blocks are finitely many.
LEMMA FreeFinite ==
    ASSUME TypeOK
    PROVE  IsFiniteSet(FreeBlocks) /\ Cardinality(FreeBlocks) \in Nat
<1>1. IsFiniteSet(1..maxid)
  BY FS_Interval DEF TypeOK
<1>2. FreeBlocks \subseteq 1..maxid
  BY DEF FreeBlocks
<1>3. IsFiniteSet(FreeBlocks)
  BY <1>1, <1>2, FS_Subset
<1> QED
  BY <1>3, FS_CardinalityType

\* The list without its first block, and with one more at its end.
Popped(n, s) == [i \in 1..(n - 1) |-> s[i + 1]]
Linked(n, s, r) == [i \in 1..(n + 1) |-> IF i = n + 1 THEN r ELSE s[i]]

\* Taking the first block off the list leaves the list of the others.
LEMMA PopKeepsList ==
    ASSUME IInv, TypeOK', head # 0, Pop(head),
           nxt' = [nxt EXCEPT ![head] = Data],
           FreeBlocks' = FreeBlocks \ {head},
           NEW n \in Nat, n = Cardinality(FreeBlocks),
           NEW s \in [1..n -> Blocks], IsFreeList(n, s)
    PROVE  /\ n - 1 \in Nat /\ n - 1 = Cardinality(FreeBlocks')
           /\ Popped(n, s) \in [1..(n - 1) -> Blocks] /\ IsFreeList(n - 1, Popped(n, s))'
<1>1. n \in Nat /\ n = Cardinality(FreeBlocks) /\ IsFiniteSet(FreeBlocks)
  BY FreeFinite DEF IInv
<1>2. s \in [1..n -> Blocks] /\ IsFreeList(n, s)
  OBVIOUS
<1>3. n > 0 /\ head = s[1] /\ tail = s[n] /\ nxt[s[n]] = 0
  BY <1>1, <1>2 DEF IsFreeList
<1>4. head \in FreeBlocks
  BY <1>1, <1>2, <1>3 DEF IsFreeList
<1>5. Cardinality(FreeBlocks') = n - 1
  BY <1>1, <1>4, FS_RemoveElement
<1> DEFINE z == Popped(n, s)
<1>6. z \in [1..(n - 1) -> Blocks] /\ \A i \in 1..(n - 1) : z[i] = s[i + 1]
  BY <1>1 DEF Popped
<1> HIDE DEF z
<1>7. \A i \in 1..n : \A j \in 1..n : s[i] = s[j] => i = j
  BY <1>2 DEF IsFreeList
<1>8. \A i \in 1..(n - 1) : z[i] \in FreeBlocks /\ z[i] # head /\ i + 1 \in 1..n
  BY <1>1, <1>2, <1>3, <1>6, <1>7 DEF IsFreeList
<1>9. {z[i] : i \in 1..(n - 1)} = FreeBlocks'
  <2>1. ASSUME NEW r \in FreeBlocks, r # head
        PROVE  \E i \in 1..(n - 1) : r = z[i]
    <3>1. PICK j \in 1..n : r = s[j]
      BY <1>2, <2>1 DEF IsFreeList
    <3>2. j # 1
      BY <1>3, <2>1, <3>1
    <3>3. j - 1 \in 1..(n - 1) /\ z[j - 1] = s[j]
      BY <1>1, <1>6, <3>1, <3>2
    <3> QED
      BY <3>1, <3>3
  <2> QED
    BY <1>8, <2>1
<1>10. \A i, j \in 1..(n - 1) : z[i] = z[j] => i = j
  <2>1. ASSUME NEW i \in 1..(n - 1), NEW j \in 1..(n - 1), z[i] = z[j]
        PROVE  i = j
    <3>1. i + 1 \in 1..n /\ j + 1 \in 1..n /\ s[i + 1] = s[j + 1]
      BY <1>1, <1>6, <2>1
    <3> QED
      BY <1>1, <1>7, <3>1
  <2> QED
    BY <2>1
<1>11. IF n - 1 = 0 THEN head' = 0 /\ tail' = 0
       ELSE head' = z[1] /\ tail' = z[n - 1] /\ nxt'[z[n - 1]] = 0
  <2>1. CASE n = 1
    BY <1>3, <2>1 DEF Pop
  <2>2. CASE n # 1
    <3>1. n - 1 \in 1..(n - 1) /\ z[n - 1] = s[n] /\ z[1] = s[2] /\ 1 \in 1..(n - 1)
      BY <1>1, <1>3, <1>6, <2>2
    <3>2. nxt[s[1]] = s[2]
      BY <1>2, <3>1 DEF IsFreeList
    <3>3. tail # head
      BY <1>8, <1>3, <3>1
    <3>4. nxt'[s[n]] = nxt[s[n]]
      <4>1. DOMAIN nxt = Blocks
        BY DEF IInv, TypeOK
      <4>2. s[n] \in Blocks /\ s[n] # head
        BY <1>1, <1>2, <1>8, <3>1
      <4> QED
        BY <4>1, <4>2
    <3> QED
      BY <1>3, <2>2, <3>1, <3>2, <3>3, <3>4 DEF Pop
  <2> QED
    BY <2>1, <2>2
<1>12. \A i \in 1..((n - 1) - 1) : nxt'[z[i]] = z[i + 1]
  <2>1. ASSUME NEW i \in 1..((n - 1) - 1)
        PROVE  nxt'[z[i]] = z[i + 1]
    <3>1. i \in 1..(n - 1) /\ i + 1 \in 1..(n - 1) /\ z[i] = s[i + 1] /\ z[i + 1] = s[(i + 1) + 1]
      BY <1>1, <1>6, <2>1
    <3>2. nxt[s[i + 1]] = s[(i + 1) + 1]
      BY <1>2, <3>1 DEF IsFreeList
    <3>3. nxt'[z[i]] = nxt[z[i]]
      BY <1>8, <3>1 DEF IInv, TypeOK
    <3> QED
      BY <3>1, <3>2, <3>3
  <2> QED
    BY <2>1
<1>13. IsFreeList(n - 1, z)'
  BY <1>9, <1>10, <1>11, <1>12 DEF IsFreeList
<1> QED
  BY <1>1, <1>3, <1>5, <1>6, <1>13 DEF z

\* Appending a block that is not on the list gives the list with it at the end.
LEMMA LinkKeepsList ==
    ASSUME IInv, TypeOK', NEW r \in Blocks, r \notin FreeBlocks, LinkFree(r),
           FreeBlocks' = FreeBlocks \union {r},
           NEW n \in Nat, n = Cardinality(FreeBlocks),
           NEW s \in [1..n -> Blocks], IsFreeList(n, s)
    PROVE  /\ n + 1 = Cardinality(FreeBlocks')
           /\ Linked(n, s, r) \in [1..(n + 1) -> Blocks] /\ IsFreeList(n + 1, Linked(n, s, r))'
<1>1. n \in Nat /\ n = Cardinality(FreeBlocks) /\ IsFiniteSet(FreeBlocks)
  BY FreeFinite DEF IInv
<1>2. s \in [1..n -> Blocks] /\ IsFreeList(n, s)
  OBVIOUS
<1>3. Cardinality(FreeBlocks') = n + 1
  BY <1>1, FS_AddElement
<1> DEFINE z == Linked(n, s, r)
<1>4. z \in [1..(n + 1) -> Blocks] /\ \A i \in 1..(n + 1) : z[i] = IF i = n + 1 THEN r ELSE s[i]
  BY <1>1 DEF Linked
<1> HIDE DEF z
<1>5. z[n + 1] = r /\ \A i \in 1..n : z[i] = s[i] /\ i \in 1..(n + 1) /\ s[i] \in FreeBlocks
  BY <1>1, <1>2, <1>4 DEF IsFreeList
<1>6. \A i \in 1..(n + 1) : i = n + 1 \/ i \in 1..n
  BY <1>1
<1>7. {z[i] : i \in 1..(n + 1)} = FreeBlocks'
  <2>1. FreeBlocks = {s[i] : i \in 1..n}
    BY <1>2 DEF IsFreeList
  <2>2. n + 1 \in 1..(n + 1)
    BY <1>1
  <2> QED
    BY <1>5, <1>6, <2>1, <2>2
<1>8. \A i, j \in 1..(n + 1) : z[i] = z[j] => i = j
  <2>1. \A i \in 1..n : \A j \in 1..n : s[i] = s[j] => i = j
    BY <1>2 DEF IsFreeList
  <2> QED
    BY <1>5, <1>6, <2>1
<1>9. tail # 0 <=> n # 0
  BY <1>1, <1>2 DEF IsFreeList, Blocks
<1>10. n # 0 => /\ tail = s[n] /\ head = s[1] /\ n \in 1..n /\ 1 \in 1..n
                /\ tail # r /\ tail \in Blocks
  BY <1>1, <1>2, <1>5 DEF IsFreeList
<1>11. head' = z[1] /\ tail' = z[n + 1] /\ nxt'[z[n + 1]] = 0
  <2>1. nxt'[r] = 0
    BY <1>9, <1>10 DEF LinkFree, IInv, TypeOK
  <2>2. head' = z[1]
    BY <1>5, <1>9, <1>10 DEF LinkFree
  <2> QED
    BY <1>5, <2>1, <2>2 DEF LinkFree
<1>12. ASSUME NEW i \in 1..((n + 1) - 1)
       PROVE  nxt'[z[i]] = z[i + 1]
  <2>1. i \in 1..n /\ z[i] = s[i] /\ n # 0 /\ s[i] # r /\ s[i] \in Blocks
    BY <1>1, <1>5, <1>12
  <2>2. CASE i = n
    BY <1>5, <1>9, <1>10, <2>1, <2>2 DEF LinkFree, IInv, TypeOK
  <2>3. CASE i # n
    <3>1. i \in 1..(n - 1) /\ i + 1 \in 1..n
      BY <1>1, <2>1, <2>3
    <3>2. nxt[s[i]] = s[i + 1]
      BY <1>2, <3>1 DEF IsFreeList
    <3>3. s[i] # tail
      BY <1>2, <1>10, <2>1, <2>3 DEF IsFreeList
    <3>4. nxt'[s[i]] = nxt[s[i]]
      BY <1>9, <1>10, <2>1, <3>3 DEF LinkFree, IInv, TypeOK
    <3> QED
      BY <1>5, <2>1, <3>1, <3>2, <3>4
  <2> QED
    BY <2>2, <2>3
<1>13. n + 1 # 0
  BY <1>1
<1>14. IsFreeList(n + 1, z)'
  BY <1>7, <1>8, <1>11, <1>12, <1>13 DEF IsFreeList
<1> QED
  BY <1>3, <1>4, <1>14 DEF z

\* A sequence that lists the free blocks is all the exactness asks for.
LEMMA ExactIf ==
    ASSUME NEW n, n = Cardinality(FreeBlocks'), NEW s \in [1..n -> Blocks], IsFreeList(n, s)'
    PROVE  FreeListExact'
BY DEF FreeListExact, Blocks

\* The ends of an exact list.
LEMMA ListEnds ==
    ASSUME IInv
    PROVE  /\ head # 0 => head \in FreeBlocks /\ nxt[head] \in 0..MaxCap
           /\ head = 0 => FreeBlocks = {} /\ tail = 0
<1>1. PICK n \in Nat : n = Cardinality(FreeBlocks)
  BY FreeFinite DEF IInv
<1>2. PICK s \in [1..n -> Blocks] : IsFreeList(n, s)
  BY <1>1 DEF IInv, FreeListExact
<1>3. CASE n = 0
  BY <1>2, <1>3 DEF IsFreeList
<1>4. CASE n # 0
  <2>1. head = s[1] /\ head \in FreeBlocks /\ nxt[s[n]] = 0 /\ head # 0
    BY <1>2, <1>4 DEF IsFreeList, Blocks
  <2>2. n # 1 => nxt[s[1]] = s[2] /\ s[2] \in Blocks
    BY <1>1, <1>2, <1>4 DEF IsFreeList
  <2> QED
    BY <2>1, <2>2, StoreAssumption DEF Blocks
<1> QED
  BY <1>3, <1>4

\* An allocation that takes the first block leaves an exact list.
LEMMA PopExact ==
    ASSUME IInv, TypeOK', head # 0, Pop(head),
           nxt' = [nxt EXCEPT ![head] = Data],
           FreeBlocks' = FreeBlocks \ {head}
    PROVE  FreeListExact'
<1>1. PICK n \in Nat : n = Cardinality(FreeBlocks)
  BY FreeFinite DEF IInv
<1>2. PICK s \in [1..n -> Blocks] : IsFreeList(n, s)
  BY <1>1 DEF IInv, FreeListExact
<1> QED
  BY <1>1, <1>2, PopKeepsList, ExactIf

\* A free appends to an exact list and leaves an exact list.
LEMMA LinkExact ==
    ASSUME IInv, TypeOK', NEW r \in Blocks, r \notin FreeBlocks, LinkFree(r),
           FreeBlocks' = FreeBlocks \union {r}
    PROVE  FreeListExact'
<1>1. PICK n \in Nat : n = Cardinality(FreeBlocks)
  BY FreeFinite DEF IInv
<1>2. PICK s \in [1..n -> Blocks] : IsFreeList(n, s)
  BY <1>1 DEF IInv, FreeListExact
<1> QED
  BY <1>1, <1>2, LinkKeepsList, ExactIf

-------------------------------------------------------------------------------
\* A new store has an empty list.
LEMMA InitIInv == Init => IInv
<1> SUFFICES ASSUME Init PROVE IInv
  OBVIOUS
<1>1. TypeOK /\ FreshAreFree
  BY StoreAssumption DEF Init, TypeOK, FreshAreFree, Blocks, FREE
<1>2. FreeBlocks = {}
  BY DEF Init, FreeBlocks
<1>3. Cardinality(FreeBlocks) = 0
  BY <1>2, FS_EmptySet
<1>4. [i \in 1..0 |-> 1] \in [1..0 -> Blocks]
  OBVIOUS
<1>5. IsFreeList(0, [i \in 1..0 |-> 1])
  BY <1>2 DEF IsFreeList, Init
<1> QED
  BY <1>1, <1>3, <1>4, <1>5 DEF IInv, FreeListExact

\* The list depends only on the links, the two ends and the set of free blocks.
LEMMA SameList ==
    ASSUME FreeListExact, UNCHANGED <<head, tail, nxt>>, FreeBlocks' = FreeBlocks
    PROVE  FreeListExact'
<1>1. PICK s \in [1..Cardinality(FreeBlocks) -> Blocks] :
         IsFreeList(Cardinality(FreeBlocks), s)
  BY DEF FreeListExact
<1>2. PICK n : n = Cardinality(FreeBlocks)
  OBVIOUS
<1>3. IsFreeList(n, s)'
  BY <1>1, <1>2 DEF IsFreeList
<1> QED
  BY <1>1, <1>2, <1>3 DEF FreeListExact, Blocks

\* An empty list is exact for an empty set of free blocks.
LEMMA EmptyList ==
    ASSUME head' = 0, tail' = 0, FreeBlocks' = {}
    PROVE  FreeListExact'
<1>1. Cardinality(FreeBlocks') = 0
  BY FS_EmptySet
<1>2. [i \in 1..0 |-> 1] \in [1..0 -> Blocks]
  OBVIOUS
<1>3. IsFreeList(0, [i \in 1..0 |-> 1])'
  BY DEF IsFreeList
<1> QED
  BY <1>1, <1>2, <1>3 DEF FreeListExact, Blocks

\* Every operation of the store keeps the invariant.
LEMMA StepIInv == IInv /\ [Next]_vars => IInv'
<1> SUFFICES ASSUME IInv, [Next]_vars PROVE IInv'
  OBVIOUS
<1> USE StoreAssumption
<1>c. FREE # DIRTY /\ FREE # COMMIT /\ FREE # TRANS
  BY DEF FREE, DIRTY, COMMIT, TRANS
<1>l. /\ head # 0 => head \in FreeBlocks /\ nxt[head] \in 0..MaxCap
      /\ head = 0 => FreeBlocks = {} /\ tail = 0
  BY ListEnds
<1>1. CASE AllocReuse
  <2>1. head \in FreeBlocks /\ head \in Blocks /\ head # 0
    BY <1>1, <1>l DEF AllocReuse, IInv, TypeOK, Blocks
  <2>2. TypeOK'
    BY <1>1, <1>l, <2>1 DEF AllocReuse, Pop, IInv, TypeOK
  <2>3. FreshAreFree'
    BY <1>1, <2>1 DEF AllocReuse, IInv, FreshAreFree, FreeBlocks, TypeOK
  <2>4. FreeBlocks' = FreeBlocks \ {head}
    BY <1>1, <2>1, <1>c DEF AllocReuse, FreeBlocks, IInv, TypeOK, Blocks
  <2> QED
    BY <1>1, <2>2, <2>3, <2>4, PopExact DEF AllocReuse, IInv
<1>2. CASE AllocNew
  <2>1. maxid + 1 \in Blocks /\ maxid + 1 <= cap' /\ cap' \in 1..MaxCap
    BY <1>2 DEF AllocNew, Room, IInv, TypeOK, Blocks
  <2>2. TypeOK'
    BY <1>2, <2>1 DEF AllocNew, IInv, TypeOK, Blocks
  <2>3. FreshAreFree'
    BY <1>2, <2>1 DEF AllocNew, IInv, FreshAreFree, TypeOK, Blocks
  <2>4. FreeBlocks' = {}
    BY <1>2, <1>l, <1>c, <2>1 DEF AllocNew, FreeBlocks, IInv, TypeOK, Blocks
  <2>5. head' = 0 /\ tail' = 0
    BY <1>2, <1>l DEF AllocNew
  <2> QED
    BY <2>2, <2>3, <2>4, <2>5, EmptyList DEF IInv
<1>3. ASSUME NEW r \in Blocks, Free(r) PROVE IInv'
  <2>1. r \in 1..maxid /\ r \notin FreeBlocks
    BY <1>3 DEF Free, FreeBlocks, IInv, FreshAreFree, TypeOK, Blocks
  <2>2. TypeOK'
    BY <1>3 DEF Free, LinkFree, IInv, TypeOK, Blocks
  <2>3. FreshAreFree'
    BY <1>3 DEF Free, IInv, FreshAreFree, TypeOK
  <2>4. FreeBlocks' = FreeBlocks \union {r}
    BY <1>3, <2>1 DEF Free, FreeBlocks, IInv, TypeOK, Blocks
  <2> QED
    BY <1>3, <2>1, <2>2, <2>3, <2>4, LinkExact DEF Free, IInv
<1>4. ASSUME NEW r \in Blocks, Mark(r) PROVE IInv'
  <2>1. TypeOK' /\ FreshAreFree'
    BY <1>4, <1>c DEF Mark, IInv, TypeOK, FreshAreFree
  <2>2. ctrl[r] # FREE /\ ctrl'[r] # FREE /\ \A q \in Blocks \ {r} : ctrl'[q] = ctrl[q]
    BY <1>4, <1>c DEF Mark, IInv, TypeOK
  <2>3. \A q \in 1..maxid : q \in Blocks /\ (ctrl'[q] = FREE <=> ctrl[q] = FREE)
    BY <2>2 DEF IInv, TypeOK, Blocks
  <2>4. FreeBlocks' = FreeBlocks
    BY <1>4, <2>3 DEF Mark, FreeBlocks
  <2> QED
    BY <1>4, <2>1, <2>4, SameList DEF Mark, IInv
<1>5. CASE RepairBegin
  <2>1. TypeOK' /\ FreshAreFree'
    BY <1>5 DEF RepairBegin, IInv, TypeOK, FreshAreFree
  <2>2. FreeBlocks' = {}
    BY <1>5 DEF RepairBegin, FreeBlocks, IInv, TypeOK
  <2> QED
    BY <1>5, <2>1, <2>2, EmptyList DEF RepairBegin, IInv
<1>6. CASE RepairRow
  <2>0. scan \in 1..maxid /\ scan \in Blocks /\ scan \notin FreeBlocks
    BY <1>6 DEF RepairRow, FreeBlocks, IInv, TypeOK, Blocks
  <2>1. FreshAreFree' /\ TypeOK'
    BY <1>6, <2>0 DEF RepairRow, LinkFree, IInv, TypeOK, FreshAreFree, Blocks
  <2>2. CASE ctrl[scan] = COMMIT /\ UNCHANGED <<head, tail, nxt, ctrl>>
    <3>1. FreeBlocks' = FreeBlocks
      BY <1>6, <2>0, <2>2, <1>c DEF RepairRow, FreeBlocks, IInv, TypeOK
    <3> QED
      BY <2>1, <2>2, <3>1, SameList DEF IInv
  <2>3. CASE ctrl[scan] # COMMIT /\ ctrl' = [ctrl EXCEPT ![scan] = FREE] /\ LinkFree(scan)
    <3>1. FreeBlocks' = FreeBlocks \union {scan}
      BY <1>6, <2>0, <2>3 DEF RepairRow, FreeBlocks, IInv, TypeOK
    <3> QED
      BY <2>0, <2>1, <2>3, <3>1, LinkExact DEF IInv
  <2> QED
    BY <1>6, <2>2, <2>3 DEF RepairRow
<1>7. CASE UNCHANGED vars
  <2>1. FreeBlocks' = FreeBlocks /\ TypeOK' /\ FreshAreFree'
    BY <1>7 DEF vars, FreeBlocks, IInv, TypeOK, FreshAreFree
  <2> QED
    BY <1>7, <2>1, SameList DEF vars, IInv
<1> QED
  BY <1>1, <1>2, <1>3, <1>4, <1>5, <1>6, <1>7 DEF Next

\* The invariant holds in every reachable state of every store.
THEOREM StoreInvariant == Spec => []IInv
BY InitIInv, StepIInv, PTL DEF Spec

\* The header stays inside the mapping and every link is an id or a holder's data.
THEOREM StoreTypes == Spec => []TypeOK
<1>1. IInv => TypeOK
  BY DEF IInv
<1> QED
  BY StoreInvariant, <1>1, PTL

\* xdb_stg_free and xdb_stg_alloc never lose a block, never list one twice and
\* never list one that is in use, for stores of any size.
THEOREM StoreFreeListExact == Spec => []FreeListExact
<1>1. IInv => FreeListExact
  BY DEF IInv
<1> QED
  BY StoreInvariant, <1>1, PTL

\* xdb_stg_alloc hands out only blocks that nobody holds, inside the mapping.
THEOREM StoreHandsOutOnlyFree == Spec => HandsOutOnlyFree
<1>1. ASSUME IInv, [Next]_vars
      PROVE  [\A r \in Blocks : ctrl[r] # DIRTY /\ ctrl'[r] = DIRTY
                                   => ctrl[r] = FREE /\ r <= cap']_vars
  <2> SUFFICES ASSUME NEW r \in Blocks, ctrl[r] # DIRTY, ctrl'[r] = DIRTY
               PROVE  ctrl[r] = FREE /\ r <= cap'
    OBVIOUS
  <2> USE StoreAssumption
  <2>c. DIRTY # FREE /\ DIRTY # COMMIT /\ DIRTY # TRANS
    BY DEF FREE, DIRTY, COMMIT, TRANS
  <2>1. CASE AllocReuse
    <3>3. head \in FreeBlocks
      BY <1>1, <2>1, ListEnds DEF AllocReuse
    <3>4. r = head
      BY <1>1, <2>1 DEF AllocReuse, IInv, TypeOK
    <3> QED
      BY <1>1, <2>1, <3>3, <3>4 DEF AllocReuse, FreeBlocks, IInv, TypeOK
  <2>2. CASE AllocNew
    <3>1. r = maxid + 1
      BY <1>1, <2>2 DEF AllocNew, IInv, TypeOK
    <3> QED
      BY <1>1, <2>2, <3>1 DEF AllocNew, Room, IInv, TypeOK, FreshAreFree, Blocks
  <2>3. ASSUME NEW q \in Blocks, Free(q) \/ Mark(q) PROVE FALSE
    BY <1>1, <2>3, <2>c DEF Free, Mark, IInv, TypeOK
  <2>4. CASE RepairBegin \/ RepairRow \/ UNCHANGED vars
    BY <1>1, <2>4, <2>c DEF RepairBegin, RepairRow, vars, IInv, TypeOK
  <2> QED
    BY <1>1, <2>1, <2>2, <2>3, <2>4 DEF Next
<1> QED
  BY StoreInvariant, <1>1, PTL DEF Spec, HandsOutOnlyFree

-------------------------------------------------------------------------------
\* One step of the walk in FreeQueue, and its body for a function of prefixes.
Longer(s, n) ==
    LET r == IF n = 1 THEN head
             ELSE IF Len(s) < n - 1 THEN 0 ELSE nxt[s[n - 1]]
    IN  IF r \in Blocks THEN Append(s, r) ELSE s
Walked(w) == [n \in 0..MaxCap |-> IF n = 0 THEN <<>> ELSE Longer(w[n - 1], n)]

LEMMA QueueDef == FreeQueue = (CHOOSE w : w = Walked(w))[MaxCap]
BY DEF FreeQueue, Walked, Longer

\* There is one walk: two would differ first at some prefix, and every prefix
\* follows from the one before.
LEMMA WalkUnique ==
    ASSUME NEW f, NEW g, f = Walked(f), g = Walked(g)
    PROVE  f = g
<1> DEFINE S == {n \in 0..MaxCap : f[n] # g[n]}
<1>1. MaxCap \in Nat
  BY StoreAssumption
<1>2. CASE S = {}
  <2>1. \A n \in 0..MaxCap : f[n] = g[n]
    BY <1>2
  <2>2. f = [n \in 0..MaxCap |-> f[n]] /\ g = [n \in 0..MaxCap |-> g[n]]
    BY DEF Walked
  <2> QED
    BY <2>1, <2>2
<1>3. CASE S # {}
  <2>0. S \subseteq Nat
    BY <1>1
  <2>1. PICK m \in S : \A k \in S : m <= k
    <3> HIDE DEF S
    <3> QED
      BY <1>3, <2>0, LeastNumber
  <2>2. m # 0
    BY <1>1 DEF Walked
  <2>3. m - 1 \in 0..MaxCap /\ m - 1 \notin S
    BY <1>1, <2>1, <2>2
  <2>4. f[m - 1] = g[m - 1]
    BY <2>3
  <2>5. f[m] = Longer(f[m - 1], m) /\ g[m] = Longer(g[m - 1], m)
    BY <1>1, <2>1, <2>2 DEF Walked
  <2> QED
    BY <2>1, <2>4, <2>5
<1> QED
  BY <1>2, <1>3

\* The queue of an exact list is the sequence that witnesses it.
QueueIsList ==
    \A n \in Nat : \A s \in [1..n -> Blocks] :
        TypeOK /\ n = Cardinality(FreeBlocks) /\ IsFreeList(n, s) => FreeQueue = s

LEMMA QueueIs == QueueIsList
<1> SUFFICES ASSUME NEW n \in Nat, NEW s \in [1..n -> Blocks],
                    TypeOK, n = Cardinality(FreeBlocks), IsFreeList(n, s)
             PROVE  FreeQueue = s
  BY DEF QueueIsList
<1>1. n <= MaxCap /\ MaxCap \in Nat
  <2>1. maxid \in Nat /\ maxid <= MaxCap /\ MaxCap \in Nat
    BY StoreAssumption DEF TypeOK
  <2>2. IsFiniteSet(1..maxid) /\ Cardinality(1..maxid) = maxid
    <3>1. 1 \in Int /\ maxid \in Int /\ (IF 1 > maxid THEN 0 ELSE maxid - 1 + 1) = maxid
      BY <2>1
    <3>2. IsFiniteSet(1..maxid) /\ Cardinality(1..maxid) = IF 1 > maxid THEN 0 ELSE maxid - 1 + 1
      BY <3>1, FS_Interval
    <3> QED
      BY <3>1, <3>2
  <2>3. Cardinality(FreeBlocks) <= Cardinality(1..maxid)
    BY <2>2, FS_Subset DEF FreeBlocks
  <2> QED
    BY <2>1, <2>2, <2>3
<1> DEFINE Upto(k) == IF k < n THEN k ELSE n
           w == [k \in 0..MaxCap |-> [i \in 1..Upto(k) |-> s[i]]]
<1>2. ASSUME NEW k \in 0..MaxCap
      PROVE  /\ w[k] \in Seq(Blocks) /\ Len(w[k]) = Upto(k)
             /\ \A i \in 1..Upto(k) : w[k][i] = s[i]
  OBVIOUS
<1> HIDE DEF w
<1>3. w[0] = <<>>
  BY <1>1, <1>2, EmptySeq
<1>l. n = 0 => head = 0
  BY DEF IsFreeList
<1>4. ASSUME NEW k \in 1..MaxCap PROVE w[k] = Longer(w[k - 1], k)
  <2>1. k \in 0..MaxCap /\ k - 1 \in 0..MaxCap
    BY <1>1
  <2>2. CASE k <= n
    <3>1. (IF k = 1 THEN head ELSE nxt[s[k - 1]]) = s[k] /\ s[k] \in Blocks
      BY <2>2 DEF IsFreeList
    <3>2. Len(w[k - 1]) = k - 1 /\ (k # 1 => w[k - 1][k - 1] = s[k - 1])
      BY <1>2, <2>1, <2>2
    <3>3. Longer(w[k - 1], k) = Append(w[k - 1], s[k])
      BY <3>1, <3>2 DEF Longer
    <3>4. /\ Append(w[k - 1], s[k]) \in Seq(Blocks) /\ Len(Append(w[k - 1], s[k])) = k
          /\ \A i \in 1..k : Append(w[k - 1], s[k])[i] = s[i]
      BY <1>2, <2>1, <2>2, <3>1, <3>2
    <3>5. Len(w[k]) = k /\ w[k] \in Seq(Blocks) /\ \A i \in 1..k : w[k][i] = s[i]
      BY <1>2, <2>1, <2>2
    <3> QED
      BY <3>3, <3>4, <3>5, SeqEqual
  <2>3. CASE ~(k <= n)
    <3>1. Len(w[k - 1]) = n /\ (n = k - 1 /\ k # 1 => w[k - 1][k - 1] = s[k - 1])
      BY <1>2, <2>1, <2>3
    <3>2. n = k - 1 /\ k # 1 => nxt[s[k - 1]] = 0
      BY <2>1, <2>3 DEF IsFreeList
    <3>3. Longer(w[k - 1], k) = w[k - 1]
      BY <1>l, <2>1, <2>3, <3>1, <3>2 DEF Longer, Blocks
    <3>4. /\ Len(w[k]) = n /\ w[k] \in Seq(Blocks) /\ w[k - 1] \in Seq(Blocks)
          /\ \A i \in 1..n : w[k][i] = w[k - 1][i]
      BY <1>2, <2>1, <2>3
    <3> QED
      BY <3>1, <3>3, <3>4, SeqEqual
  <2> QED
    BY <2>2, <2>3
<1>5. w = Walked(w)
  <2>1. w = [k \in 0..MaxCap |-> w[k]]
    BY DEF w
  <2>2. ASSUME NEW k \in 0..MaxCap
        PROVE  w[k] = IF k = 0 THEN <<>> ELSE Longer(w[k - 1], k)
    BY <1>1, <1>3, <1>4
  <2> QED
    BY <2>1, <2>2 DEF Walked
<1>6. (CHOOSE v : v = Walked(v)) = w
  BY <1>5, WalkUnique
<1>7. w[MaxCap] = s
  BY <1>1 DEF w
<1> QED
  BY <1>6, <1>7, QueueDef

-------------------------------------------------------------------------------
\* The blocks a caller holds, as the refinement mapping has them.
Held == {r \in 1..maxid : ctrl[r] # FREE /\ r \notin Unvisited}

\* The queue before and after a step, from the lists before and after it.
LEMMA QueueBefore ==
    ASSUME IInv
    PROVE  \E n \in Nat : \E s \in [1..n -> Blocks] :
               n = Cardinality(FreeBlocks) /\ IsFreeList(n, s) /\ FreeQueue = s
<1>1. PICK n \in Nat : n = Cardinality(FreeBlocks)
  BY FreeFinite DEF IInv
<1>2. PICK s \in [1..n -> Blocks] : IsFreeList(n, s)
  BY <1>1 DEF IInv, FreeListExact
<1> QED
  BY <1>1, <1>2, QueueIs DEF QueueIsList, IInv

LEMMA QueueAfter ==
    ASSUME TypeOK', NEW n \in Nat, NEW s \in [1..n -> Blocks],
           n = Cardinality(FreeBlocks'), IsFreeList(n, s)'
    PROVE  FreeQueue' = s
<1>1. QueueIsList'
  BY QueueIs, PTL
<1> QED
  BY <1>1 DEF QueueIsList, Blocks

\* A list of nothing, and a list with a block appended, as queues.
LEMMA QueueOfNone ==
    ASSUME TypeOK', FreeBlocks' = {}, head' = 0, tail' = 0
    PROVE  FreeQueue' = <<>>
<1>1. 0 = Cardinality(FreeBlocks')
  BY FS_EmptySet
<1>2. <<>> \in [1..0 -> Blocks]
  OBVIOUS
<1>3. PICK n \in Nat : n = 0
  OBVIOUS
<1>4. PICK s \in [1..n -> Blocks] : s = <<>>
  BY <1>2, <1>3
<1>5. IsFreeList(n, s)'
  BY <1>3 DEF IsFreeList
<1>6. n = Cardinality(FreeBlocks')
  BY <1>1, <1>3
<1>7. FreeQueue' = s
  BY <1>5, <1>6, QueueAfter
<1> QED
  BY <1>4, <1>7

LEMMA QueueLinked ==
    ASSUME IInv, TypeOK', NEW r \in Blocks, r \notin FreeBlocks, LinkFree(r),
           FreeBlocks' = FreeBlocks \union {r}
    PROVE  FreeQueue' = Append(FreeQueue, r)
<1>1. PICK n \in Nat : \E s \in [1..n -> Blocks] :
         n = Cardinality(FreeBlocks) /\ IsFreeList(n, s) /\ FreeQueue = s
  BY QueueBefore
<1>2. PICK s \in [1..n -> Blocks] :
         n = Cardinality(FreeBlocks) /\ IsFreeList(n, s) /\ FreeQueue = s
  BY <1>1
<1>3. FreeQueue' = Linked(n, s, r)
  <2>1. IsFreeList(n + 1, Linked(n, s, r))'
    BY <1>2, LinkKeepsList
  <2>2. n + 1 = Cardinality(FreeBlocks')
    BY <1>2, LinkKeepsList
  <2>3. Linked(n, s, r) \in [1..(n + 1) -> Blocks]
    BY <1>2, LinkKeepsList
  <2>4. n + 1 \in Nat
    OBVIOUS
  <2> QED
    BY <2>1, <2>2, <2>3, <2>4, QueueAfter
<1>4. Linked(n, s, r) = Append(s, r)
  <2>1. s \in Seq(Blocks) /\ Len(s) = n
    OBVIOUS
  <2>2. /\ Append(s, r) \in Seq(Blocks) /\ Len(Append(s, r)) = n + 1
        /\ \A i \in 1..(n + 1) : Append(s, r)[i] = IF i = n + 1 THEN r ELSE s[i]
    BY <2>1
  <2>3. /\ Linked(n, s, r) \in Seq(Blocks) /\ Len(Linked(n, s, r)) = n + 1
        /\ \A i \in 1..(n + 1) : Linked(n, s, r)[i] = IF i = n + 1 THEN r ELSE s[i]
    BY DEF Linked
  <2> QED
    BY <2>2, <2>3, SeqEqual
<1> QED
  BY <1>2, <1>3, <1>4

\* Every step of the store is a step of the allocator or none.
LEMMA StepRefines == IInv /\ IInv' /\ [Next]_vars => [Abs!AbsNext]_Abs!absVars
<1> SUFFICES ASSUME IInv, IInv', [Next]_vars PROVE [Abs!AbsNext]_Abs!absVars
  OBVIOUS
<1> USE StoreAssumption
<1>c. FREE # DIRTY /\ FREE # COMMIT /\ FREE # TRANS
  BY DEF FREE, DIRTY, COMMIT, TRANS
<1>t. TypeOK /\ TypeOK'
  BY DEF IInv
<1>n. PICK n \in Nat : \E s \in [1..n -> Blocks] :
         n = Cardinality(FreeBlocks) /\ IsFreeList(n, s) /\ FreeQueue = s
  BY QueueBefore
<1>s. PICK s \in [1..n -> Blocks] :
         n = Cardinality(FreeBlocks) /\ IsFreeList(n, s) /\ FreeQueue = s
  BY <1>n
<1>l. s \in Seq(Blocks) /\ Len(s) = n
  OBVIOUS
<1>e. n = 0 <=> s = <<>>
  BY <1>l, EmptySeq
<1>h. (head = 0 <=> n = 0) /\ (head # 0 => head = s[1] /\ head \in FreeBlocks)
  BY <1>s DEF IsFreeList, Blocks
<1>1. CASE AllocReuse
  <2>1. Unvisited = {} /\ Unvisited' = {}
    BY <1>1 DEF AllocReuse, Unvisited
  <2>2. head \in Blocks /\ FreeBlocks' = FreeBlocks \ {head} /\ Held' = Held \union {head}
    BY <1>1, <1>t, <1>c, <1>h, <2>1 DEF AllocReuse, FreeBlocks, Held, TypeOK, Blocks
  <2>3. FreeQueue' = Popped(n, s)
    BY <1>1, <1>s, <1>t, <2>2, PopKeepsList, QueueAfter DEF AllocReuse
  <2>5. s # <<>> /\ Head(s) = head
    BY <1>1, <1>e, <1>h, <1>l DEF AllocReuse
  <2>4. Popped(n, s) = Tail(s)
    <3>1. /\ Tail(s) \in Seq(Blocks) /\ Len(Tail(s)) = n - 1
          /\ \A i \in 1..(n - 1) : Tail(s)[i] = s[i + 1]
      BY <1>l, <2>5, HeadTailProperties
    <3>2. /\ Popped(n, s) \in Seq(Blocks) /\ Len(Popped(n, s)) = n - 1
          /\ \A i \in 1..(n - 1) : Popped(n, s)[i] = s[i + 1]
      BY <1>e, <2>5 DEF Popped
    <3> QED
      BY <3>1, <3>2, SeqEqual
  <2>6. Abs!Take
    BY <1>1, <1>s, <2>1, <2>2, <2>3, <2>4, <2>5 DEF Abs!Take, Held, AllocReuse
  <2> QED
    BY <2>6 DEF Abs!AbsNext
<1>2. CASE AllocNew
  <2>1. Unvisited = {} /\ Unvisited' = {}
    BY <1>2 DEF AllocNew, Unvisited
  <2>2. maxid + 1 \in Blocks /\ Held' = Held \union {maxid + 1} /\ FreeBlocks = {} /\ FreeBlocks' = {}
    <3>1. maxid + 1 \in Blocks
      BY <1>2, <1>t DEF AllocNew, TypeOK, Blocks
    <3>2. n = 0
      BY <1>2, <1>h DEF AllocNew
    <3>3. FreeBlocks = {}
      BY <3>2, <1>s DEF IsFreeList
    <3> QED
      BY <1>2, <1>t, <1>c, <2>1, <3>1, <3>3 DEF AllocNew, FreeBlocks, Held, TypeOK, Blocks
  <2>3. FreeQueue = <<>>
    BY <1>2, <1>e, <1>h, <1>s DEF AllocNew
  <2>4. head' = 0 /\ tail' = 0
    BY <1>2, <1>h, <1>s DEF AllocNew, IsFreeList
  <2>6. FreeQueue' = <<>>
    BY <1>t, <2>2, <2>4, QueueOfNone
  <2>5. Abs!Take
    BY <1>2, <2>1, <2>2, <2>3, <2>6 DEF Abs!Take, Held, AllocNew
  <2> QED
    BY <2>5 DEF Abs!AbsNext
<1>3. ASSUME NEW r \in Blocks, Free(r) PROVE Abs!AbsNext
  <2>1. Unvisited = {} /\ Unvisited' = {}
    BY <1>3 DEF Free, Unvisited
  <2>2. r \in 1..maxid /\ r \in Held /\ Held' = Held \ {r}
    BY <1>3, <1>t, <2>1 DEF Free, Held, TypeOK, Blocks, IInv, FreshAreFree
  <2>3. r \notin FreeBlocks /\ FreeBlocks' = FreeBlocks \union {r}
    BY <1>3, <1>t, <2>2 DEF Free, FreeBlocks, TypeOK, Blocks
  <2>4. FreeQueue' = Append(FreeQueue, r)
    BY <1>3, <1>s, <1>t, <2>3, QueueLinked DEF Free
  <2>5. Abs!GiveBack(r)
    BY <1>3, <2>1, <2>2, <2>4 DEF Abs!GiveBack, Held, Free
  <2> QED
    BY <2>2, <2>5 DEF Abs!AbsNext
<1>4. ASSUME NEW r \in Blocks, Mark(r) PROVE UNCHANGED Abs!absVars
  <2>1. Unvisited = {} /\ Unvisited' = {}
    BY <1>4 DEF Mark, Unvisited
  <2>2. ctrl[r] # FREE /\ ctrl'[r] # FREE /\ \A q \in Blocks \ {r} : ctrl'[q] = ctrl[q]
    BY <1>4, <1>c, <1>t DEF Mark, TypeOK
  <2>3. \A q \in 1..maxid : q \in Blocks /\ (ctrl'[q] = FREE <=> ctrl[q] = FREE)
    BY <1>t, <2>2 DEF TypeOK, Blocks
  <2>4. Held' = Held
    BY <1>4, <2>1, <2>3 DEF Mark, Held
  <2>5. FreeQueue' = FreeQueue
    BY <1>4 DEF Mark, FreeQueue, Blocks
  <2> QED
    BY <1>4, <2>1, <2>4, <2>5 DEF Abs!absVars, Held, Mark
<1>5. CASE RepairBegin
  <2>k. PICK kept : kept = {r \in 1..maxid : ctrl[r] = COMMIT}
    OBVIOUS
  <2>1. Unvisited = {}
    BY <1>5 DEF RepairBegin, Unvisited
  <2>2. Unvisited' = (1..maxid) \ kept
    BY <1>5, <1>t, <2>k DEF RepairBegin, Unvisited, TypeOK
  <2>3. Held' = kept /\ kept \subseteq Held
    BY <1>5, <1>c, <1>t, <2>1, <2>2, <2>k DEF RepairBegin, Held, TypeOK
  <2>4. FreeBlocks' = {} /\ head' = 0 /\ tail' = 0
    BY <1>5, <1>t DEF RepairBegin, FreeBlocks, TypeOK
  <2>5. FreeQueue' = <<>>
    BY <1>t, <2>4, QueueOfNone
  <2>6. Abs!TakeAway(kept)
    BY <1>5, <2>1, <2>2, <2>3, <2>5 DEF Abs!TakeAway, Held, RepairBegin
  <2>7. kept \in SUBSET Held
    BY <2>3
  <2> QED
    BY <2>6, <2>7 DEF Abs!AbsNext, Held
<1>6. CASE RepairRow
  <2>0. scan \in 1..maxid /\ scan \in Blocks /\ scan \notin FreeBlocks /\ maxid' = maxid
    BY <1>6, <1>t DEF RepairRow, FreeBlocks, TypeOK, Blocks
  <2>1. CASE ctrl[scan] = COMMIT /\ UNCHANGED <<head, tail, nxt, ctrl>>
    <3>1. Unvisited' = Unvisited
      BY <1>6, <1>t, <2>0, <2>1 DEF RepairRow, Unvisited, TypeOK
    <3>2. Held' = Held
      BY <2>0, <2>1, <3>1 DEF Held
    <3>3. FreeQueue' = FreeQueue
      BY <2>1 DEF FreeQueue, Blocks
    <3> QED
      BY <2>0, <3>1, <3>2, <3>3 DEF Abs!absVars, Held
  <2>2. CASE ctrl[scan] # COMMIT /\ ctrl' = [ctrl EXCEPT ![scan] = FREE] /\ LinkFree(scan)
    <3>1. scan \in Unvisited /\ Unvisited' = Unvisited \ {scan}
      BY <1>6, <1>t, <1>c, <2>0, <2>2 DEF RepairRow, Unvisited, TypeOK, Blocks
    <3>2. Held' = Held
      BY <2>0, <2>2, <1>t, <3>1 DEF Held, TypeOK, Blocks
    <3>3. FreeBlocks' = FreeBlocks \union {scan}
      BY <1>6, <1>t, <2>0, <2>2 DEF RepairRow, FreeBlocks, TypeOK
    <3>4. FreeQueue' = Append(FreeQueue, scan)
      BY <1>s, <1>t, <2>0, <2>2, <3>3, QueueLinked
    <3>5. Abs!Reclaim(scan)
      BY <2>0, <3>1, <3>2, <3>4 DEF Abs!Reclaim, Held
    <3> QED
      BY <2>0, <3>5 DEF Abs!AbsNext
  <2> QED
    BY <1>6, <2>1, <2>2 DEF RepairRow
<1>7. CASE UNCHANGED vars
  <2>1. FreeQueue' = FreeQueue
    BY <1>7 DEF vars, FreeQueue, Blocks
  <2>2. maxid' = maxid /\ ctrl' = ctrl /\ Unvisited' = Unvisited
    BY <1>7 DEF vars, Unvisited
  <2>3. Held' = Held
    BY <2>2 DEF Held
  <2>4. UNCHANGED Abs!absVars
    BY <2>1, <2>2, <2>3 DEF Abs!absVars, Held
  <2> QED
    BY <2>4
<1> QED
  BY <1>1, <1>2, <1>3, <1>4, <1>5, <1>6, <1>7 DEF Next

\* A new store is an allocator that has handed out nothing.
LEMMA InitRefines == Init => Abs!AbsInit
<1> SUFFICES ASSUME Init PROVE Abs!AbsInit
  OBVIOUS
<1>1. PICK n \in Nat : \E s \in [1..n -> Blocks] :
         n = Cardinality(FreeBlocks) /\ IsFreeList(n, s) /\ FreeQueue = s
  BY InitIInv, QueueBefore
<1>2. PICK s \in [1..n -> Blocks] : IsFreeList(n, s) /\ FreeQueue = s
  BY <1>1
<1>3. s \in Seq(Blocks) /\ Len(s) = n
  OBVIOUS
<1>4. n = 0
  BY <1>2 DEF IsFreeList, Init, Blocks
<1>5. FreeQueue = <<>>
  BY <1>2, <1>3, <1>4, EmptySeq
<1> QED
  BY <1>5 DEF Init, Abs!AbsInit, Unvisited

\* xdb_stg_alloc, xdb_stg_free and the repair are an allocator that reuses ids in
\* the order they were given back, before it grows, whatever the capacities.
THEOREM StoreRefinement == Spec => ImplementsAllocator
BY InitIInv, StepIInv, InitRefines, StepRefines, PTL
   DEF Spec, ImplementsAllocator, Abs!AbsSpec
==============================================================================
