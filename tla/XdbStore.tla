------------------------------- MODULE XdbStore -------------------------------
(***************************************************************************)
(* The block store of core/xdb_store.c, which holds the rows of a table    *)
(* (and the nodes of indexes and the blocks of variable-length data).      *)
(* Free blocks form a linked list inside the blocks themselves: the first  *)
(* four bytes of a free block hold the id of the next one.  A store grows  *)
(* by doubling its capacity.  Repairing a table (core/xdb_table.c) forgets *)
(* the list and rebuilds it from the control byte of every row.            *)
(***************************************************************************)
EXTENDS Naturals, Sequences, FiniteSets

CONSTANTS
    InitCap,  \* blk_cap of a new store, 8 in the code
    MaxCap,   \* bound: growing beyond this many blocks fails
    Data      \* what the first bytes of a block in use hold: the caller's data

ASSUME StoreAssumption ==
    /\ InitCap \in Nat \ {0} /\ MaxCap \in Nat /\ InitCap <= MaxCap
    /\ Data \notin Nat

VARIABLES
    head,    \* blk_head: first free block, 0 if none
    tail,    \* blk_tail: last free block, 0 if none
    maxid,   \* blk_maxid: largest id ever allocated
    cap,     \* blk_cap: blocks the mapping has room for
    nxt,     \* the first four bytes of every block
    ctrl,    \* the control byte of every block
    scan     \* next row of a running repair, 0 if none is running

vars == <<head, tail, maxid, cap, nxt, ctrl, scan>>

Blocks == 1..MaxCap
FREE == "free"
DIRTY == "dirty"
COMMIT == "commit"
TRANS == "trans"

Init ==
    /\ head = 0 /\ tail = 0 /\ maxid = 0 /\ cap = InitCap
    /\ nxt = [r \in Blocks |-> 0]
    /\ ctrl = [r \in Blocks |-> FREE]
    /\ scan = 0

-------------------------------------------------------------------------------
\* Mutants of the operations below.

\* popping the last free block leaves the tail on it
M_PopKeepTail(r) ==
    /\ head' = nxt[r]
    /\ UNCHANGED tail

\* a freed block is pushed in front, the tail stays
M_LinkFree(r) ==
    /\ nxt' = [nxt EXCEPT ![r] = head]
    /\ head' = r
    /\ tail' = IF tail = 0 THEN r ELSE tail

\* growing is decided one block too late
M_Room == maxid <= cap
-------------------------------------------------------------------------------
\* blk_head moves to the next free block; the tail is cleared with the last one.
Pop(r) ==
    /\ head' = nxt[r]
    /\ tail' = IF tail = r THEN 0 ELSE tail

\* There is a mapped block above blk_maxid.
Room == maxid < cap

\* xdb_stg_alloc with a free block to reuse
AllocReuse ==
    /\ scan = 0
    /\ head # 0
    /\ Pop(head)
    /\ ctrl' = [ctrl EXCEPT ![head] = DIRTY]
    /\ nxt' = [nxt EXCEPT ![head] = Data]
    /\ UNCHANGED <<maxid, cap, scan>>

\* xdb_stg_alloc without one; remapping may fail, and then nothing changes
AllocNew ==
    /\ scan = 0
    /\ head = 0
    /\ \/ Room /\ UNCHANGED cap
       \/ ~Room /\ 2 * cap <= MaxCap /\ cap' = 2 * cap
    /\ maxid' = maxid + 1
    /\ ctrl' = [ctrl EXCEPT ![maxid + 1] = DIRTY]
    /\ nxt' = [nxt EXCEPT ![maxid + 1] = Data]
    /\ UNCHANGED <<head, tail, scan>>

\* Append r to the list of free blocks.
LinkFree(r) ==
    /\ nxt' = IF tail # 0 THEN [nxt EXCEPT ![r] = 0, ![tail] = r]
                          ELSE [nxt EXCEPT ![r] = 0]
    /\ head' = IF tail # 0 THEN head ELSE r
    /\ tail' = r

\* xdb_stg_free of a block its caller holds
Free(r) ==
    /\ scan = 0
    /\ ctrl[r] # FREE
    /\ ctrl' = [ctrl EXCEPT ![r] = FREE]
    /\ LinkFree(r)
    /\ UNCHANGED <<maxid, cap, scan>>

\* the caller marks the row it allocated, or commits it
Mark(r) ==
    /\ scan = 0
    /\ \/ ctrl[r] = DIRTY /\ \E c \in {TRANS, COMMIT} : ctrl' = [ctrl EXCEPT ![r] = c]
       \/ ctrl[r] = TRANS /\ ctrl' = [ctrl EXCEPT ![r] = COMMIT]
    /\ UNCHANGED <<head, tail, maxid, cap, nxt, scan>>

\* __xdb_repair_table under the storage write lock: xdb_stg_init, then a walk
\* over all rows; nothing else touches the store meanwhile.
RepairBegin ==
    /\ scan = 0
    /\ maxid > 0
    /\ head' = 0 /\ tail' = 0 /\ scan' = 1
    /\ UNCHANGED <<maxid, cap, nxt, ctrl>>

RepairRow ==
    /\ scan # 0
    /\ \/ /\ ctrl[scan] = COMMIT
          /\ UNCHANGED <<head, tail, nxt, ctrl>>
       \/ /\ ctrl[scan] # COMMIT
          /\ ctrl' = [ctrl EXCEPT ![scan] = FREE]
          /\ LinkFree(scan)
    /\ scan' = IF scan = maxid THEN 0 ELSE scan + 1
    /\ UNCHANGED <<maxid, cap>>

Next == \/ AllocReuse \/ AllocNew
        \/ \E r \in Blocks : Free(r) \/ Mark(r)
        \/ RepairBegin \/ RepairRow

Spec == Init /\ [][Next]_vars

-------------------------------------------------------------------------------
TypeOK ==
    /\ head \in 0..MaxCap /\ tail \in 0..MaxCap
    /\ maxid \in 0..MaxCap /\ cap \in 1..MaxCap /\ maxid <= cap
    /\ nxt \in [Blocks -> 0..MaxCap \union {Data}]
    /\ ctrl \in [Blocks -> {FREE, DIRTY, COMMIT, TRANS}]
    /\ scan \in 0..maxid

\* The blocks the free list must hold: during a repair, those already visited.
FreeBlocks == {r \in 1..maxid : ctrl[r] = FREE /\ (scan = 0 \/ r < scan)}

\* Blocks a repair has not reached yet and will free.
Unvisited == {r \in 1..maxid : scan # 0 /\ r >= scan /\ ctrl[r] # COMMIT}

\* s lists the free blocks in the order the links give them.
IsFreeList(n, s) ==
    /\ {s[i] : i \in 1..n} = FreeBlocks
    /\ \A i, j \in 1..n : s[i] = s[j] => i = j
    /\ IF n = 0 THEN head = 0 /\ tail = 0
                ELSE head = s[1] /\ tail = s[n] /\ nxt[s[n]] = 0
    /\ \A i \in 1..(n - 1) : nxt[s[i]] = s[i + 1]

\* The list that starts at blk_head and ends at blk_tail visits every free
\* block once and no other: no block is lost, none is on the list twice, and no
\* caller's block is on it, whatever the order of xdb_stg_alloc, xdb_stg_free
\* and repairs.
FreeListExact ==
    LET n == Cardinality(FreeBlocks)
    IN  \E s \in [1..n -> Blocks] : IsFreeList(n, s)

\* A block that was never handed out is free.
FreshAreFree == \A r \in Blocks : r > maxid => ctrl[r] = FREE

\* xdb_stg_alloc never hands out a block that a caller still holds, and never
\* one outside the mapping.
HandsOutOnlyFree ==
    [][\A r \in Blocks : ctrl[r] # DIRTY /\ ctrl'[r] = DIRTY
                           => ctrl[r] = FREE /\ r <= cap']_vars

\* The ids from blk_head on, as a sequence.
FreeQueue ==
    LET walk[n \in 0..MaxCap] ==
          IF n = 0 THEN <<>>
          ELSE LET s == walk[n - 1]
                   r == IF n = 1 THEN head
                        ELSE IF Len(s) < n - 1 THEN 0 ELSE nxt[s[n - 1]]
               IN  IF r \in Blocks THEN Append(s, r) ELSE s
    IN  walk[MaxCap]

\* The intrusive list implements a first-in first-out allocator.
Abs == INSTANCE XdbStoreAbs WITH
          queue <- FreeQueue,
          held <- {r \in 1..maxid : ctrl[r] # FREE /\ r \notin Unvisited},
          limbo <- Unvisited,
          high <- maxid
ImplementsAllocator == Abs!AbsSpec
===============================================================================
