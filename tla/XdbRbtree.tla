------------------------------ MODULE XdbRbtree ------------------------------
(***************************************************************************)
(* The red-black tree of an index: core/xdb_rbtree.c.  XdbIndex uses it as *)
(* xdb_idx_ops do, for the indexes that are declared RBTREE.               *)
(*                                                                         *)
(* Every row has a node at its own id; node 0 is the nil node, whose       *)
(* parent is written although it is in no tree.  One row of each key is in *)
(* the tree; the others with its key hang below it as its siblings, and    *)
(* have their neighbours where a tree node has its children:               *)
(*                      left           right          parent         sib   *)
(*   tree node          child          child          parent         first *)
(*   first sibling      0              next           -1 - tree node 0     *)
(*   later sibling      previous       next           -1             0     *)
(* The negative numbers stand for the bit XDB_RB_SIB_NODE.                 *)
(***************************************************************************)
EXTENDS Integers, Sequences, FiniteSets

CONSTANT MaxRow \* the highest row id

Rows == 1 .. MaxRow
Nodes == Rows \union {0}

NewTree == [root |-> 0, nodes |-> 0, rows |-> 0, red |-> {},
            kid |-> [d \in {"left", "right"} |-> [r \in Nodes |-> 0]],
            parent |-> [r \in Nodes |-> 0], sib |-> [r \in Nodes |-> 0]]

Other(d) == IF d = "left" THEN "right" ELSE "left"
SideOf(x, r) == IF x.kid["left"][x.parent[r]] = r THEN "left" ELSE "right"

\* Where the tree led to u, below p, it leads to v.
Attach(x, p, u, v) ==
    IF p = 0 THEN [x EXCEPT !.root = v]
    ELSE [x EXCEPT !.kid[IF x.kid["left"][p] = u THEN "left" ELSE "right"][p] = v]

\* xdb_rb_left_rotate, xdb_rb_right_rotate: r goes down to side d, its child on
\* the other side takes its place.
Rotate(x, r, d) ==
    LET up == x.kid[Other(d)][r]
        mid == x.kid[d][up]
        y == Attach(x, x.parent[r], r, up)
        z == IF mid = 0 THEN y ELSE [y EXCEPT !.parent[mid] = r]
    IN  [z EXCEPT !.kid[Other(d)][r] = mid, !.kid[d][up] = r,
                  !.parent[up] = x.parent[r], !.parent[r] = up]

\* xdb_rb_transplant
Transplant(x, u, v) == [Attach(x, x.parent[u], u, v) EXCEPT !.parent[v] = x.parent[u]]

\* xdb_rb_minimum
Minimum(x, r) ==
    LET least[q \in Nodes] == IF x.kid["left"][q] = 0 THEN q ELSE least[x.kid["left"][q]]
    IN  least[r]

Black(x, S) == [x EXCEPT !.red = @ \ S]
Red(x, r) == [x EXCEPT !.red = @ \union {r}]
Paint(x, r, from) == IF from \in x.red THEN Red(x, r) ELSE Black(x, {r})

-------------------------------------------------------------------------------
(* xdb_rbtree_add.                                                          *)

\* The node with key k, or 0, and the last node looked at before; xdb_rb_find,
\* which compares a value and not a row, takes the same way for integers.
Search(x, key, k) ==
    LET from[r \in Nodes, last \in Nodes] ==
            IF r = 0 \/ key[r] = k THEN <<r, last>>
            ELSE from[x.kid[IF k < key[r] THEN "left" ELSE "right"][r], r]
    IN  from[x.root, 0]

TreeTop(x, key, k) == Search(x, key, k)[1]

\* A turn of the loop of xdb_rb_insert_fixup at node at[2] of tree at[1]: a red
\* parent with a red brother moves the fault up, without one a rotation ends it.
InsertTurn(at) ==
    LET x == at[1]
        r == at[2]
        p == x.parent[r]
        g == x.parent[p]
        d == SideOf(x, p)
        uncle == x.kid[Other(d)][g]
        inner == r = x.kid[Other(d)][p]
        y == IF inner THEN Rotate(x, p, d) ELSE x
        q == IF inner THEN p ELSE r
    IN  IF p \notin x.red THEN at
        ELSE IF uncle \in x.red THEN <<Red(Black(x, {p, uncle}), g), g>>
        ELSE <<Rotate(Red(Black(y, {y.parent[q]}), g), g, Other(d)), q>>

\* xdb_rb_insert_fixup: each turn but the last goes up, and no way is longer than
\* there are rows.
InsertFixup(x, r) ==
    LET after[n \in Nodes] == IF n = 0 THEN <<x, r>> ELSE InsertTurn(after[n - 1])
        y == after[MaxRow][1]
    IN  Black(y, {y.root})

\* r becomes the first sibling of a node with its key ...
TreeSibling(x, top, r) ==
    LET first == x.sib[top]
        y == [Black(x, {r}) EXCEPT
                 !.sib[top] = r, !.sib[r] = 0, !.parent[r] = -1 - top,
                 !.kid["left"][r] = 0, !.kid["right"][r] = first]
    IN  IF first = 0 THEN y ELSE [y EXCEPT !.kid["left"][first] = r, !.parent[first] = -1]

\* ... or a leaf of its own.
TreeLeaf(x, key, r, p) ==
    LET d == IF p # 0 /\ key[r] < key[p] THEN "left" ELSE "right"
        y == [Red(x, r) EXCEPT !.sib[r] = 0, !.parent[r] = p, !.nodes = @ + 1,
                               !.kid["left"][r] = 0, !.kid["right"][r] = 0]
    IN  InsertFixup(IF p = 0 THEN [y EXCEPT !.root = r] ELSE [y EXCEPT !.kid[d][p] = r], r)

TreeInserted(x, key, r) ==
    LET found == Search(x, key, key[r])
    IN  [(IF found[1] # 0 THEN TreeSibling(x, found[1], r) ELSE TreeLeaf(x, key, r, found[2]))
            EXCEPT !.rows = @ + 1]

\* What a node is that is in no tree
Zero(x, r) == [Black(x, {r}) EXCEPT !.kid["left"][r] = 0, !.kid["right"][r] = 0,
                                    !.parent[r] = 0, !.sib[r] = 0]

\* A unique tree has a row with the key.
TreeRefused(x, r) == Zero(x, r)

-------------------------------------------------------------------------------
(* xdb_rbtree_rem.                                                          *)

\* A red brother of r, which is on side d: after a rotation it has a black one.
DeleteStep1(x, r, d) ==
    LET p == x.parent[r]
        w == x.kid[Other(d)][p]
    IN  IF w \notin x.red THEN x ELSE Rotate(Red(Black(x, {w}), p), p, d)

\* A black brother of r with a red child: the outer child becomes the red one ...
DeleteStep3(x, r, d) ==
    LET w == x.kid[Other(d)][x.parent[r]]
    IN  IF x.kid[Other(d)][w] \in x.red THEN x
        ELSE Rotate(Red(Black(x, {x.kid[d][w]}), w), w, Other(d))

\* ... and the last rotation makes up for the missing black node.
DeleteStep4(x, r, d) ==
    LET p == x.parent[r]
        w == x.kid[Other(d)][p]
    IN  Rotate(Black(Paint(x, w, p), {p, x.kid[Other(d)][w]}), p, d)

AtRoot(x) == <<x, x.root>>

\* Either the ways to the parent of r have now a black node too few, or the last
\* rotation ends it.
DeleteStep2(x, r, d) ==
    LET w == x.kid[Other(d)][x.parent[r]]
    IN  IF {x.kid["left"][w], x.kid["right"][w]} \cap x.red = {} THEN <<Red(x, w), x.parent[r]>>
        ELSE AtRoot(DeleteStep4(DeleteStep3(x, r, d), r, d))

\* A turn of the loop of xdb_rb_delete_fixup: the ways to at[2] have a black node
\* too few.
DeleteTurn(at) ==
    LET x == at[1]
        r == at[2]
        d == SideOf(x, r)
    IN  IF r = x.root \/ r \in x.red THEN at ELSE DeleteStep2(DeleteStep1(x, r, d), r, d)

\* xdb_rb_delete_fixup
DeleteFixup(x, r) ==
    LET after[n \in Nodes] == IF n = 0 THEN <<x, r>> ELSE DeleteTurn(after[n - 1])
        blacken(end) == Black(end[1], {end[2]})
    IN  blacken(after[MaxRow])

\* A sibling leaves its list.
RemSibling(x, r) ==
    LET prev == x.kid["left"][r]
        next == x.kid["right"][r]
        top == -1 - x.parent[r]
        y == IF prev = 0 THEN [x EXCEPT !.sib[top] = next] ELSE [x EXCEPT !.kid["right"][prev] = next]
    IN  IF next = 0 THEN y
        ELSE IF prev = 0 THEN [y EXCEPT !.parent[next] = -1 - top, !.kid["left"][next] = 0]
        ELSE [y EXCEPT !.kid["left"][next] = prev]

\* mutant: the promoted sibling keeps its own color
M_RemWithSibling(x, r) ==
    LET s == x.sib[r]
        next == x.kid["right"][s]
        y == IF next = 0 THEN x ELSE [x EXCEPT !.parent[next] = -1 - s, !.kid["left"][next] = 0]
        z == [y EXCEPT !.sib[s] = next, !.parent[s] = x.parent[r],
                       !.kid["left"][s] = x.kid["left"][r], !.kid["right"][s] = x.kid["right"][r]]
        kids == {x.kid["left"][r], x.kid["right"][r]} \ {0}
    IN  Attach([z EXCEPT !.parent = [n \in Nodes |-> IF n \in kids THEN s ELSE @[n]]],
               x.parent[r], r, s)

\* A tree node with siblings: the first one takes its place and its color, the
\* second one becomes the first.
RemWithSibling(x, r) ==
    LET s == x.sib[r]
        next == x.kid["right"][s]
        y == IF next = 0 THEN x ELSE [x EXCEPT !.parent[next] = -1 - s, !.kid["left"][next] = 0]
        z == [Paint(y, s, r) EXCEPT
                 !.sib[s] = next, !.parent[s] = x.parent[r],
                 !.kid["left"][s] = x.kid["left"][r], !.kid["right"][s] = x.kid["right"][r]]
        kids == {x.kid["left"][r], x.kid["right"][r]} \ {0}
    IN  Attach([z EXCEPT !.parent = [n \in Nodes |-> IF n \in kids THEN s ELSE @[n]]],
               x.parent[r], r, s)

\* A tree node with two children gives its place and color to the next one in
\* the order of the keys, n.
RemInner(x, r) ==
    LET n == Minimum(x, x.kid["right"][r])
        below == x.kid["right"][n]
        y == IF x.parent[n] = r THEN [x EXCEPT !.parent[below] = n]
             ELSE LET z == [Transplant(x, n, below) EXCEPT !.kid["right"][n] = x.kid["right"][r]]
                  IN  [z EXCEPT !.parent[z.kid["right"][n]] = n]
        w == [Transplant(y, r, n) EXCEPT !.kid["left"][n] = x.kid["left"][r],
                                         !.parent[x.kid["left"][r]] = n]
    IN  IF n \in x.red THEN Paint(w, n, r) ELSE DeleteFixup(Paint(w, n, r), below)

RemTreeNode(x, r) ==
    LET only == IF x.kid["left"][r] = 0 THEN x.kid["right"][r] ELSE x.kid["left"][r]
        y == IF x.kid["left"][r] # 0 /\ x.kid["right"][r] # 0 THEN RemInner(x, r)
             ELSE IF r \in x.red THEN Transplant(x, r, only)
             ELSE DeleteFixup(Transplant(x, r, only), only)
    IN  [y EXCEPT !.nodes = @ - 1]

InTree(x, r) ==
    \/ r = x.root \/ r \in x.red
    \/ \E v \in {x.kid["left"][r], x.kid["right"][r], x.parent[r], x.sib[r]} : v # 0

TreeRemoved(x, r) ==
    LET y == IF x.parent[r] < 0 THEN RemSibling(x, r)
             ELSE IF x.sib[r] # 0 THEN RemWithSibling(x, r)
             ELSE RemTreeNode(x, r)
    IN  IF ~InTree(x, r) THEN x ELSE [Zero(y, r) EXCEPT !.rows = @ - 1]

\* xdb_rbtree_init: the nodes keep what they hold, but for the nil node.  It
\* clears the whole header; that of the node array is left out here.
TreeCleared(x) ==
    [x EXCEPT !.root = 0, !.nodes = 0, !.rows = 0, !.parent[0] = 0]

-------------------------------------------------------------------------------
(* What a tree is.                                                          *)

\* the siblings of a tree node, first to last, as a query follows them
TreeSiblings(x, top) ==
    LET from[r \in Nodes] == IF r = 0 THEN <<>> ELSE <<r>> \o from[x.kid["right"][r]]
    IN  from[x.sib[top]]

\* r and the tree nodes below it
Below(x, r) ==
    LET from[q \in Nodes] ==
            IF q = 0 THEN {} ELSE {q} \union from[x.kid["left"][q]] \union from[x.kid["right"][q]]
    IN  from[r]

\* black nodes on the ways down from r, for all of these ways
BlackHeights(x, r) ==
    LET from[q \in Nodes] ==
            IF q = 0 THEN {0}
            ELSE {h + (IF q \in x.red THEN 0 ELSE 1) :
                     h \in from[x.kid["left"][q]] \union from[x.kid["right"][q]]}
    IN  from[r]

\* The root is black, no red node has a red child, all ways down have the same
\* number of black nodes.
RedBlack(x) ==
    /\ x.root \notin x.red
    /\ \A r \in Below(x, x.root) \cap x.red :
           {x.kid["left"][r], x.kid["right"][r]} \cap x.red = {}
    /\ Cardinality(BlackHeights(x, x.root)) = 1
===============================================================================
