------------------------------- MODULE XdbObjm -------------------------------
(***************************************************************************)
(* The object manager of lib/xdb_objm.c, which keeps the databases, the    *)
(* tables of a database and the indexes of a table: an array of objects by *)
(* id, and behind it in the same block of memory a hash table of twice the *)
(* capacity that finds them by name.  Objects are modelled by their names; *)
(* two objects of one manager never have the same name here.               *)
(***************************************************************************)
EXTENDS Integers, FiniteSets, SequencesExt

CONSTANTS
    Hash,   \* xdb_strcasehash: a function from names to numbers
    NoObj   \* the null pointer

Names == DOMAIN Hash

ASSUME ObjmAssumption ==
    /\ NoObj \notin Names
    /\ \A n \in Names : Hash[n] \in Nat

\* A manager: capacity, highest id plus one, number of objects, the block of
\* memory (array and hash heads), and of each of its objects the link to the
\* next one of its chain and the id.
EmptyObjm == [cap |-> 0, max |-> 0, count |-> 0, mem |-> <<>>, nxt |-> <<>>, id |-> <<>>]

With(f, x, v) == [y \in DOMAIN f \union {x} |-> IF y = x THEN v ELSE f[y]]
Without(f, x) == Restrict(f, DOMAIN f \ {x})

\* The place in the block where the chain of a name begins.
Slot(om, n) == om.cap + (Hash[n] % (2 * om.cap))

\* The objects of the chain that begins at a place, in their order.
Chain(om, slot) ==
    LET all == Cardinality(DOMAIN om.nxt)
        c[k \in 0..all] ==
          IF k = 0 THEN <<>>
          ELSE LET s == c[k - 1]
                   n == IF k = 1 THEN om.mem[slot]
                        ELSE IF Len(s) < k - 1 THEN NoObj ELSE om.nxt[Last(s)]
               IN  IF n = NoObj THEN s ELSE Append(s, n)
    IN  c[all]

\* The objects in the order of their ids.
Listed(om) ==
    LET upto[i \in 0..om.max] ==
          IF i = 0 THEN <<>>
          ELSE IF om.mem[i - 1] = NoObj THEN upto[i - 1] ELSE Append(upto[i - 1], om.mem[i - 1])
    IN  upto[om.max]

\* xdb_objm_get2
Get(om, n) == IF om.cap # 0 /\ Contains(Chain(om, Slot(om, n)), n) THEN n ELSE NoObj
Known(om) == {n \in Names : Get(om, n) = n}

\* xdb_objm_hash_add: at the end of the chain, unless the name is there.
Chained(om, n, slot, chain) ==
    CASE Contains(chain, n) -> om
      [] chain = <<>> -> [om EXCEPT !.mem[slot] = n, !.nxt = With(@, n, NoObj)]
      [] OTHER -> [om EXCEPT !.nxt = [With(@, n, NoObj) EXCEPT ![Last(chain)] = n]]

HashAdd(om, n) == Chained(om, n, Slot(om, n), Chain(om, Slot(om, n)))

Rehash(om, i) == IF om.mem[i] = NoObj THEN om ELSE HashAdd(om, om.mem[i])

\* The array grows when it is full or when the id lies beyond its end.
MustGrow(om, xoid) == om.count = om.cap \/ xoid > om.cap

\* The capacity doubles until the id fits.
Doubled(cap, xoid) ==
    LET upto[k \in 0..xoid] ==
          IF k = 0 THEN cap ELSE IF upto[k - 1] > xoid THEN upto[k - 1] ELSE 2 * upto[k - 1]
    IN  IF xoid < 0 THEN cap ELSE upto[xoid]

\* The objects of the first n places go into the hash table again.
Rehashed(om, n) ==
    LET upto[i \in 0..n] == IF i = 0 THEN om ELSE Rehash(upto[i - 1], i - 1)
    IN  upto[n]

Grow(om, xoid) ==
    LET cap == Doubled(IF om.cap = 0 THEN 1 ELSE 2 * om.cap, xoid)
    IN  Rehashed([om EXCEPT !.cap = cap,
                            !.mem = [i \in 0..(3 * cap - 1) |->
                                       IF i < om.cap THEN om.mem[i] ELSE NoObj]], om.cap)

Grown(om, xoid) == IF MustGrow(om, xoid) THEN Grow(om, xoid) ELSE om

\* The id one past the end passes that test: the object is put into the first
\* place of the hash table, over the chain that begins there.
Overruns(om, xoid) == xoid = om.cap /\ ~MustGrow(om, xoid)

\* An object in a place of the array, and then in its chain.
Put(om, n, i) ==
    HashAdd([om EXCEPT !.mem[i] = n, !.id = With(@, n, i), !.nxt = With(@, n, NoObj),
                       !.count = @ + 1, !.max = IF i >= @ THEN i + 1 ELSE @], n)

\* xdb_objm_add: a negative id asks for the least free one.
Place(om, n, xoid) ==
    Put(om, n, IF xoid < 0 THEN Min({j \in 0..(om.cap - 1) : om.mem[j] = NoObj}) ELSE xoid)

Add(om, n, xoid) == Place(Grown(om, xoid), n, xoid)

\* xdb_objm_del: out of its chain and of the array; the highest id falls to the
\* highest object that is left.  The object is freed by the caller.
Unlink(om, n, slot, chain) ==
    LET k == CHOOSE j \in 0..Len(chain) : IF Contains(chain, n) THEN j # 0 /\ chain[j] = n ELSE j = 0
    IN  CASE k = 0 -> om
          [] k = 1 -> [om EXCEPT !.mem[slot] = om.nxt[n]]
          [] OTHER -> [om EXCEPT !.nxt[chain[k - 1]] = om.nxt[n]]

Lower(om, i) ==
    IF i + 1 = om.max
    THEN [om EXCEPT !.max = 1 + Max({j \in 0..(i - 1) : om.mem[j] # NoObj} \union {-1})]
    ELSE om

Del(om, n) ==
    Lower([Unlink(om, n, Slot(om, n), Chain(om, Slot(om, n)))
             EXCEPT !.mem[om.id[n]] = NoObj, !.count = @ - 1,
                    !.nxt = Without(@, n), !.id = Without(@, n)], om.id[n])
===============================================================================
