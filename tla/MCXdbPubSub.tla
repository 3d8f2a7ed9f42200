------------------------------ MODULE MCXdbPubSub ------------------------------
(***************************************************************************)
(* XdbPubSub in three uses: commits, statements and rollbacks beside the   *)
(* snapshot of a connection that does not fail, of one row with two values *)
(* or of two rows with one value; and connections that fail, the replica   *)
(* connecting twice, with changes of a table of one block.                 *)
(***************************************************************************)
EXTENDS XdbPubSub

VARIABLE use

InUse ==
    /\ use = "breaks" => trans # "open" /\ \A q \in Rows : q # 1 => blk[q] = Free
    /\ use # "breaks" => n <= 2 /\ \A c \in Conns : thread[c] # "none" => Live(c)
    /\ \A q \in Rows : IF use = "rows" THEN blk[q].val # 2 ELSE blk[q].key # 2

MCInit == Init /\ use \in {"row", "rows", "breaks"} /\ InUse

MCNext == Next /\ UNCHANGED use /\ InUse'

MCSpec == MCInit /\ [][MCNext]_<<vars, use>> /\ Fairness
===============================================================================
