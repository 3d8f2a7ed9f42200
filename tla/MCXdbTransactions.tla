-------------------------- MODULE MCXdbTransactions --------------------------
(***************************************************************************)
(* XdbSelect, and XdbTrans that it extends, with two connections on two    *)
(* disk tables of three rows.  All of it at once is too much: each         *)
(* behaviour is one of three uses of the tables, chosen when it begins.    *)
(***************************************************************************)
EXTENDS XdbSelect

VARIABLE use

Uses == {"writers", "readers", "tables"}

(* Table 1 only in "writers" and "readers", one of the values of the other *)
(* columns only in "readers"; both tables but one key, two rows of each,   *)
(* and one value in table 2, in "tables".  SELECTs run in "readers" only.  *)
InUse ==
    /\ use # "tables" => \A c \in Conns : stmt[c] # 2
    /\ use = "readers" => \A r \in Rows : row[1][r] # Junk => row[1][r].val = 1
    /\ use = "tables" => \A t \in Tables, r \in Rows :
                            row[t][r] # Junk => r < 3 /\ row[t][r].key = 1 /\ row[t][r].val <= 3 - t

MCInit == SelInit /\ use \in Uses

MCNext ==
    /\ IF use = "readers" THEN SelNext ELSE Next /\ UNCHANGED <<selVars, ghostVars>>
    /\ UNCHANGED use
    /\ InUse'

MCSpec ==
    /\ MCInit /\ [][MCNext]_<<vars, selVars, ghostVars, use>>
    /\ \A c \in Conns : WF_vars(Walk(c))
===============================================================================
