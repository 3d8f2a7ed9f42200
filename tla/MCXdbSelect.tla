----------------------------- MODULE MCXdbSelect -----------------------------
(* XdbSelect with two connections on one disk table. *)
EXTENDS XdbSelect, TLC

ConnSymmetry == Permutations(Conns)
===============================================================================
