----------------------------- MODULE MCXdbTrans -----------------------------
(* XdbTrans on one disk table of three rows, or on two of two rows. *)
EXTENDS XdbTrans, TLC

ConnSymmetry == Permutations(Conns)
===============================================================================
