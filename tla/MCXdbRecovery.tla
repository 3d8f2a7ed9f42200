----------------------------- MODULE MCXdbRecovery -----------------------------
(* XdbRecovery with a table of two or three rows and a log of a few commits. *)
EXTENDS XdbRecovery
===============================================================================
