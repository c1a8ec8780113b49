------------------------------ MODULE MCBurnIn ------------------------------
(* An instance of BurnIn whose wall clock passes the local epoch and more   *)
(* than a cycle of the smaller grids and of the largest one.                *)
EXTENDS BurnIn

MCFirst == -2 * 3600
MCLast == 5 * 3600
=============================================================================
