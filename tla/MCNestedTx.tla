----------------------------- MODULE MCNestedTx -----------------------------
(* Instances of NestedTx for TLC: a transaction with nested ones in it.    *)
EXTENDS NestedTx

CONSTANTS p1, p2, t0, t1, t2, t3
=============================================================================
