--------------------------- MODULE MCCachePlugin ----------------------------
(* Instances of CachePlugin for TLC: the calls and keys are model values,  *)
(* and every run takes the requests and the surroundings it is about.      *)
EXTENDS CachePlugin, TLC

CONSTANTS c1, c2, c3, c4, k1, k2, n1, n2

MCNS == k1 :> n1 @@ k2 :> n2
MCNS1 == k1 :> n1

Symmetry == Permutations(Calls)

Read(op, tx, ch, k) == [op |-> op, inTx |-> tx, key |-> k, cached |-> ch, ns |-> None]
Exec(tx, k, n) == [op |-> "Exec", inTx |-> tx, key |-> k, cached |-> FALSE, ns |-> n]

(* Cached reads of one key. *)
OneKeyRequests == {Read("Select", FALSE, TRUE, k1)}

(* Cached reads of two keys, each by one operation only. *)
TwoKeyRequests == {Read("Get", FALSE, TRUE, k1), Read("Select", FALSE, TRUE, k2)}

(* Reads in and out of transactions, one of them past the cache, against   *)
(* writes of the same key that invalidate its namespace, or another one.   *)
TxRequests ==
  {Read("Select", FALSE, TRUE, k1), Read("Select", FALSE, FALSE, k1),
   Read("Select", TRUE, TRUE, k1), Exec(FALSE, k1, n1), Exec(FALSE, k1, n2),
   Exec(TRUE, k1, n1)}

(* Get and Select of the same multi-row query under the same key. *)
MixedRequests == {Read("Get", FALSE, TRUE, k1), Read("Select", FALSE, TRUE, k1)}
=============================================================================
