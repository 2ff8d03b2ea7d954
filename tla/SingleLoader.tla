---------------------------- MODULE SingleLoader ----------------------------
(***************************************************************************)
(* What the cache plugin promises when singleflight is on: however many    *)
(* calls miss the cache on one key at the same time, at most one of them   *)
(* goes to the database, and a call does so at most once.                  *)
(*                                                                         *)
(* CachePlugin implements this specification (cache/cache.go Before/After  *)
(* with cache/flight.go): a call is loading a key from the moment it has   *)
(* missed as leader until it hands the key back.                           *)
(***************************************************************************)

CONSTANTS Calls, Keys

VARIABLES
  loading,  \* loading[k] : the calls that are loading key k
  loaded    \* the calls that have stopped loading

vars == <<loading, loaded>>

TypeOK ==
  /\ loading \in [Keys -> SUBSET Calls]
  /\ loaded \subseteq Calls

Init ==
  /\ loading = [k \in Keys |-> {}]
  /\ loaded = {}

BeginLoad(c, k) ==
  /\ loading[k] = {}
  /\ c \notin loaded
  /\ loading' = [loading EXCEPT ![k] = {c}]
  /\ UNCHANGED loaded

EndLoad(c, k) ==
  /\ c \in loading[k]
  /\ loading' = [loading EXCEPT ![k] = @ \ {c}]
  /\ loaded' = loaded \cup {c}

Next == \E c \in Calls, k \in Keys : BeginLoad(c, k) \/ EndLoad(c, k)

Spec == Init /\ [][Next]_vars
=============================================================================
