------------------------------ MODULE MCStores ------------------------------
(* Instances of the two stores for TLC.  A cache has one of them: in each  *)
(* behaviour one of the two acts and the other stays as it began.          *)
(*                                                                         *)
(* The memory store has three keys, two of which start with the prefix;    *)
(* the Redis database has two Store values, one of them with a key prefix. *)
EXTENDS MemoryStore, RedisStore, TLC

CONSTANTS k1, k2, k3, v1, v2, p1, s1, s2

VARIABLE remote

MCUnder == p1 :> {k1, k2}
MCTTLs == {-2, 0, 1, 2}

StoresInit == Init /\ RedisInit /\ remote \in BOOLEAN

StoresNext ==
  \/ ~remote /\ Next /\ UNCHANGED <<remote, redisVars>>
  \/ remote /\ RedisNext /\ UNCHANGED <<remote, vars>>

StoresSpec == StoresInit /\ [][StoresNext]_<<remote, vars, redisVars>>
=============================================================================
