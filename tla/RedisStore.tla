----------------------------- MODULE RedisStore -----------------------------
(***************************************************************************)
(* The Redis store of the cache plugin (cache/redis/redis.go).  Get, Set   *)
(* and Delete are one command each.  A prefix is deleted by a loop of SCAN *)
(* and DEL commands, between which other clients set, get and delete.      *)
(*                                                                         *)
(* Redis is external: a command is atomic, a SCAN iteration returns every  *)
(* key that is there from its first to its last command, and perhaps       *)
(* others, in batches of any size, the empty one included.                 *)
(*                                                                         *)
(* What belongs to the interface of a store is named after Redis here, so  *)
(* that the two stores can stand in one module.                            *)
(***************************************************************************)
EXTENDS FiniteSets

CONSTANTS
  Stores,    \* the Store values that share the Redis database
  Prefixed,  \* those of them made with WithKeyPrefix
  Names,     \* the keys their callers use
  Globs,     \* what DeletePrefix is called with
  Due,       \* Due[p] : the names that start with p
  Matched,   \* Matched[p] : the names that the glob p* matches
  Sweeps,    \* the calls of DeletePrefix and Flush
  Nobody

ASSUME RedisAssumptions ==
  /\ Prefixed \subseteq Stores
  /\ Due \in [Globs -> SUBSET Names]
  /\ Matched \in [Globs -> SUBSET Names]
  /\ Nobody \notin Stores

VARIABLES
  redis,   \* redis[k] : the store that set the entry under k, or Nobody
  sweep,   \* sweep[w] : where a call of DeletePrefix or Flush is
  reply,   \* reply[s] : what the last Get through s returned, likewise
  old      \* history: old[w], the keys due to a call that nobody set since

redisVars == <<redis, sweep, reply, old>>

-----------------------------------------------------------------------------
(* Mutant of key: the prefix of the store is left out. *)
keyBare(s, n) == [by |-> {}, name |-> n]

(* The prefix of the store, if it has one, and the name.  Two prefixes     *)
(* differ, and neither starts with the other.                              *)
key(s, n) == [by |-> {s} \cap Prefixed, name |-> n]

DBKeys == {key(s, n) : s \in Stores, n \in Names}
Present == {k \in DBKeys : redis[k] # Nobody}

Idle == [at |-> "idle", keys |-> {}, owed |-> {}, batch |-> {}]

RedisInit ==
  /\ redis = [k \in DBKeys |-> Nobody]
  /\ sweep = [w \in Sweeps |-> Idle]
  /\ reply = [s \in Stores |-> Nobody]
  /\ old = [w \in Sweeps |-> {}]

Lose(ks) == redis' = [k \in DBKeys |-> IF k \in ks THEN Nobody ELSE redis[k]]

-----------------------------------------------------------------------------
(* Single commands. An error of Redis changes nothing and counts as a miss *)
(* (cache.go:298), which is Get of a key that is not there.                *)
RedisGet(s, n) ==
  /\ reply' = [reply EXCEPT ![s] = redis[key(s, n)]]
  /\ UNCHANGED <<redis, sweep, old>>

(* Its expiration is up to Redis: see Expire. *)
RedisSet(s, n) ==
  /\ redis' = [redis EXCEPT ![key(s, n)] = s]
  /\ old' = [w \in Sweeps |-> old[w] \ {key(s, n)}]
  /\ UNCHANGED <<sweep, reply>>

RedisDelete(s, n) ==
  /\ Lose({key(s, n)})
  /\ UNCHANGED <<sweep, reply, old>>

(* Redis removes an entry whose time is over, or to make room. *)
Expire(k) ==
  /\ redis[k] # Nobody
  /\ Lose({k})
  /\ UNCHANGED <<sweep, reply, old>>

-----------------------------------------------------------------------------
(* A call of scanDel(pattern) begins; names are those the pattern matches. *)
Begin(w, keys, due) ==
  /\ sweep[w].at \in {"idle", "done", "failed"}
  /\ sweep' = [sweep EXCEPT ![w] = [at |-> "scan", keys |-> keys,
                                    owed |-> keys \cap Present, batch |-> {}]]
  /\ old' = [old EXCEPT ![w] = due \cap Present]
  /\ UNCHANGED <<redis, reply>>

RedisDeletePrefix(w, s, p) ==
  Begin(w, {key(s, n) : n \in Matched[p]}, {key(s, n) : n \in Due[p]})

(* Without a prefix the whole database is flushed, by one command. *)
RedisFlush(w, s) ==
  \/ /\ s \in Prefixed
     /\ Begin(w, {key(s, n) : n \in Names}, {key(s, n) : n \in Names})
  \/ /\ s \notin Prefixed
     /\ sweep[w].at \in {"idle", "done", "failed"}
     /\ Lose(DBKeys)
     /\ UNCHANGED <<sweep, reply, old>>

(* Mutant of Scan: an empty batch ends the loop. *)
ScanStops(w) ==
  /\ sweep[w].at = "scan"
  /\ \E batch \in SUBSET (sweep[w].keys \cap Present) :
       LET owed == (sweep[w].owed \cap Present) \ batch
       IN  sweep' = [sweep EXCEPT
                       ![w].owed = owed, ![w].batch = batch,
                       ![w].at = IF batch = {} THEN "done"
                                 ELSE IF owed = {} THEN "last" ELSE "del"]
  /\ UNCHANGED <<redis, reply, old>>

(* One SCAN. The cursor it returns is zero when the iteration is complete, *)
(* which takes all keys that were there all the time.                      *)
Scan(w) ==
  /\ sweep[w].at = "scan"
  /\ \E batch \in SUBSET (sweep[w].keys \cap Present) :
       LET owed == (sweep[w].owed \cap Present) \ batch
       IN  \E more \in BOOLEAN :
             /\ owed # {} => more
             /\ sweep' = [sweep EXCEPT
                            ![w].owed = owed, ![w].batch = batch,
                            ![w].at = IF batch # {} THEN IF more THEN "del" ELSE "last"
                                      ELSE IF more THEN "scan" ELSE "done"]
  /\ UNCHANGED <<redis, reply, old>>

(* One DEL of the batch. *)
Del(w) ==
  /\ sweep[w].at \in {"del", "last"}
  /\ Lose(sweep[w].batch)
  /\ sweep' = [sweep EXCEPT ![w].batch = {},
                            ![w].at = IF @ = "del" THEN "scan" ELSE "done"]
  /\ UNCHANGED <<reply, old>>

(* An error of SCAN or DEL ends the call; what was deleted stays deleted. *)
Fail(w) ==
  /\ sweep[w].at \in {"scan", "del", "last"}
  /\ sweep' = [sweep EXCEPT ![w].batch = {}, ![w].at = "failed"]
  /\ UNCHANGED <<redis, reply, old>>

RedisNext ==
  \/ \E s \in Stores, n \in Names :
       RedisGet(s, n) \/ RedisSet(s, n) \/ RedisDelete(s, n)
  \/ \E k \in DBKeys : Expire(k)
  \/ \E w \in Sweeps :
       \/ \E s \in Stores : RedisFlush(w, s) \/ \E p \in Globs : RedisDeletePrefix(w, s, p)
       \/ Scan(w) \/ Del(w) \/ Fail(w)

RedisSpec == RedisInit /\ [][RedisNext]_redisVars

-----------------------------------------------------------------------------
(***************************************************************************)
(* Properties.                                                             *)
(***************************************************************************)

Places == {"idle", "scan", "del", "last", "done", "failed"}

(* Every variable has its type. *)
RedisTypeOK ==
  /\ redis \in [DBKeys -> Stores \cup {Nobody}]
  /\ sweep \in [Sweeps -> [at : Places, keys : SUBSET DBKeys,
                            owed : SUBSET DBKeys, batch : SUBSET DBKeys]]
  /\ reply \in [Stores -> Stores \cup {Nobody}]
  /\ old \in [Sweeps -> SUBSET DBKeys]

(* A DeletePrefix or Flush that returns nil has removed every entry which  *)
(* was there when it was called, and which nobody has set again, whatever  *)
(* other clients do between its commands (redis.go:87), as long as the     *)
(* pattern matches the keys that start with the prefix.                    *)
PrefixIsCleared ==
  \A w \in Sweeps :
    sweep[w].at = "done" => \A k \in old[w] \cap sweep[w].keys : redis[k] = Nobody

(* Stores with prefixes of their own can share a database: none is given   *)
(* what was set through another one (redis.go:27, :106).                   *)
StoresApart ==
  \A s \in Stores :
    reply[s] \in {Nobody} \cup (IF s \in Prefixed THEN {s} ELSE Stores \ Prefixed)
=============================================================================
