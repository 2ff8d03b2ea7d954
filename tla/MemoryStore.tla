---------------------------- MODULE MemoryStore -----------------------------
(***************************************************************************)
(* The built-in store of the cache plugin (cache/store.go): a map from     *)
(* keys to list elements, and a list of the elements in order of use.      *)
(* Entries expire lazily, when a Get finds them too old, and the least     *)
(* recently used one is evicted when the store is full.                    *)
(*                                                                         *)
(* Every operation holds the mutex from its first to its last line, so an  *)
(* operation is one action.  An element is identified by the key of its    *)
(* entry: the list never holds two elements with one key.                  *)
(***************************************************************************)
EXTENDS Integers, Sequences, FiniteSets

CONSTANTS
  Keys,        \* the keys of the store
  Prefixes,    \* the prefixes DeletePrefix is called with
  Under,       \* Under[p] : the keys that start with prefix p
  Vals,        \* the values
  Cap,         \* MemoryStore.cap, 0 for no limit
  DefaultTTL,  \* MemoryStore.ttl, 0 or less for no default expiration
  TTLs,        \* what the callers of Set ask for, 0 or less for nothing
  Horizon,     \* bound: the clock stops at this time
  None

ASSUME StoreAssumptions ==
  /\ Under \in [Prefixes -> SUBSET Keys]
  /\ Cap \in Nat
  /\ DefaultTTL \in Int
  /\ TTLs \subseteq Int
  /\ Horizon \in Nat \ {0}
  /\ None \notin Vals

ASSUME NoneAssumption == None \notin [val : Vals, left : Int]

VARIABLES
  items,   \* MemoryStore.items, with the entry of each element
  lru,     \* MemoryStore.lru, the keys of its elements from front to back
  now,     \* the clock
  answer,  \* what the last step returned if it was a Get, else None
  used     \* history: all keys ever touched, the last touched first

vars == <<items, lru, now, answer, used>>

(* The zero time: an entry with it never expires. *)
Never == 0

Entry == [val : Vals, expires : Nat]

Init ==
  /\ items = [k \in {} |-> None]
  /\ lru = <<>>
  /\ now = 1
  /\ answer = None
  /\ used = <<>>

-----------------------------------------------------------------------------
(* Helpers of the list. *)

(* The list without some keys, built from its front. *)
Without(s, ks) ==
  LET kept[n \in 0 .. Len(s)] ==
        IF n = 0 THEN <<>>
        ELSE IF s[n] \in ks THEN kept[n - 1] ELSE Append(kept[n - 1], s[n])
  IN  kept[Len(s)]

(* lru.MoveToFront, and lru.PushFront of an element that is not there. *)
ToFront(s, k) == <<k>> \o Without(s, {k})

(* items without some keys. *)
Only(ks) == [k \in DOMAIN items \cap ks |-> items[k]]

(* Mutant of Expired: an entry is old at its deadline, not after it. *)
ExpiredAt(e) == e.expires # Never /\ now >= e.expires

(* time.Now().After(e.expires), for an entry that can expire. *)
Expired(e) == e.expires # Never /\ now > e.expires

(* Mutant of Deadline: only a ttl of zero stands for none. *)
DeadlineNegative(ttl) ==
  IF ttl # 0 THEN now + ttl
  ELSE IF DefaultTTL > 0 THEN now + DefaultTTL ELSE Never

Deadline(ttl) ==
  IF ttl > 0 THEN now + ttl
  ELSE IF DefaultTTL > 0 THEN now + DefaultTTL ELSE Never

-----------------------------------------------------------------------------
(* The operations. *)

(* Mutant of Get: an expired entry leaves the map but not the list. *)
GetHalfRemoves(k) ==
  /\ \/ /\ k \notin DOMAIN items
        /\ answer' = [of |-> k, val |-> None]
        /\ UNCHANGED <<items, lru, used>>
     \/ /\ k \in DOMAIN items
        /\ Expired(items[k])
        /\ items' = Only(Keys \ {k})
        /\ answer' = [of |-> k, val |-> None]
        /\ UNCHANGED <<lru, used>>
     \/ /\ k \in DOMAIN items
        /\ ~Expired(items[k])
        /\ lru' = ToFront(lru, k)
        /\ used' = ToFront(used, k)
        /\ answer' = [of |-> k, val |-> items[k].val]
        /\ UNCHANGED items
  /\ UNCHANGED now

(* Mutant of Get: a hit does not count as a use. *)
GetNoTouch(k) ==
  /\ \/ /\ k \notin DOMAIN items
        /\ answer' = [of |-> k, val |-> None]
        /\ UNCHANGED <<items, lru, used>>
     \/ /\ k \in DOMAIN items
        /\ Expired(items[k])
        /\ items' = Only(Keys \ {k})
        /\ lru' = Without(lru, {k})
        /\ answer' = [of |-> k, val |-> None]
        /\ UNCHANGED used
     \/ /\ k \in DOMAIN items
        /\ ~Expired(items[k])
        /\ used' = ToFront(used, k)
        /\ answer' = [of |-> k, val |-> items[k].val]
        /\ UNCHANGED <<items, lru>>
  /\ UNCHANGED now

Get(k) ==
  /\ \/ /\ k \notin DOMAIN items
        /\ answer' = [of |-> k, val |-> None]
        /\ UNCHANGED <<items, lru, used>>
     \/ /\ k \in DOMAIN items
        /\ Expired(items[k])
        /\ items' = Only(Keys \ {k})
        /\ lru' = Without(lru, {k})
        /\ answer' = [of |-> k, val |-> None]
        /\ UNCHANGED used
     \/ /\ k \in DOMAIN items
        /\ ~Expired(items[k])
        /\ lru' = ToFront(lru, k)
        /\ used' = ToFront(used, k)
        /\ answer' = [of |-> k, val |-> items[k].val]
        /\ UNCHANGED items
  /\ UNCHANGED now

(* Mutant of Evicted: the test of the limit is off by one. *)
EvictedLate(k) ==
  IF k \notin DOMAIN items /\ Cap > 0 /\ Len(lru) > Cap
  THEN {lru[Len(lru)]}
  ELSE {}

(* The element that evict removes to make room for a new key. *)
Evicted(k) ==
  IF k \notin DOMAIN items /\ Cap > 0 /\ Len(lru) >= Cap /\ lru # <<>>
  THEN {lru[Len(lru)]}
  ELSE {}

Set(k, v, ttl) ==
  LET kept == (DOMAIN items \ Evicted(k)) \cup {k}
  IN  /\ items' = [j \in kept |-> IF j = k
                                  THEN [val |-> v, expires |-> Deadline(ttl)]
                                  ELSE items[j]]
      /\ lru' = ToFront(Without(lru, Evicted(k)), k)
      /\ used' = ToFront(used, k)
      /\ answer' = None
      /\ UNCHANGED now

Remove(ks) ==
  /\ items' = Only(Keys \ ks)
  /\ lru' = Without(lru, ks)
  /\ answer' = None
  /\ UNCHANGED <<now, used>>

Delete(k) == Remove({k})
DeletePrefix(p) == Remove(Under[p])

Flush ==
  /\ items' = [k \in {} |-> None]
  /\ lru' = <<>>
  /\ answer' = None
  /\ UNCHANGED <<now, used>>

Tick ==
  /\ now < Horizon
  /\ now' = now + 1
  /\ answer' = None
  /\ UNCHANGED <<items, lru, used>>

Next ==
  \/ \E k \in Keys : Get(k) \/ Delete(k)
  \/ \E k \in Keys, v \in Vals, ttl \in TTLs : Set(k, v, ttl)
  \/ \E p \in Prefixes : DeletePrefix(p)
  \/ Flush
  \/ Tick

Spec == Init /\ [][Next]_vars

-----------------------------------------------------------------------------
(***************************************************************************)
(* Properties.                                                             *)
(***************************************************************************)

(* Every variable has its type. *)
TypeOK ==
  /\ \E ks \in SUBSET Keys : items \in [ks -> Entry]
  /\ lru \in Seq(Keys)
  /\ now \in 1 .. Horizon
  /\ answer \in [of : Keys, val : Vals \cup {None}] \cup {None}
  /\ used \in Seq(Keys)

(* The map and the list hold the same elements, each of them once, on all  *)
(* the paths that remove one (store.go:62, :86, :97, :107, :116).          *)
ListMatchesMap ==
  /\ \A k \in Keys : k \in DOMAIN items <=> \E i \in DOMAIN lru : lru[i] = k
  /\ Len(lru) = Cardinality(DOMAIN items)

(* The store never holds more than its capacity (store.go:85).             *)
WithinCapacity == Cap > 0 => Len(lru) <= Cap

(* j was touched less recently than i. *)
Older(j, i) ==
  \E m, n \in DOMAIN used : m < n /\ used[m] = i /\ used[n] = j

(* The insertion of a new key pushes out another one only when the store   *)
(* is full, and then the one that was got or set least recently            *)
(* (store.go:85, :126).                                                    *)
EvictsOldest ==
  [][\A k \in DOMAIN items' \ DOMAIN items, j \in DOMAIN items \ DOMAIN items' :
       /\ Cap > 0
       /\ Len(lru) = Cap
       /\ \A i \in DOMAIN items \ {j} : Older(j, i)]_vars

(* What TTLMap knows of a key: the value until the deadline, and the time  *)
(* left, -1 for ever.                                                      *)
Live(k) ==
  IF k \notin DOMAIN items THEN None
  ELSE IF items[k].expires = Never THEN [val |-> items[k].val, left |-> -1]
  ELSE IF items[k].expires >= now THEN [val |-> items[k].val, left |-> items[k].expires - now]
  ELSE None

(* The store is a map whose values live for the time that Set was given: a *)
(* Get answers with the last value set until the deadline and not after    *)
(* it, unless the entry was deleted or made room for another (store.go:51, *)
(* :61, :72).                                                              *)
Map == INSTANCE TTLMap WITH live <- [k \in Keys |-> Live(k)]

ImplementsTTLMap == Map!Spec
=============================================================================
