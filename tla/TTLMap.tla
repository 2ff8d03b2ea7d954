------------------------------- MODULE TTLMap -------------------------------
(***************************************************************************)
(* What the Store interface of cache/store.go promises to the cache        *)
(* plugin: a map from keys to values that live for as long as the caller   *)
(* of Set asked, and no longer.  It counts the time a value has left where *)
(* the code compares a deadline with the clock.  It loses nothing but what *)
(* is deleted, what is over, and an entry that makes room for another.     *)
(***************************************************************************)
EXTENDS Integers

CONSTANTS Keys, Vals, TTLs, DefaultTTL, None

VARIABLES
  live,   \* live[k] : the value the store has for k and its time, or None
  answer  \* what the last step answered if it was a Get, else None

vars == <<live, answer>>

Forever == -1

TypeOK ==
  /\ live \in [Keys -> [val : Vals, left : Nat \cup {Forever}] \cup {None}]
  /\ answer \in [of : Keys, val : Vals \cup {None}] \cup {None}

Init ==
  /\ live = [k \in Keys |-> None]
  /\ answer = None

Without(ks) == [k \in Keys |-> IF k \in ks THEN None ELSE live[k]]

Get(k) ==
  /\ answer' = [of |-> k, val |-> IF live[k] = None THEN None ELSE live[k].val]
  /\ UNCHANGED live

(* A value lives for the time asked for, or else the usual time. *)
Life(ttl) ==
  LET asked == {t \in {ttl, DefaultTTL} : t > 0}
  IN  IF asked = {} THEN Forever ELSE IF ttl \in asked THEN ttl ELSE DefaultTTL

(* Setting k starts its time anew, and may push out one other entry. *)
Set(k, v, ttl) ==
  /\ answer' = None
  /\ \E out \in SUBSET (Keys \ {k}) :
       /\ \A i, j \in out : i = j
       /\ live' = [Without(out) EXCEPT ![k] = [val |-> v, left |-> Life(ttl)]]

(* Deletion of one key, of a prefix, or of everything. *)
Lose(ks) ==
  /\ answer' = None
  /\ live' = Without(ks)

(* The values whose time is over are gone, the others have less. *)
Tick ==
  /\ answer' = None
  /\ live' = [k \in Keys |->
                IF live[k] = None THEN None
                ELSE IF live[k].left = 0 THEN None
                ELSE IF live[k].left = Forever THEN live[k]
                ELSE [live[k] EXCEPT !.left = @ - 1]]

Next ==
  \/ \E ks \in SUBSET Keys : Lose(ks)
  \/ Tick
  \/ \E k \in Keys : Get(k) \/ \E v \in Vals, ttl \in TTLs : Set(k, v, ttl)

Spec == Init /\ [][Next]_vars
=============================================================================
