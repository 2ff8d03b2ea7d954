------------------------------- MODULE TxTree -------------------------------
(***************************************************************************)
(* What nested transactions promise (core.go:123): a tree of transactions, *)
(* each with the writes done through it.  Committing a nested transaction  *)
(* hands its writes to its parent, rolling it back drops them, and neither *)
(* touches the parent's own.  Only the commit of the root makes anything   *)
(* durable.                                                                *)
(*                                                                         *)
(* NestedTx implements this specification as long as the application uses  *)
(* only the innermost open transaction.                                    *)
(***************************************************************************)

CONSTANTS Txs, Root, Writes

VARIABLES
  status,   \* status[t] : has t begun, is it open, or over?
  parent,   \* parent[t] : the transaction t was begun in
  own,      \* own[t] : the writes that share the fate of t
  durable   \* what the commit of the root has made durable

vars == <<status, parent, own, durable>>

TypeOK ==
  /\ status \in [Txs -> {"new", "open", "over"}]
  /\ parent \in [Txs -> Txs]
  /\ own \in [Txs -> SUBSET Writes]
  /\ durable \subseteq Writes

Init ==
  /\ status = [t \in Txs |-> IF t = Root THEN "open" ELSE "new"]
  /\ parent = [t \in Txs |-> Root]
  /\ own = [t \in Txs |-> {}]
  /\ durable = {}

(* t is open and none of its children is. *)
Innermost(t) ==
  /\ status[t] = "open"
  /\ \A u \in Txs \ {t, Root} : status[u] = "open" => parent[u] # t

Begin(t, u) ==
  /\ Innermost(t)
  /\ status[u] = "new"
  /\ status' = [status EXCEPT ![u] = "open"]
  /\ parent' = [parent EXCEPT ![u] = t]
  /\ UNCHANGED <<own, durable>>

Write(t, w) ==
  /\ Innermost(t)
  /\ \A u \in Txs : w \notin own[u]
  /\ own' = [own EXCEPT ![t] = @ \cup {w}]
  /\ UNCHANGED <<status, parent, durable>>

(* The writes of t are dropped; t itself is still open. *)
Undo(t) ==
  /\ Innermost(t)
  /\ own' = [own EXCEPT ![t] = {}]
  /\ UNCHANGED <<status, parent, durable>>

(* t hands what it has to its parent. *)
Merge(t) ==
  /\ t # Root
  /\ Innermost(t)
  /\ own' = [own EXCEPT ![parent[t]] = @ \cup own[t], ![t] = {}]
  /\ status' = [status EXCEPT ![t] = "over"]
  /\ UNCHANGED <<parent, durable>>

(* The root ends: its writes become durable, or everything is dropped. *)
Finish(keep) ==
  /\ status[Root] = "open"
  /\ keep \in {own[Root], {}}
  /\ keep # {} => Innermost(Root)
  /\ durable' = keep
  /\ own' = [t \in Txs |-> {}]
  /\ status' = [t \in Txs |-> IF status[t] = "open" THEN "over" ELSE status[t]]
  /\ UNCHANGED parent

Next ==
  \/ \E t, u \in Txs : Begin(t, u)
  \/ \E t \in Txs : Undo(t) \/ Merge(t) \/ \E w \in Writes : Write(t, w)
  \/ \E keep \in SUBSET Writes : Finish(keep)

Spec == Init /\ [][Next]_vars
=============================================================================
