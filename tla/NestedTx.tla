------------------------------ MODULE NestedTx ------------------------------
(***************************************************************************)
(* Transactions and nested transactions (core.go: Tx, Begin, Commit,       *)
(* Rollback, ensureOpen, and Exec through a Tx).                           *)
(*                                                                         *)
(* All the Tx values of one BeginTx share one *sql.Tx; a nested one is a   *)
(* savepoint with a name of its own.  A goroutine that uses a Tx first     *)
(* reads its closed flag, then sends its statements one after the other,   *)
(* then sets the flag: these are separate steps, and other goroutines may  *)
(* use the same Tx, its parent or its children in between.                 *)
(*                                                                         *)
(* The database is external.  It keeps a log of the writes and savepoints  *)
(* of the transaction, with the standard meaning of the three statements:  *)
(* SAVEPOINT s appends s; RELEASE SAVEPOINT s forgets s and the savepoints *)
(* after it and keeps the writes; ROLLBACK TO SAVEPOINT s cuts the log     *)
(* after s.  The last two fail when s is not in the log.                   *)
(***************************************************************************)
EXTENDS Naturals, Sequences, FiniteSets

CONSTANTS
  Procs,          \* the goroutines
  Txs,            \* the Tx values
  Root,           \* the one that BeginTx returned
  InnermostOnly,  \* does the application use the innermost open Tx only?
  Env,            \* what may go wrong, see EnvKinds
  MaxWrites,      \* bound: the number of statements that write
  None

(* stmt: a statement fails, without effect.  cancel: the context of        *)
(* BeginTx is cancelled, and database/sql rolls the transaction back.      *)
EnvKinds == {"stmt", "cancel"}

ASSUME TxAssumptions ==
  /\ Root \in Txs
  /\ InnermostOnly \in BOOLEAN
  /\ Env \subseteq EnvKinds
  /\ MaxWrites \in Nat
  /\ None \notin Txs \cup {"committed", "rolledBack"}

Nested == Txs \ {Root}

(* A write is numbered, a savepoint is the Tx it stands for. *)
Writes == 1 .. MaxWrites
Save(t) == [sp |-> t, w |-> 0]
Wrote(w) == [sp |-> None, w |-> w]

(* The place in the log of a savepoint that was released. *)
Blank == [sp |-> None, w |-> 0]

VARIABLES
  pc,       \* pc[p] : where goroutine p is in the method it has called
  op,       \* op[p] : the method
  on,       \* on[p] : the Tx it was called on
  closed,   \* closed[t] : Tx.closed
  parent,   \* parent[t] : the Tx that t was begun on, None before
  session,  \* the state of the *sql.Tx
  log,      \* the transaction in the database
  durable,  \* the committed writes
  by,       \* history. by[w] : the Tx that write w was done through
  ended     \* history. ended[t] : how t was ended, if that succeeded

procVars == <<pc, op, on>>
vars == <<procVars, closed, parent, session, log, durable, by, ended>>

Init ==
  /\ pc = [p \in Procs |-> "idle"]
  /\ op = [p \in Procs |-> None]
  /\ on = [p \in Procs |-> None]
  /\ closed = [t \in Txs |-> FALSE]
  /\ parent = [t \in Txs |-> IF t = Root THEN Root ELSE None]
  /\ session = "active"
  /\ log = <<>>
  /\ durable = {}
  /\ by = <<>>
  /\ ended = [t \in Txs |-> None]

-----------------------------------------------------------------------------
(* The log. *)

Live(t) == \E i \in DOMAIN log : log[i] = Save(t)
At(t) == CHOOSE i \in DOMAIN log : log[i] = Save(t)

(* The log without the savepoints from that of t on. *)
Released(t) ==
  [i \in DOMAIN log |-> IF i >= At(t) /\ log[i].sp # None THEN Blank ELSE log[i]]

(* The log up to the savepoint of t. *)
CutAfter(t) == SubSeq(log, 1, At(t))

WritesIn(s) == {s[i].w : i \in DOMAIN s} \ {0}

-----------------------------------------------------------------------------
(* A method is called; ensureOpen lets it pass.  (When it does not, the    *)
(* method returns sql.ErrTxDone and nothing changes.)                      *)

Begun(t) == parent[t] # None
Open(t) == Begun(t) /\ ~closed[t]
MayUse(t) ==
  InnermostOnly => \A u \in Nested \ {t} : Open(u) => parent[u] # t

Step(p, l) == pc' = [pc EXCEPT ![p] = l]
Return(p) == Step(p, "idle")

Call(p) ==
  /\ pc[p] = "idle"
  /\ \E t \in Txs, m \in {"Begin", "Exec", "Commit", "Rollback"} :
       /\ Open(t)
       /\ MayUse(t)
       /\ op' = [op EXCEPT ![p] = m]
       /\ on' = [on EXCEPT ![p] = t]
  /\ Step(p, "stmt")
  /\ UNCHANGED <<closed, parent, session, log, durable, by, ended>>

-----------------------------------------------------------------------------
(* The statements.  t is the Tx of the method. *)

Sends(p, m) == pc[p] = "stmt" /\ op[p] = m /\ session = "active"

BeginStmt(p) ==
  /\ Sends(p, "Begin")
  /\ \E u \in Nested :
       /\ ~Begun(u)
       /\ log' = Append(log, Save(u))
       /\ parent' = [parent EXCEPT ![u] = on[p]]
  /\ Return(p)
  /\ UNCHANGED <<op, on, closed, session, durable, by, ended>>

ExecStmt(p) ==
  /\ Sends(p, "Exec")
  /\ Len(by) < MaxWrites
  /\ by' = Append(by, on[p])
  /\ log' = Append(log, Wrote(Len(by) + 1))
  /\ Return(p)
  /\ UNCHANGED <<op, on, closed, parent, session, durable, ended>>

(* Mutant of CommitStmt: the error of the statement is not looked at. *)
CommitStmtBlind(p) ==
  /\ Sends(p, "Commit")
  /\ on[p] # Root
  /\ log' = IF Live(on[p]) THEN Released(on[p]) ELSE log
  /\ Step(p, "close")
  /\ UNCHANGED <<op, on, closed, parent, session, durable, by, ended>>

CommitStmt(p) ==
  /\ Sends(p, "Commit")
  /\ on[p] # Root
  /\ Live(on[p])
  /\ log' = Released(on[p])
  /\ Step(p, "close")
  /\ UNCHANGED <<op, on, closed, parent, session, durable, by, ended>>

(* Mutant of RollbackStmt: the savepoint is released at once. *)
RollbackStmtReleases(p) ==
  /\ Sends(p, "Rollback")
  /\ on[p] # Root
  /\ Live(on[p])
  /\ log' = Released(on[p])
  /\ Step(p, "close")
  /\ UNCHANGED <<op, on, closed, parent, session, durable, by, ended>>

(* Mutant of RollbackStmt: everything is rolled back. *)
RollbackStmtAll(p) ==
  /\ Sends(p, "Rollback")
  /\ on[p] # Root
  /\ Live(on[p])
  /\ log' = SelectSeq(log, LAMBDA e : e.sp # None)
  /\ Step(p, "release")
  /\ UNCHANGED <<op, on, closed, parent, session, durable, by, ended>>

(* Mutant of RollbackStmt: the savepoint is not released. *)
RollbackStmtKeeps(p) ==
  /\ Sends(p, "Rollback")
  /\ on[p] # Root
  /\ Live(on[p])
  /\ log' = CutAfter(on[p])
  /\ Step(p, "close")
  /\ UNCHANGED <<op, on, closed, parent, session, durable, by, ended>>

RollbackStmt(p) ==
  /\ Sends(p, "Rollback")
  /\ on[p] # Root
  /\ Live(on[p])
  /\ log' = CutAfter(on[p])
  /\ Step(p, "release")
  /\ UNCHANGED <<op, on, closed, parent, session, durable, by, ended>>

ReleaseStmt(p) ==
  /\ pc[p] = "release"
  /\ session = "active"
  /\ Live(on[p])
  /\ log' = Released(on[p])
  /\ Step(p, "close")
  /\ UNCHANGED <<op, on, closed, parent, session, durable, by, ended>>

(* A statement of a Tx that is not the root fails: by itself, because its  *)
(* savepoint is gone, or because the *sql.Tx is done (sql.ErrTxDone).  The *)
(* method returns the error and leaves the flag alone.                     *)
Fails(p) ==
  \/ "stmt" \in Env
  \/ session # "active"
  \/ (op[p] = "Commit" \/ op[p] = "Rollback") /\ on[p] # Root /\ ~Live(on[p])

(* Mutant of StmtFails: the flag is set in spite of the error. *)
StmtFailsCloses(p) ==
  /\ pc[p] \in {"stmt", "release"}
  /\ on[p] = Root => op[p] \in {"Begin", "Exec"}
  /\ Fails(p)
  /\ closed' = [closed EXCEPT ![on[p]] = op[p] \in {"Commit", "Rollback"}]
  /\ Return(p)
  /\ UNCHANGED <<op, on, parent, session, log, durable, by, ended>>

StmtFails(p) ==
  /\ pc[p] \in {"stmt", "release"}
  /\ on[p] = Root => op[p] \in {"Begin", "Exec"}
  /\ Fails(p)
  /\ Return(p)
  /\ UNCHANGED <<op, on, closed, parent, session, log, durable, by, ended>>

(* Commit and Rollback of the root end the *sql.Tx; when the commit fails  *)
(* the database has rolled back.  The flag is set in any case.             *)
EndRoot(p) ==
  /\ Sends(p, "Commit") \/ Sends(p, "Rollback")
  /\ on[p] = Root
  /\ \/ /\ op[p] = "Commit"
        /\ session' = "committed"
        /\ durable' = WritesIn(log)
        /\ Step(p, "close")
     \/ /\ op[p] = "Rollback" \/ "stmt" \in Env
        /\ session' = "rolledBack"
        /\ UNCHANGED durable
        /\ Step(p, IF op[p] = "Rollback" THEN "close" ELSE "closeErr")
  /\ log' = <<>>
  /\ UNCHANGED <<op, on, closed, parent, by, ended>>

EndRootTwice(p) ==
  /\ pc[p] = "stmt"
  /\ op[p] \in {"Commit", "Rollback"}
  /\ on[p] = Root
  /\ session # "active"
  /\ Step(p, "closeErr")
  /\ UNCHANGED <<op, on, closed, parent, session, log, durable, by, ended>>

Outcome(m) == IF m = "Commit" THEN "committed" ELSE "rolledBack"

(* closed.Store(true), and the method returns. *)
Close(p) ==
  /\ pc[p] \in {"close", "closeErr"}
  /\ closed' = [closed EXCEPT ![on[p]] = TRUE]
  /\ ended' = IF pc[p] = "close"
              THEN [ended EXCEPT ![on[p]] = Outcome(op[p])]
              ELSE ended
  /\ Return(p)
  /\ UNCHANGED <<op, on, parent, session, log, durable, by>>

Cancel ==
  /\ "cancel" \in Env
  /\ session = "active"
  /\ session' = "rolledBack"
  /\ log' = <<>>
  /\ UNCHANGED <<procVars, closed, parent, durable, by, ended>>

Stmt(p) ==
  \/ BeginStmt(p) \/ ExecStmt(p) \/ CommitStmt(p) \/ RollbackStmt(p)
  \/ ReleaseStmt(p) \/ StmtFails(p) \/ EndRoot(p) \/ EndRootTwice(p) \/ Close(p)

Next == (\E p \in Procs : Call(p) \/ Stmt(p)) \/ Cancel

Spec == Init /\ [][Next]_vars

-----------------------------------------------------------------------------
(***************************************************************************)
(* Properties.                                                             *)
(***************************************************************************)

(* Every variable has its type. *)
TypeOK ==
  /\ pc \in [Procs -> {"idle", "stmt", "release", "close", "closeErr"}]
  /\ op \in [Procs -> {"Begin", "Exec", "Commit", "Rollback", None}]
  /\ on \in [Procs -> Txs \cup {None}]
  /\ closed \in [Txs -> BOOLEAN]
  /\ parent \in [Txs -> Txs \cup {None}]
  /\ session \in {"active", "committed", "rolledBack"}
  /\ log \in Seq([sp : Nested \cup {None}, w : 0 .. MaxWrites])
  /\ durable \subseteq Writes
  /\ by \in Seq(Txs)
  /\ ended \in [Txs -> {"committed", "rolledBack", None}]

(* A Tx that says it is finished has no savepoint left in the database,    *)
(* whatever failed and whoever else was using it (core.go:162, :184).      *)
ClosedIsGone == \A t \in Nested : closed[t] => ~Live(t)

(* What is done through a Tx depends on the Tx and on those it was begun   *)
(* in: the least set with the Tx that has the parents of its members.      *)
Ancestry(par, t) ==
  {u \in Txs : \A S \in SUBSET Txs :
     t \in S /\ (\A v \in S \ {Root} : par[v] \in S) => u \in S}
Chain(t) == Ancestry(parent, t)

(* A Rollback that reported success has undone the work: nothing done      *)
(* through a Tx, or within it, that was rolled back is ever durable.       *)
RolledBackNeverDurable ==
  \A w \in durable, t \in Txs : t \in Chain(by[w]) => ended[t] # "rolledBack"

(* At most one Commit or Rollback of a Tx reports success, also when       *)
(* goroutines race to end it.                                              *)
EndsOnce ==
  \A t \in Txs :
    LET reporting == {p \in Procs : on[p] = t /\ pc[p] = "close"}
    IN  /\ Cardinality(reporting) <= 1
        /\ ended[t] # None => reporting = {}

(* "its Rollback only rolls back to the savepoint ... neither affects the  *)
(* outer transaction" (core.go:123): ending a nested Tx takes no write out *)
(* of the transaction but those done through it or within it.              *)
OuterUnaffected ==
  [][\A w \in WritesIn(log) \ WritesIn(log') :
       session' = "active" =>
         \E p \in Procs : on[p] \in Nested \cap Chain(by[w]) /\ op[p] = "Rollback"]_vars

(* The writes that share the fate of t: those after its savepoint and      *)
(* before the next one.                                                    *)
Own(t) ==
  LET from == IF t = Root THEN 0 ELSE At(t)
      next(i) == i > from /\ \A j \in from + 1 .. i : log[j].sp = None
  IN  IF t = Root \/ Live(t) THEN {log[i].w : i \in {j \in DOMAIN log : next(j)}} \ {0}
      ELSE {}

Status(t) ==
  IF ~Begun(t) THEN "new"
  ELSE IF session = "active" /\ (t = Root \/ Live(t)) THEN "open"
  ELSE "over"

Tree == INSTANCE TxTree WITH
          status <- [t \in Txs |-> Status(t)],
          parent <- [t \in Txs |-> IF Begun(t) THEN parent[t] ELSE Root],
          own <- [t \in Txs |-> Own(t)]

(* Used from the inside out, the Tx values of a transaction are a tree of  *)
(* transactions, also when statements fail and the context is cancelled.   *)
ImplementsTxTree == Tree!Spec
=============================================================================
