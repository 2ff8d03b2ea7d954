--------------------------- MODULE NestedTxProofs ---------------------------
(***************************************************************************)
(* Proofs about NestedTx, for any transactions and any number of writes,   *)
(* from the assumption TxAssumptions.  For any goroutines and any use:     *)
(*                                                                         *)
(*  - every variable has its type (TypeCorrect);                           *)
(*  - a finished Tx has no savepoint left (ClosedLeavesNothing), and a Tx  *)
(*    is ended at most once, also by goroutines that race (EndsOnlyOnce).  *)
(*                                                                         *)
(* The argument: a Tx is past its end, in the database, from the statement *)
(* that ends it on, and this is for ever, as a savepoint is set once, and  *)
(* the session does not come back.  A goroutine between that statement and *)
(* the flag, and a flag that is set, each mean that the Tx is past its     *)
(* end; and the statement takes a Tx that is not.                          *)
(*                                                                         *)
(* For one goroutine that uses the innermost open Tx each time:            *)
(*                                                                         *)
(*  - what was rolled back is never durable (RollbackIsFinal), ending a    *)
(*    nested Tx takes nothing else with it (OuterStaysWhole), and the Tx   *)
(*    values are a tree of transactions (IsATree).                         *)
(***************************************************************************)
EXTENDS NestedTx, FiniteSetTheorems, TLAPS

(* The Tx has begun, and its statement at the end has been done. *)
PastEnd(t) == Begun(t) /\ (IF t = Root THEN session # "active" ELSE ~Live(t))

(* A method that runs has a Tx that has begun. *)
UseInv == \A p \in Procs : pc[p] # "idle" => on[p] \in Txs /\ Begun(on[p])

(* Each savepoint is set once, by the Begin of its Tx. *)
SavepointInv ==
  \A t \in Nested :
    /\ Live(t) => Begun(t)
    /\ \A i, j \in DOMAIN log : log[i] = Save(t) /\ log[j] = Save(t) => i = j

(* A Tx whose flag is about to be set, or is set, is past its end. *)
FlagInv ==
  /\ \A p \in Procs : pc[p] \in {"close", "closeErr"} => PastEnd(on[p])
  /\ \A t \in Txs : closed[t] \/ ended[t] # None => PastEnd(t)

(* One goroutine at most has ended a Tx and not said so yet. *)
EnderInv ==
  /\ \A p, q \in Procs : pc[p] = "close" /\ pc[q] = "close" /\ on[p] = on[q] => p = q
  /\ \A p \in Procs : pc[p] = "close" => ended[on[p]] = None

EndInv == UseInv /\ SavepointInv /\ FlagInv /\ EnderInv

-----------------------------------------------------------------------------
(* Types. *)

LogEntry == [sp : Nested \cup {None}, w : 0 .. MaxWrites]

LEMMA EntryTypes ==
  /\ \A t \in Nested : Save(t) \in LogEntry
  /\ \A w \in Writes : Wrote(w) \in LogEntry
  /\ Blank \in LogEntry
BY TxAssumptions DEF LogEntry, Save, Wrote, Blank, Writes, Nested

(* The place of a savepoint that is there. *)
LEMMA PlaceOfSavepoint ==
  ASSUME NEW t, Live(t)
  PROVE  At(t) \in DOMAIN log /\ log[At(t)] = Save(t)
BY DEF Live, At

(* What a release does to the log. *)
LEMMA ReleasedLog ==
  ASSUME TypeOK, NEW t
  PROVE  /\ Released(t) \in Seq(LogEntry)
         /\ DOMAIN Released(t) = DOMAIN log
         /\ \A i \in DOMAIN log :
              Released(t)[i] = IF i >= At(t) /\ log[i].sp # None THEN Blank ELSE log[i]
<1> DEFINE item(i) == IF i >= At(t) /\ log[i].sp # None THEN Blank ELSE log[i]
<1>1. log \in Seq(LogEntry)
  BY DEF TypeOK, LogEntry
<1>2. \A i \in 1 .. Len(log) : item(i) \in LogEntry
  BY <1>1, EntryTypes
<1>3. [i \in 1 .. Len(log) |-> item(i)] \in Seq(LogEntry)
  <2> HIDE DEF item
  <2> QED BY <1>1, <1>2
<1>4. DOMAIN log = 1 .. Len(log)
  BY <1>1
<1> QED BY <1>3, <1>4 DEF Released

(* What a rollback to a savepoint does to the log. *)
LEMMA CutLog ==
  ASSUME TypeOK, NEW t, Live(t)
  PROVE  /\ CutAfter(t) \in Seq(LogEntry)
         /\ DOMAIN CutAfter(t) = 1 .. At(t)
         /\ At(t) \in DOMAIN log
         /\ \A i \in 1 .. At(t) : i \in DOMAIN log /\ CutAfter(t)[i] = log[i]
<1>1. log \in Seq(LogEntry) /\ At(t) \in 1 .. Len(log)
  BY PlaceOfSavepoint DEF TypeOK, LogEntry
<1> QED BY <1>1 DEF CutAfter

LEMMA TypeInit == Init => TypeOK
BY TxAssumptions DEF Init, TypeOK, Nested

LEMMA TypeStep == ASSUME TypeOK, UseInv, [Next]_vars PROVE TypeOK'
<1> USE TxAssumptions
<1>log. log \in Seq(LogEntry)
  BY DEF TypeOK, LogEntry
<1>1. ASSUME NEW p \in Procs, Call(p) PROVE TypeOK'
  BY <1>1 DEF Call, Step, TypeOK
<1>2. ASSUME NEW p \in Procs, BeginStmt(p) PROVE TypeOK'
  <2>1. on[p] \in Txs
    BY <1>2 DEF BeginStmt, Sends, UseInv
  <2>2. PICK u \in Nested : log' = Append(log, Save(u)) /\ parent' = [parent EXCEPT ![u] = on[p]]
    BY <1>2 DEF BeginStmt
  <2>3. log' \in Seq(LogEntry)
    BY <1>log, <2>2, EntryTypes
  <2> QED BY <1>2, <2>1, <2>2, <2>3 DEF BeginStmt, Return, Step, TypeOK, LogEntry, Nested
<1>3. ASSUME NEW p \in Procs, ExecStmt(p) PROVE TypeOK'
  <2>1. on[p] \in Txs
    BY <1>3 DEF ExecStmt, Sends, UseInv
  <2>2. Len(by) + 1 \in Writes
    BY <1>3 DEF ExecStmt, TypeOK, Writes
  <2>3. log' \in Seq(LogEntry)
    BY <1>log, <1>3, <2>2, EntryTypes DEF ExecStmt
  <2> QED BY <1>3, <2>1, <2>3 DEF ExecStmt, Return, Step, TypeOK, LogEntry
<1>4. ASSUME NEW p \in Procs, CommitStmt(p) PROVE TypeOK'
  BY <1>4, ReleasedLog DEF CommitStmt, Step, TypeOK, LogEntry
<1>5. ASSUME NEW p \in Procs, RollbackStmt(p) PROVE TypeOK'
  BY <1>5, CutLog DEF RollbackStmt, Step, TypeOK, LogEntry
<1>6. ASSUME NEW p \in Procs, ReleaseStmt(p) PROVE TypeOK'
  BY <1>6, ReleasedLog DEF ReleaseStmt, Step, TypeOK, LogEntry
<1>7. ASSUME NEW p \in Procs, StmtFails(p) PROVE TypeOK'
  BY <1>7 DEF StmtFails, Return, Step, TypeOK
<1>8. ASSUME NEW p \in Procs, EndRoot(p) PROVE TypeOK'
  <2>1. WritesIn(log) \subseteq Writes
    <3> SUFFICES ASSUME NEW i \in DOMAIN log, log[i].w # 0 PROVE log[i].w \in Writes
      BY DEF WritesIn
    <3>1. log[i] \in LogEntry
      BY <1>log
    <3> QED BY <3>1 DEF LogEntry, Writes
  <2>2. log' \in Seq(LogEntry)
    BY <1>8 DEF EndRoot
  <2> QED BY <1>8, <2>1, <2>2 DEF EndRoot, Step, TypeOK, LogEntry
<1>9. ASSUME NEW p \in Procs, EndRootTwice(p) PROVE TypeOK'
  BY <1>9 DEF EndRootTwice, Step, TypeOK
<1>10. ASSUME NEW p \in Procs, Close(p) PROVE TypeOK'
  BY <1>10 DEF Close, Return, Step, Outcome, TypeOK, UseInv
<1>11. ASSUME Cancel PROVE TypeOK'
  BY <1>11 DEF Cancel, procVars, TypeOK
<1>12. ASSUME UNCHANGED vars PROVE TypeOK'
  BY <1>12 DEF vars, procVars, TypeOK
<1> QED
  BY <1>1, <1>2, <1>3, <1>4, <1>5, <1>6, <1>7, <1>8, <1>9, <1>10, <1>11, <1>12 DEF Next, Stmt
-----------------------------------------------------------------------------
(* The log. *)

(* What is past its end stays so, and the savepoints keep their places. *)
LastsFrom ==
  /\ \A t \in Txs : Begun(t) => Begun(t)'
  /\ session # "active" => session' # "active"
  /\ \A t \in Nested : Begun(t) /\ ~Live(t) => ~Live(t)'

(* A log whose savepoints are among those of the old one, at their places. *)
LEMMA FewerSavepoints ==
  ASSUME TypeOK, SavepointInv, UNCHANGED parent, session # "active" => session' # "active",
         \A t \in Nested : \A i \in DOMAIN log' :
           log'[i] = Save(t) => i \in DOMAIN log /\ log[i] = Save(t)
  PROVE  SavepointInv' /\ LastsFrom
<1>1. \A t \in Nested : Live(t)' => Live(t)
  BY DEF Live, Save
<1> QED BY <1>1 DEF SavepointInv, LastsFrom, Begun, Save

LEMMA SavesApart ==
  /\ \A t, u \in Nested : Save(t) = Save(u) => t = u
  /\ \A t \in Nested, w \in Nat : Save(t) # Wrote(w) /\ Save(t) # Blank
BY TxAssumptions DEF Save, Wrote, Blank, Nested

LEMMA ReleaseStep ==
  ASSUME TypeOK, SavepointInv, NEW t, log' = Released(t), UNCHANGED <<parent, session>>
  PROVE  SavepointInv' /\ LastsFrom
<1>1. ASSUME NEW u \in Nested, NEW i \in DOMAIN log', log'[i] = Save(u)
      PROVE  i \in DOMAIN log /\ log[i] = Save(u)
  BY <1>1, ReleasedLog, SavesApart
<1> QED BY <1>1, FewerSavepoints

LEMMA CutStep ==
  ASSUME TypeOK, SavepointInv, NEW t, Live(t), log' = CutAfter(t), UNCHANGED <<parent, session>>
  PROVE  SavepointInv' /\ LastsFrom
<1>1. ASSUME NEW u \in Nested, NEW i \in DOMAIN log', log'[i] = Save(u)
      PROVE  i \in DOMAIN log /\ log[i] = Save(u)
  BY <1>1, CutLog
<1> QED BY <1>1, FewerSavepoints

LEMMA EmptyStep ==
  ASSUME TypeOK, SavepointInv, log' = <<>>, UNCHANGED parent, session' # "active"
  PROVE  SavepointInv' /\ LastsFrom
<1>1. DOMAIN log' = {}
  OBVIOUS
<1> QED BY <1>1, FewerSavepoints

LEMMA SameLog ==
  ASSUME TypeOK, SavepointInv, UNCHANGED <<log, parent, session>>
  PROVE  SavepointInv' /\ LastsFrom
BY FewerSavepoints

LEMMA LogStep ==
  ASSUME TypeOK, UseInv, SavepointInv, [Next]_vars
  PROVE  SavepointInv' /\ LastsFrom
<1>log. log \in Seq(LogEntry)
  BY DEF TypeOK, LogEntry
<1>1. ASSUME NEW p \in Procs, Call(p) PROVE SavepointInv' /\ LastsFrom
  BY <1>1, SameLog DEF Call
<1>2. ASSUME NEW p \in Procs, BeginStmt(p) PROVE SavepointInv' /\ LastsFrom
  <2>1. on[p] \in Txs /\ on[p] # None /\ session' = session
    BY <1>2, TxAssumptions DEF BeginStmt, Sends, UseInv
  <2>2. PICK u \in Nested : /\ ~Begun(u)
                            /\ log' = Append(log, Save(u))
                            /\ parent' = [parent EXCEPT ![u] = on[p]]
    BY <1>2 DEF BeginStmt
  <2>3. \A t \in Txs : Begun(t) => Begun(t)'
    BY <2>1, <2>2 DEF Begun, TypeOK
  <2>4. Begun(u)'
    BY <2>1, <2>2 DEF Begun, TypeOK, Nested
  <2>5. /\ DOMAIN log' = 1 .. Len(log) + 1
        /\ \A i \in DOMAIN log' : log'[i] = IF i = Len(log) + 1 THEN Save(u) ELSE log[i]
        /\ DOMAIN log = 1 .. Len(log) /\ Len(log) \in Nat
    BY <1>log, <2>2
  <2>6. ~Live(u)
    BY <2>2 DEF SavepointInv
  <2>7. ASSUME NEW t \in Nested, NEW i \in DOMAIN log', log'[i] = Save(t)
        PROVE  IF t = u THEN i = Len(log) + 1 ELSE i \in DOMAIN log /\ log[i] = Save(t)
    BY <2>5, <2>6, <2>7, SavesApart DEF Live
  <2>8. \A t \in Nested : t # u /\ Live(t)' => Live(t)
    BY <2>7 DEF Live, Save
  <2>9. SavepointInv'
    <3> SUFFICES ASSUME NEW t \in Nested
                 PROVE  /\ Live(t)' => Begun(t)'
                        /\ \A i, j \in DOMAIN log' : log'[i] = Save(t) /\ log'[j] = Save(t) => i = j
      BY DEF SavepointInv, Save
    <3>1. Live(t)' => Begun(t)'
      BY <2>3, <2>4, <2>8 DEF SavepointInv, Nested
    <3>2. ASSUME NEW i \in DOMAIN log', NEW j \in DOMAIN log', log'[i] = Save(t), log'[j] = Save(t)
          PROVE  i = j
      BY <2>7, <3>2 DEF SavepointInv
    <3> QED BY <3>1, <3>2
  <2> QED BY <2>1, <2>2, <2>3, <2>8, <2>9 DEF LastsFrom
<1>3. ASSUME NEW p \in Procs, ExecStmt(p) PROVE SavepointInv' /\ LastsFrom
  <2>1. Len(by) + 1 \in Nat /\ log' = Append(log, Wrote(Len(by) + 1))
    BY <1>3 DEF ExecStmt, TypeOK
  <2>2. ASSUME NEW t \in Nested, NEW i \in DOMAIN log', log'[i] = Save(t)
        PROVE  i \in DOMAIN log /\ log[i] = Save(t)
    BY <1>log, <2>1, <2>2, SavesApart
  <2> QED BY <1>3, <2>2, FewerSavepoints DEF ExecStmt
<1>4. ASSUME NEW p \in Procs, CommitStmt(p) PROVE SavepointInv' /\ LastsFrom
  BY <1>4, ReleaseStep DEF CommitStmt
<1>5. ASSUME NEW p \in Procs, RollbackStmt(p) PROVE SavepointInv' /\ LastsFrom
  BY <1>5, CutStep DEF RollbackStmt
<1>6. ASSUME NEW p \in Procs, ReleaseStmt(p) PROVE SavepointInv' /\ LastsFrom
  BY <1>6, ReleaseStep DEF ReleaseStmt
<1>7. ASSUME NEW p \in Procs, StmtFails(p) PROVE SavepointInv' /\ LastsFrom
  BY <1>7, SameLog DEF StmtFails
<1>8. ASSUME NEW p \in Procs, EndRoot(p) PROVE SavepointInv' /\ LastsFrom
  BY <1>8, EmptyStep DEF EndRoot
<1>9. ASSUME NEW p \in Procs, EndRootTwice(p) PROVE SavepointInv' /\ LastsFrom
  BY <1>9, SameLog DEF EndRootTwice
<1>10. ASSUME NEW p \in Procs, Close(p) PROVE SavepointInv' /\ LastsFrom
  BY <1>10, SameLog DEF Close
<1>11. ASSUME Cancel PROVE SavepointInv' /\ LastsFrom
  BY <1>11, EmptyStep DEF Cancel
<1>12. ASSUME UNCHANGED vars PROVE SavepointInv' /\ LastsFrom
  BY <1>12, SameLog DEF vars
<1> QED
  BY <1>1, <1>2, <1>3, <1>4, <1>5, <1>6, <1>7, <1>8, <1>9, <1>10, <1>11, <1>12 DEF Next, Stmt

(* The savepoint of a released Tx is gone. *)
LEMMA ReleaseEnds ==
  ASSUME TypeOK, SavepointInv, NEW t \in Nested, Live(t), log' = Released(t)
  PROVE  ~Live(t)'
<1> SUFFICES ASSUME NEW i \in DOMAIN log', log'[i] = Save(t) PROVE FALSE
  BY DEF Live, Save
<1>1. i \in DOMAIN log /\ log[i] = Save(t) /\ (i >= At(t) => log[i].sp = None)
  BY ReleasedLog, SavesApart
<1>2. i = At(t)
  BY <1>1, PlaceOfSavepoint DEF SavepointInv
<1>3. At(t) \in Nat
  BY PlaceOfSavepoint DEF TypeOK
<1> QED BY <1>1, <1>2, <1>3, TxAssumptions DEF Save, Nested

LEMMA PastEndLasts ==
  ASSUME NEW t \in Txs, PastEnd(t), LastsFrom
  PROVE  PastEnd(t)'
BY DEF PastEnd, LastsFrom, Nested
-----------------------------------------------------------------------------
(* The ends of the transactions. *)

LEMMA LiveIsNested ==
  ASSUME TypeOK, NEW t \in Txs, Live(t)
  PROVE  t \in Nested
<1>1. PICK i \in DOMAIN log : log[i] = Save(t)
  BY DEF Live
<1>2. log \in Seq(LogEntry)
  BY DEF TypeOK, LogEntry
<1>3. log[i] \in LogEntry
  BY <1>2
<1> QED BY <1>1, <1>3, TxAssumptions DEF LogEntry, Save

(* A step of one goroutine that sets no flag: if it goes to set one, the   *)
(* Tx is past its end from now on, and for "close" it was not before.      *)
LEMMA OneMoves ==
  ASSUME UseInv, FlagInv, EnderInv, LastsFrom, UNCHANGED <<closed, ended>>,
         NEW p \in Procs,
         \A q \in Procs \ {p} : pc'[q] = pc[q] /\ on'[q] = on[q],
         pc'[p] # "idle" => on'[p] \in Txs /\ Begun(on'[p]),
         pc'[p] \in {"close", "closeErr"} => PastEnd(on[p])' /\ on'[p] = on[p],
         pc'[p] = "close" => ~PastEnd(on[p])
  PROVE  UseInv' /\ FlagInv' /\ EnderInv'
<1>1. \A t \in Txs : PastEnd(t) => PastEnd(t)'
  BY PastEndLasts
<1>2. \A t \in Txs : Begun(t) => Begun(t)'
  BY DEF LastsFrom
<1>3. UseInv'
  BY <1>2 DEF UseInv, Begun
<1>4. ASSUME NEW q \in Procs, pc'[q] \in {"close", "closeErr"} PROVE PastEnd(on[q])' /\ on'[q] = on[q]
  BY <1>1, <1>4 DEF UseInv, FlagInv
<1>5. FlagInv'
  BY <1>1, <1>4 DEF FlagInv, PastEnd, Live, Begun, Save
<1>6. ASSUME NEW q \in Procs, q # p, pc'[q] = "close", pc'[p] = "close" PROVE on'[q] # on'[p]
  BY <1>4, <1>6 DEF FlagInv
<1>7. pc'[p] = "close" => ended'[on'[p]] = None
  BY DEF FlagInv
<1>8. EnderInv'
  BY <1>6, <1>7 DEF EnderInv
<1> QED BY <1>3, <1>5, <1>8

LEMMA EndStep ==
  ASSUME TypeOK, EndInv, [Next]_vars
  PROVE  EndInv'
<1>1. SavepointInv' /\ LastsFrom
  BY LogStep DEF EndInv
<1> SUFFICES UseInv' /\ FlagInv' /\ EnderInv'
  BY <1>1 DEF EndInv
<1>2. UseInv /\ SavepointInv /\ FlagInv /\ EnderInv
  BY DEF EndInv
<1> DEFINE Goal == UseInv' /\ FlagInv' /\ EnderInv'
           Kept(p) == /\ on' = on /\ closed' = closed /\ ended' = ended
                      /\ \A q \in Procs \ {p} : pc'[q] = pc[q]
           Uses(p) == on[p] \in Txs /\ Begun(on[p])
<1>3. ASSUME NEW p \in Procs, Call(p) PROVE Goal
  <2>1. /\ \A q \in Procs \ {p} : pc'[q] = pc[q] /\ on'[q] = on[q]
        /\ pc'[p] = "stmt" /\ on'[p] \in Txs /\ Begun(on'[p])
        /\ UNCHANGED <<closed, ended>>
    BY <1>3 DEF Call, Step, Open, TypeOK
  <2> QED BY <1>1, <1>2, <2>1, OneMoves
<1>4. ASSUME NEW p \in Procs, BeginStmt(p) \/ ExecStmt(p) \/ StmtFails(p) PROVE Goal
  <2>1. Kept(p) /\ pc'[p] = "idle"
    BY <1>4 DEF BeginStmt, ExecStmt, StmtFails, Return, Step, TypeOK
  <2> QED BY <1>1, <1>2, <2>1, OneMoves
<1>5. ASSUME NEW p \in Procs, CommitStmt(p) PROVE Goal
  <2>1. Kept(p) /\ pc'[p] = "close" /\ Uses(p) /\ on[p] \in Nested
    BY <1>2, <1>5 DEF CommitStmt, Sends, Step, TypeOK, UseInv, Nested
  <2>2. ~PastEnd(on[p]) /\ ~Live(on[p])'
    BY <1>2, <1>5, <2>1, ReleaseEnds DEF CommitStmt, PastEnd, Nested
  <2>3. PastEnd(on[p])'
    BY <1>1, <2>1, <2>2 DEF PastEnd, LastsFrom, Nested, Begun, Live, Save
  <2> QED BY <1>1, <1>2, <2>1, <2>2, <2>3, OneMoves
<1>6. ASSUME NEW p \in Procs, RollbackStmt(p) PROVE Goal
  <2>1. Kept(p) /\ pc'[p] = "release" /\ Uses(p)
    BY <1>2, <1>6 DEF RollbackStmt, Sends, Step, TypeOK, UseInv
  <2> QED BY <1>1, <1>2, <2>1, OneMoves
<1>7. ASSUME NEW p \in Procs, ReleaseStmt(p) PROVE Goal
  <2>1. Kept(p) /\ pc'[p] = "close" /\ Uses(p)
    BY <1>2, <1>7 DEF ReleaseStmt, Step, TypeOK, UseInv
  <2>2. on[p] \in Nested
    BY <1>7, <2>1, LiveIsNested DEF ReleaseStmt
  <2>3. ~PastEnd(on[p]) /\ ~Live(on[p])'
    BY <1>2, <1>7, <2>2, ReleaseEnds DEF ReleaseStmt, PastEnd, Nested
  <2>4. PastEnd(on[p])'
    BY <1>1, <2>1, <2>2, <2>3 DEF PastEnd, LastsFrom, Nested, Begun, Live, Save
  <2> QED BY <1>1, <1>2, <2>1, <2>3, <2>4, OneMoves
<1>8. ASSUME NEW p \in Procs, EndRoot(p) PROVE Goal
  <2>1. Kept(p) /\ pc'[p] \in {"close", "closeErr"} /\ Uses(p) /\ on[p] = Root
    BY <1>2, <1>8 DEF EndRoot, Sends, Step, TypeOK, UseInv
  <2>2. session = "active" /\ session' # "active"
    BY <1>8 DEF EndRoot, Sends
  <2>3. ~PastEnd(on[p]) /\ PastEnd(on[p])'
    BY <1>1, <2>1, <2>2 DEF PastEnd, LastsFrom, Begun
  <2> QED BY <1>1, <1>2, <2>1, <2>3, OneMoves
<1>9. ASSUME NEW p \in Procs, EndRootTwice(p) PROVE Goal
  <2>1. Kept(p) /\ pc'[p] = "closeErr" /\ Uses(p) /\ on[p] = Root
    BY <1>2, <1>9 DEF EndRootTwice, Step, TypeOK, UseInv
  <2>2. PastEnd(on[p])'
    BY <1>1, <1>9, <2>1 DEF EndRootTwice, PastEnd, LastsFrom, Begun
  <2> QED BY <1>1, <1>2, <2>1, <2>2, OneMoves
<1>10. ASSUME NEW p \in Procs, Close(p) PROVE Goal
  <2>1. /\ on' = on
        /\ pc' = [pc EXCEPT ![p] = "idle"]
        /\ closed' = [closed EXCEPT ![on[p]] = TRUE]
        /\ pc[p] \in {"close", "closeErr"}
        /\ on[p] \in Txs /\ PastEnd(on[p])
    BY <1>2, <1>10 DEF Close, Return, Step, UseInv, FlagInv
  <2>2. \A t \in Txs : t # on[p] => closed'[t] = closed[t] /\ ended'[t] = ended[t]
    BY <1>10, <2>1 DEF Close, TypeOK
  <2>3. pc[p] = "closeErr" => ended' = ended
    BY <1>10 DEF Close
  <2>4. \A t \in Txs : (PastEnd(t) => PastEnd(t)') /\ (Begun(t) => Begun(t)')
    BY <1>1, PastEndLasts DEF LastsFrom
  <2>5. \A q \in Procs : pc'[q] = IF q = p THEN "idle" ELSE pc[q]
    BY <2>1 DEF TypeOK
  <2>6. UseInv'
    BY <1>2, <2>1, <2>4, <2>5 DEF UseInv, Begun
  <2>7. FlagInv'
    <3>1. ASSUME NEW q \in Procs, pc'[q] \in {"close", "closeErr"} PROVE PastEnd(on[q])'
      <4>1. pc[q] \in {"close", "closeErr"}
        BY <2>5, <3>1
      <4>2. PastEnd(on[q]) /\ on[q] \in Txs
        BY <1>2, <4>1 DEF FlagInv, UseInv
      <4> QED BY <2>1, <2>4, <4>2
    <3>2. ASSUME NEW t \in Txs, closed'[t] \/ ended'[t] # None PROVE PastEnd(t)'
      BY <1>2, <2>1, <2>2, <2>4, <3>2 DEF FlagInv
    <3> QED BY <2>1, <3>1, <3>2 DEF FlagInv, PastEnd, Live, Begun, Save
  <2>8. EnderInv'
    <3>1. ASSUME NEW q \in Procs, pc'[q] = "close" PROVE ended'[on'[q]] = None
      <4>1. pc[q] = "close" /\ q # p /\ on[q] \in Txs /\ ended[on[q]] = None
        BY <1>2, <2>5, <3>1 DEF UseInv, EnderInv
      <4>2. on[q] # on[p] \/ ended' = ended
        BY <1>2, <2>1, <2>3, <4>1 DEF EnderInv
      <4> QED BY <2>1, <2>2, <4>1, <4>2
    <3> QED BY <1>2, <2>1, <2>5, <3>1 DEF EnderInv
  <2> QED BY <2>6, <2>7, <2>8
<1>11. ASSUME Cancel \/ UNCHANGED vars PROVE Goal
  <2>1. UNCHANGED <<pc, on, closed, ended>>
    BY <1>11 DEF Cancel, vars, procVars
  <2>2. \A t \in Txs : (PastEnd(t) => PastEnd(t)') /\ (Begun(t) => Begun(t)')
    BY <1>1, PastEndLasts DEF LastsFrom
  <2>3. UseInv' /\ EnderInv'
    BY <1>2, <2>1, <2>2 DEF UseInv, EnderInv, Begun
  <2>4. ASSUME NEW q \in Procs, pc[q] \in {"close", "closeErr"} PROVE PastEnd(on[q])'
    <3>1. PastEnd(on[q]) /\ on[q] \in Txs
      BY <1>2, <2>4 DEF FlagInv, UseInv
    <3> QED BY <2>1, <2>2, <3>1
  <2>5. FlagInv'
    BY <1>2, <2>1, <2>2, <2>4 DEF FlagInv, PastEnd, Live, Begun, Save
  <2> QED BY <2>3, <2>5
<1> QED
  BY <1>3, <1>4, <1>5, <1>6, <1>7, <1>8, <1>9, <1>10, <1>11 DEF Next, Stmt

LEMMA EndInit == Init => EndInv
BY TxAssumptions
   DEF Init, EndInv, UseInv, SavepointInv, FlagInv, EnderInv, Live, Save, Begun, PastEnd, Nested

LEMMA Invariance == Spec => [](TypeOK /\ EndInv)
<1>1. Init => TypeOK /\ EndInv
  BY TypeInit, EndInit
<1>2. TypeOK /\ EndInv /\ [Next]_vars => TypeOK' /\ EndInv'
  BY TypeStep, EndStep DEF EndInv
<1> QED BY <1>1, <1>2, PTL DEF Spec

-----------------------------------------------------------------------------
(* Every variable has its type (core.go:108). *)
THEOREM TypeCorrect == Spec => []TypeOK
BY Invariance, PTL

(* A Tx whose closed flag is set has no savepoint in the database, whoever *)
(* else was using it, and whatever failed (core.go:162, :184).             *)
THEOREM ClosedLeavesNothing == Spec => []ClosedIsGone
<1>1. TypeOK /\ EndInv => ClosedIsGone
  BY DEF EndInv, FlagInv, PastEnd, ClosedIsGone, Nested
<1> QED BY <1>1, Invariance, PTL

(* At most one Commit or Rollback of a Tx reports success (core.go:142).   *)
THEOREM EndsOnlyOnce == Spec => []EndsOnce
<1>1. ASSUME TypeOK, EndInv PROVE EndsOnce
  <2> SUFFICES ASSUME NEW t \in Txs
               PROVE  LET reporting == {p \in Procs : on[p] = t /\ pc[p] = "close"}
                      IN  /\ Cardinality(reporting) <= 1
                          /\ ended[t] # None => reporting = {}
    BY DEF EndsOnce
  <2> DEFINE reporting == {p \in Procs : on[p] = t /\ pc[p] = "close"}
  <2>1. \A p, q \in reporting : p = q
    BY <1>1 DEF EndInv, EnderInv
  <2>2. reporting = {} \/ \E p \in reporting : reporting = {p}
    BY <2>1
  <2>3. Cardinality(reporting) <= 1
    BY <2>2, FS_EmptySet, FS_Singleton
  <2>4. ended[t] # None => reporting = {}
    BY <1>1 DEF EndInv, EnderInv
  <2> QED BY <2>3, <2>4
<1> QED BY <1>1, Invariance, PTL
-----------------------------------------------------------------------------
(* Used from the inside out.                                               *)
(*                                                                         *)
(* From here on one goroutine uses the transactions, the innermost open    *)
(* one each time.  Then the open ones are a path from the root, their      *)
(* savepoints lie in the log in the order of the path, and what follows a  *)
(* savepoint in the log was done through its Tx or within it.              *)

InsideOut == InnermostOnly /\ \A p, q \in Procs : p = q

(* The savepoint of t is at place i of the log. *)
Marks(i, t) == i \in DOMAIN log /\ log[i] = Save(t)

(* The write w is at place i of the log. *)
Holds(i, w) == i \in DOMAIN log /\ log[i] = Wrote(w)

(* The commit of t was successful, as far as the database is concerned. *)
Committed(t) ==
  \/ ended[t] = "committed"
  \/ \E p \in Procs : pc[p] = "close" /\ on[p] = t /\ op[p] = "Commit"

(* What the transactions were begun in goes back to the root. *)
BegunInv ==
  /\ Begun(Root)
  /\ \A t \in Nested : Begun(t) => parent[t] \in Txs /\ Begun(parent[t])
  /\ \A t \in Txs : Begun(t) => Root \in Chain(t)
  /\ \A w \in DOMAIN by : Begun(by[w])

(* The open ones are a path, and the goroutine works at its end. *)
OpenInv ==
  /\ \A t \in Nested : Open(t) => Open(parent[t])
  /\ \A p \in Procs : pc[p] # "idle" => Open(on[p]) /\ MayUse(on[p])

(* What the log is made of. *)
ShapeInv ==
  \A i \in DOMAIN log :
    \/ log[i] = Blank
    \/ \E t \in Nested : Marks(i, t)
    \/ \E w \in DOMAIN by : Holds(i, w)

(* An open Tx has its savepoint until its end, and a rollback has cut the  *)
(* log at it.                                                              *)
MarkInv ==
  session = "active" =>
    /\ \A t \in Nested : Open(t) =>
         (\E i \in DOMAIN log : Marks(i, t)) \/ \E p \in Procs : pc[p] = "close" /\ on[p] = t
    /\ \A p \in Procs : pc[p] = "release" => Marks(Len(log), on[p])

(* The savepoints lie in the order in which they are nested. *)
OrderInv ==
  \A t, u \in Nested : \A i, j \in DOMAIN log :
    Marks(i, t) /\ Marks(j, u) => (i <= j <=> t \in Chain(u))

(* A write depends on the savepoints before it, and on no other Tx but     *)
(* those that were committed.                                              *)
WriteInv ==
  \A i \in DOMAIN log : \A w \in DOMAIN by : Holds(i, w) =>
    /\ \A t \in Nested, j \in 1 .. i : Marks(j, t) => t \in Chain(by[w])
    /\ \A t \in Nested \cap Chain(by[w]) : Committed(t) \/ \E j \in 1 .. i : Marks(j, t)

(* What is durable depends on nothing but what was committed. *)
DurableInv ==
  /\ durable \subseteq DOMAIN by
  /\ durable # {} => session = "committed"
  /\ \A w \in durable : \A t \in Nested \cap Chain(by[w]) : Committed(t)
  /\ ended[Root] = "rolledBack" => session = "rolledBack"
  /\ \A p \in Procs : pc[p] = "close" /\ on[p] = Root /\ op[p] # "Commit"
                        => session = "rolledBack"

TreeInv ==
  BegunInv /\ OpenInv /\ ShapeInv /\ MarkInv /\ OrderInv /\ WriteInv /\ DurableInv

-----------------------------------------------------------------------------
(* Ancestry.  B stands for the transactions that have begun.               *)

LEMMA AncestryIs ==
  ASSUME NEW par, NEW B \in SUBSET Txs, \A v \in B \ {Root} : par[v] \in B, NEW t \in B
  PROVE  /\ Ancestry(par, t) \subseteq B
         /\ t \in Ancestry(par, t)
         /\ \A v \in Ancestry(par, t) \ {Root} : par[v] \in Ancestry(par, t)
         /\ \A S \in SUBSET Txs :
              t \in S /\ (\A v \in S \ {Root} : par[v] \in S) => Ancestry(par, t) \subseteq S
BY DEF Ancestry

LEMMA AncestryOfChild ==
  ASSUME NEW par, NEW B \in SUBSET Txs, \A v \in B \ {Root} : par[v] \in B,
         NEW t \in B, t # Root
  PROVE  Ancestry(par, t) = {t} \cup Ancestry(par, par[t])
<1> DEFINE S == {t} \cup Ancestry(par, par[t])
<1>1. par[t] \in B
  OBVIOUS
<1>2. /\ Ancestry(par, par[t]) \subseteq B
      /\ par[t] \in Ancestry(par, par[t])
      /\ \A v \in Ancestry(par, par[t]) \ {Root} : par[v] \in Ancestry(par, par[t])
  <2> DEFINE q == par[t]
  <2>1. q \in B
    BY <1>1
  <2> HIDE DEF q
  <2>2. /\ Ancestry(par, q) \subseteq B /\ q \in Ancestry(par, q)
        /\ \A v \in Ancestry(par, q) \ {Root} : par[v] \in Ancestry(par, q)
    BY <2>1, AncestryIs
  <2> QED BY <2>2 DEF q
<1>3. S \in SUBSET Txs /\ t \in S /\ \A v \in S \ {Root} : par[v] \in S
  BY <1>2
<1>4. Ancestry(par, t) \subseteq S
  <2> HIDE DEF S
  <2> QED BY <1>3, AncestryIs
<1>5. t \in Ancestry(par, t) /\ par[t] \in Ancestry(par, t) /\ Ancestry(par, t) \in SUBSET Txs
  BY AncestryIs
<1>6. \A v \in Ancestry(par, t) \ {Root} : par[v] \in Ancestry(par, t)
  BY AncestryIs
<1>7. Ancestry(par, par[t]) \subseteq Ancestry(par, t)
  BY <1>1, <1>5, <1>6, AncestryIs
<1> QED BY <1>4, <1>5, <1>7

LEMMA AncestrySame ==
  ASSUME NEW par, NEW new, NEW B \in SUBSET Txs, \A v \in B \ {Root} : par[v] \in B,
         \A v \in B : new[v] = par[v], NEW t \in B
  PROVE  Ancestry(new, t) = Ancestry(par, t)
<1>1. \A v \in B \ {Root} : new[v] \in B
  OBVIOUS
<1>2. /\ Ancestry(par, t) \subseteq B /\ t \in Ancestry(par, t)
      /\ \A v \in Ancestry(par, t) \ {Root} : par[v] \in Ancestry(par, t)
  BY AncestryIs
<1>3. /\ Ancestry(new, t) \subseteq B /\ t \in Ancestry(new, t)
      /\ \A v \in Ancestry(new, t) \ {Root} : new[v] \in Ancestry(new, t)
  BY <1>1, AncestryIs
<1>4. Ancestry(new, t) \subseteq Ancestry(par, t)
  <2>1. \A v \in Ancestry(par, t) \ {Root} : new[v] \in Ancestry(par, t)
    BY <1>2
  <2>2. Ancestry(par, t) \in SUBSET Txs
    BY <1>2
  <2> QED BY <1>1, <1>2, <2>1, <2>2, AncestryIs
<1>5. Ancestry(par, t) \subseteq Ancestry(new, t)
  <2>1. \A v \in Ancestry(new, t) \ {Root} : par[v] \in Ancestry(new, t)
    BY <1>3
  <2>2. Ancestry(new, t) \in SUBSET Txs
    BY <1>3
  <2> QED BY <1>3, <2>1, <2>2, AncestryIs
<1> QED BY <1>4, <1>5

AllBegun == {t \in Txs : Begun(t)}

LEMMA BegunIsClosed ==
  ASSUME BegunInv
  PROVE  AllBegun \in SUBSET Txs /\ \A v \in AllBegun \ {Root} : parent[v] \in AllBegun
BY DEF BegunInv, AllBegun, Nested

LEMMA ChainIs ==
  ASSUME BegunInv, NEW t \in Txs, Begun(t)
  PROVE  /\ Chain(t) \subseteq AllBegun /\ t \in Chain(t)
         /\ \A v \in Chain(t) \ {Root} : parent[v] \in Chain(t)
         /\ \A S \in SUBSET Txs :
              t \in S /\ (\A v \in S \ {Root} : parent[v] \in S) => Chain(t) \subseteq S
         /\ t # Root => Chain(t) = {t} \cup Chain(parent[t])
<1>1. t \in AllBegun
  BY DEF AllBegun
<1> QED BY <1>1, BegunIsClosed, AncestryIs, AncestryOfChild DEF Chain

(* What has begun keeps its parent. *)
ParentsKept == \A t \in Txs : Begun(t) => Begun(t)' /\ Chain(t)' = Chain(t)

LEMMA ChainStays ==
  ASSUME BegunInv, TxAssumptions, \A t \in Txs : Begun(t) => parent'[t] = parent[t]
  PROVE  ParentsKept
<1>1. \A t \in AllBegun : parent'[t] = parent[t]
  BY DEF AllBegun
<1>2. ASSUME NEW t \in AllBegun PROVE Chain(t)' = Chain(t)
  BY <1>1, BegunIsClosed, AncestrySame DEF Chain
<1> QED BY <1>1, <1>2 DEF ParentsKept, AllBegun, Begun

LEMMA BegunStep ==
  ASSUME TypeOK, UseInv, BegunInv, [Next]_vars
  PROVE  BegunInv' /\ ParentsKept
<1> USE TxAssumptions
<1>1. ASSUME UNCHANGED parent, by' = by \/ \E t \in Txs : Begun(t) /\ by' = Append(by, t)
      PROVE  BegunInv' /\ ParentsKept
  <2>1. ParentsKept
    BY <1>1, ChainStays
  <2>2. \A w \in DOMAIN by' : Begun(by'[w])
    <3>1. by \in Seq(Txs) /\ \A w \in DOMAIN by : Begun(by[w])
      BY DEF BegunInv, TypeOK
    <3>2. ASSUME NEW t \in Txs, Begun(t), by' = Append(by, t)
          PROVE  \A w \in DOMAIN by' : Begun(by'[w])
      <4>1. \A w \in DOMAIN by' : by'[w] = t \/ (w \in DOMAIN by /\ by'[w] = by[w])
        BY <3>1, <3>2
      <4> QED BY <3>1, <3>2, <4>1
    <3> QED BY <1>1, <3>1, <3>2
  <2> QED BY <1>1, <2>1, <2>2 DEF BegunInv, ParentsKept, Begun, Chain
<1>2. ASSUME NEW p \in Procs, BeginStmt(p) PROVE BegunInv' /\ ParentsKept
  <2>1. PICK u \in Nested : ~Begun(u) /\ parent' = [parent EXCEPT ![u] = on[p]]
    BY <1>2 DEF BeginStmt
  <2>2. on[p] \in Txs /\ Begun(on[p]) /\ by' = by /\ on' = on
    BY <1>2 DEF BeginStmt, Sends, UseInv
  <2>3. u \in Txs /\ u # Root /\ \A t \in Txs : parent'[t] = IF t = u THEN on[p] ELSE parent[t]
    BY <2>1 DEF TypeOK, Nested
  <2>4. ParentsKept
    BY <2>1, <2>3, ChainStays
  <2>5. \A t \in Txs : Begun(t)' <=> t = u \/ Begun(t)
    BY <2>1, <2>2, <2>3 DEF Begun
  <2>6. \A t \in Nested : Begun(t)' => parent'[t] \in Txs /\ Begun(parent[t])'
    BY <2>2, <2>3, <2>5 DEF BegunInv, Nested, Begun
  <2> DEFINE B == {t \in Txs : Begun(t)'}
  <2>7. B \in SUBSET Txs /\ u \in B /\ \A v \in B \ {Root} : parent'[v] \in B
    BY <2>3, <2>5, <2>6 DEF Nested, Begun
  <2>8. Chain(u)' = {u} \cup Chain(on[p])'
    <3> HIDE DEF B
    <3>1. Ancestry(parent', u) = {u} \cup Ancestry(parent', parent'[u])
      BY <2>3, <2>7, AncestryOfChild
    <3> QED BY <2>2, <2>3, <2>4, <3>1 DEF Chain, ParentsKept
  <2>9. \A t \in Txs : Begun(t)' => Root \in Chain(t)'
    <3>1. \A t \in Txs : Begun(t) => Root \in Chain(t)'
      BY <2>4 DEF ParentsKept, BegunInv
    <3>2. Root \in Chain(on[p])'
      BY <2>2, <2>4 DEF ParentsKept, BegunInv
    <3> QED BY <2>5, <2>8, <3>1, <3>2
  <2>10. Begun(Root)' /\ \A w \in DOMAIN by' : Begun(by[w])'
    <3>1. Begun(Root) /\ Root \in Txs /\ \A w \in DOMAIN by : by[w] \in Txs /\ Begun(by[w])
      BY DEF BegunInv, TypeOK
    <3>2. \A t \in Txs : Begun(t) => Begun(t)'
      BY <2>4 DEF ParentsKept
    <3> QED BY <2>2, <3>1, <3>2 DEF Begun
  <2> QED BY <2>4, <2>6, <2>9, <2>10 DEF BegunInv
<1>3. ASSUME NEW p \in Procs, ExecStmt(p) PROVE BegunInv' /\ ParentsKept
  BY <1>1, <1>3 DEF ExecStmt, Sends, UseInv
<1>4. ASSUME NEW p \in Procs,
             \/ Call(p) \/ CommitStmt(p) \/ RollbackStmt(p) \/ ReleaseStmt(p) \/ StmtFails(p)
             \/ EndRoot(p) \/ EndRootTwice(p) \/ Close(p)
      PROVE  BegunInv' /\ ParentsKept
  BY <1>1, <1>4
     DEF Call, CommitStmt, RollbackStmt, ReleaseStmt, StmtFails, EndRoot, EndRootTwice, Close
<1>5. ASSUME Cancel \/ UNCHANGED vars PROVE BegunInv' /\ ParentsKept
  BY <1>1, <1>5 DEF Cancel, vars
<1> QED BY <1>2, <1>3, <1>4, <1>5 DEF Next, Stmt

-----------------------------------------------------------------------------
(* The path of open transactions. *)

LEMMA OpenStep ==
  ASSUME TypeOK, EndInv, InsideOut, BegunInv, OpenInv, [Next]_vars
  PROVE  OpenInv'
<1> USE TxAssumptions
<1>single. InnermostOnly /\ \A p, q \in Procs : p = q
  BY DEF InsideOut
<1>begun. \A t \in Txs : closed[t] => Begun(t)
  BY DEF EndInv, FlagInv, PastEnd
<1>path. \A t \in Nested : Open(t) => parent[t] \in Txs /\ Open(parent[t])
  BY DEF OpenInv, BegunInv, Open
<1>1. ASSUME UNCHANGED <<closed, parent>>,
             \A p \in Procs : pc'[p] # "idle" => pc[p] # "idle" /\ on'[p] = on[p]
      PROVE  OpenInv'
  BY <1>1 DEF OpenInv, MayUse, Open, Begun
<1>2. ASSUME NEW p \in Procs, Call(p) PROVE OpenInv'
  <2>1. PICK t \in Txs : Open(t) /\ MayUse(t) /\ on' = [on EXCEPT ![p] = t]
    BY <1>2 DEF Call
  <2>2. UNCHANGED <<closed, parent>> /\ \A q \in Procs : q = p
    BY <1>2, <1>single DEF Call
  <2>3. on'[p] = t
    BY <2>1 DEF TypeOK
  <2> QED BY <2>1, <2>2, <2>3 DEF OpenInv, MayUse, Open, Begun
<1>3. ASSUME NEW p \in Procs, BeginStmt(p) PROVE OpenInv'
  <2>1. PICK u \in Nested : ~Begun(u) /\ parent' = [parent EXCEPT ![u] = on[p]]
    BY <1>3 DEF BeginStmt
  <2>2. on[p] \in Txs /\ Open(on[p]) /\ closed' = closed
    BY <1>3 DEF BeginStmt, Sends, EndInv, UseInv, OpenInv
  <2>3. \A t \in Txs : parent'[t] = IF t = u THEN on[p] ELSE parent[t]
    BY <2>1 DEF TypeOK
  <2>4. \A t \in Txs : Open(t)' <=> t = u \/ Open(t)
    BY <2>1, <2>2, <2>3, <1>begun DEF Open, Begun, Nested
  <2>5. \A q \in Procs : q = p /\ pc'[q] = "idle"
    BY <1>3, <1>single DEF BeginStmt, Return, Step, TypeOK
  <2>6. ASSUME NEW t \in Nested, Open(t)' PROVE Open(parent[t])'
    <3>1. t \in Txs /\ parent'[t] \in Txs /\ Open(parent'[t])
      BY <2>2, <2>3, <2>4, <2>6, <1>path DEF Nested
    <3> QED BY <2>4, <3>1 DEF Open, Begun
  <2> QED BY <2>5, <2>6 DEF OpenInv
<1>4. ASSUME NEW p \in Procs, Close(p) PROVE OpenInv'
  <2>1. on[p] \in Txs /\ MayUse(on[p]) /\ parent' = parent
    BY <1>4 DEF Close, EndInv, UseInv, OpenInv
  <2>2. \A t \in Txs : Open(t)' <=> t # on[p] /\ Open(t)
    BY <1>4, <2>1 DEF Close, TypeOK, Open, Begun
  <2>3. \A q \in Procs : q = p /\ pc'[q] = "idle"
    BY <1>4, <1>single DEF Close, Return, Step, TypeOK
  <2>4. ASSUME NEW t \in Nested, Open(t)' PROVE Open(parent[t])'
    <3>1. t # on[p] /\ Open(t) /\ parent[t] \in Txs /\ Open(parent[t])
      BY <2>2, <2>4, <1>path DEF Nested
    <3>2. parent[t] # on[p]
      BY <2>1, <3>1, <1>single DEF MayUse
    <3>3. parent'[t] = parent[t]
      BY <2>1
    <3> QED BY <2>2, <3>1, <3>2, <3>3 DEF Open, Begun
  <2> QED BY <2>3, <2>4 DEF OpenInv
<1>5. ASSUME NEW p \in Procs,
             \/ ExecStmt(p) \/ CommitStmt(p) \/ RollbackStmt(p) \/ ReleaseStmt(p)
             \/ StmtFails(p) \/ EndRoot(p) \/ EndRootTwice(p)
      PROVE  OpenInv'
  <2>1. UNCHANGED <<closed, parent, on>> /\ pc[p] # "idle" /\ \A q \in Procs : q = p
    BY <1>5, <1>single
       DEF ExecStmt, CommitStmt, RollbackStmt, ReleaseStmt, StmtFails, EndRoot, EndRootTwice, Sends
  <2> QED BY <1>1, <2>1
<1>6. ASSUME Cancel \/ UNCHANGED vars PROVE OpenInv'
  BY <1>1, <1>6 DEF Cancel, vars, procVars
<1> QED BY <1>2, <1>3, <1>4, <1>5, <1>6 DEF Next, Stmt

(* What an open transaction was begun in is open. *)
LEMMA ChainIsOpen ==
  ASSUME BegunInv, OpenInv, NEW t \in Txs, Open(t)
  PROVE  \A u \in Chain(t) : u \in Txs /\ Open(u)
<1> DEFINE S == {u \in Txs : Open(u)}
<1>1. S \in SUBSET Txs /\ t \in S /\ \A v \in S \ {Root} : parent[v] \in S
  BY DEF OpenInv, BegunInv, Open, Nested
<1>2. Begun(t)
  BY DEF Open
<1>3. Chain(t) \subseteq S
  <2> HIDE DEF S
  <2> QED BY <1>1, <1>2, ChainIs
<1> QED BY <1>3

(* No other open transaction was begun in the one that is used. *)
LEMMA InnermostIsLast ==
  ASSUME BegunInv, OpenInv, InsideOut,
         NEW t \in Txs, MayUse(t), NEW x \in Txs, Open(x), t \in Chain(x)
  PROVE  x = t
<1> SUFFICES ASSUME x # t PROVE FALSE
  OBVIOUS
<1> DEFINE S == Chain(x) \ {t}
<1>1. Begun(x)
  BY DEF Open
<1>2. /\ x \in Chain(x) /\ Chain(x) \in SUBSET Txs
      /\ \A v \in Chain(x) \ {Root} : parent[v] \in Chain(x)
      /\ \A T \in SUBSET Txs :
           x \in T /\ (\A v \in T \ {Root} : parent[v] \in T) => Chain(x) \subseteq T
  BY <1>1, ChainIs DEF AllBegun
<1>3. PICK v \in S \ {Root} : parent[v] \notin S
  <2>1. S \in SUBSET Txs /\ x \in S /\ ~(Chain(x) \subseteq S)
    BY <1>2
  <2> QED BY <1>2, <2>1
<1>4. parent[v] = t /\ v \in Nested /\ v # t
  BY <1>2, <1>3 DEF Nested
<1>5. Open(v)
  BY <1>3, ChainIsOpen
<1> QED BY <1>4, <1>5 DEF MayUse, InsideOut

-----------------------------------------------------------------------------
(* The savepoints in the log. *)

LEMMA MarkIs ==
  ASSUME TypeOK, EndInv, NEW t \in Nested, NEW i, Marks(i, t)
  PROVE  /\ t \in Txs /\ Open(t) /\ Live(t) /\ At(t) = i /\ i \in Nat
         /\ \A j : Marks(j, t) => j = i
<1>1. Live(t) /\ t \in Txs /\ i \in DOMAIN log
  BY DEF Marks, Live, Nested
<1>2. Begun(t) /\ ~closed[t]
  BY <1>1 DEF EndInv, SavepointInv, FlagInv, PastEnd, Nested
<1>3. \A j : Marks(j, t) => j = i
  BY DEF EndInv, SavepointInv, Marks
<1>4. At(t) = i
  BY <1>1, <1>3, PlaceOfSavepoint DEF Marks
<1>5. i \in Nat
  BY <1>1 DEF TypeOK
<1> QED BY <1>1, <1>2, <1>3, <1>4, <1>5 DEF Open

(* The Tx that is used has the last savepoint of the log; when it is the   *)
(* root, there is none.                                                    *)
LEMMA LastMark ==
  ASSUME TypeOK, EndInv, InsideOut, BegunInv, OpenInv, OrderInv,
         NEW p \in Procs, pc[p] # "idle", NEW x \in Nested, NEW j, Marks(j, x)
  PROVE  /\ on[p] # Root
         /\ \A i : on[p] \in Nested /\ Marks(i, on[p]) => j <= i /\ (j = i <=> x = on[p])
<1>1. on[p] \in Txs /\ MayUse(on[p])
  BY DEF EndInv, UseInv, OpenInv
<1>2. x \in Txs /\ Open(x) /\ Begun(x) /\ x # Root /\ j \in Nat
  BY MarkIs DEF Open, Nested
<1>3. on[p] # Root
  BY <1>1, <1>2, InnermostIsLast DEF BegunInv
<1>4. ASSUME NEW i, on[p] \in Nested, Marks(i, on[p])
      PROVE  j <= i /\ (j = i <=> x = on[p])
  <2>1. i \in DOMAIN log /\ j \in DOMAIN log /\ i \in Nat
    BY <1>4, MarkIs DEF Marks
  <2>2. i <= j <=> on[p] \in Chain(x)
    BY <1>4, <2>1 DEF OrderInv
  <2>3. i <= j => x = on[p]
    BY <1>1, <1>2, <2>2, InnermostIsLast
  <2>4. x = on[p] => j = i
    BY <1>4, MarkIs
  <2> QED BY <1>2, <2>1, <2>3, <2>4
<1> QED BY <1>3, <1>4

-----------------------------------------------------------------------------
(* The log, step by step. *)

CommitsLast == \A t \in Txs : Committed(t) => Committed(t)'

LEMMA CommitsLastStep ==
  ASSUME TypeOK, EndInv, InsideOut, [Next]_vars
  PROVE  CommitsLast
<1> SUFFICES ASSUME NEW t \in Txs, Committed(t) PROVE Committed(t)'
  BY DEF CommitsLast
<1>single. \A p, q \in Procs : p = q
  BY DEF InsideOut
<1>1. ASSUME NEW p \in Procs, Close(p) PROVE Committed(t)'
  <2>1. on[p] \in Txs /\ \A q \in Procs : q = p
    BY <1>1, <1>single DEF Close, EndInv, UseInv
  <2>2. CASE pc[p] = "close"
    <3>1. ended' = [ended EXCEPT ![on[p]] = Outcome(op[p])] /\ ended[on[p]] = None
      BY <1>1, <2>2 DEF Close, EndInv, EnderInv
    <3>2. ended[t] = "committed" => t # on[p] \/ op[p] = "Commit"
      BY <3>1, TxAssumptions DEF EndInv, FlagInv, TypeOK, Committed
    <3>3. ended'[t] = IF t = on[p] THEN Outcome(op[p]) ELSE ended[t]
      BY <2>1, <3>1 DEF TypeOK
    <3>4. CASE t = on[p] /\ op[p] = "Commit"
      BY <3>3, <3>4 DEF Outcome, Committed
    <3>5. CASE ended[t] = "committed" /\ t # on[p]
      BY <3>3, <3>5 DEF Committed
    <3> QED BY <2>1, <2>2, <3>2, <3>4, <3>5 DEF Committed
  <2>3. CASE pc[p] # "close"
    BY <1>1, <2>1, <2>3 DEF Close, Committed
  <2> QED BY <2>2, <2>3
<1>2. ASSUME NEW p \in Procs,
             \/ Call(p) \/ BeginStmt(p) \/ ExecStmt(p) \/ CommitStmt(p) \/ RollbackStmt(p)
             \/ ReleaseStmt(p) \/ StmtFails(p) \/ EndRoot(p) \/ EndRootTwice(p)
      PROVE  Committed(t)'
  <2>1. ended' = ended /\ \A q \in Procs : pc[q] # "close"
    BY <1>2, <1>single
       DEF Call, BeginStmt, ExecStmt, CommitStmt, RollbackStmt, ReleaseStmt, StmtFails, EndRoot,
           EndRootTwice, Sends
  <2> QED BY <2>1 DEF Committed
<1>3. ASSUME Cancel \/ UNCHANGED vars PROVE Committed(t)'
  BY <1>3 DEF Cancel, vars, procVars, Committed
<1> QED BY <1>1, <1>2, <1>3 DEF Next, Stmt

(* Nothing is added to the log. *)
LEMMA LessOfLog ==
  ASSUME TypeOK, EndInv, BegunInv, OrderInv, WriteInv, ParentsKept, CommitsLast, UNCHANGED by,
         \A i : \A t \in Nested : Marks(i, t)' => Marks(i, t),
         \A i : \A w \in DOMAIN by : Holds(i, w)' => Holds(i, w),
         \A i \in DOMAIN log : \A w \in DOMAIN by : \A j \in 1 .. i : \A t \in Nested \cap Txs :
           Holds(i, w)' /\ Marks(j, t) => Marks(j, t)' \/ Committed(t)'
  PROVE  OrderInv' /\ WriteInv'
<1>1. \A t \in Nested : t \in Txs
  BY DEF Nested
<1>2. \A w \in DOMAIN by : by[w] \in Txs /\ Chain(by[w])' = Chain(by[w])
  BY DEF ParentsKept, BegunInv, TypeOK, Chain
<1>3. OrderInv'
  <2> SUFFICES ASSUME NEW t \in Nested, NEW u \in Nested, NEW i, NEW j, Marks(i, t)', Marks(j, u)'
               PROVE  i <= j <=> t \in Chain(u)'
    BY DEF OrderInv, Chain, Marks, Save
  <2>1. Marks(i, t) /\ Marks(j, u)
    OBVIOUS
  <2>2. i <= j <=> t \in Chain(u)
    BY <2>1 DEF OrderInv, Marks
  <2>3. Begun(u)
    BY <2>1, MarkIs DEF Open
  <2> QED BY <1>1, <2>2, <2>3 DEF ParentsKept
<1>4. WriteInv'
  <2> SUFFICES ASSUME NEW i, NEW w \in DOMAIN by, Holds(i, w)'
               PROVE  /\ \A t \in Nested, j \in 1 .. i : Marks(j, t)' => t \in Chain(by[w])
                      /\ \A t \in Nested \cap Chain(by[w]) :
                           Committed(t)' \/ \E j \in 1 .. i : Marks(j, t)'
    BY <1>2 DEF WriteInv, Marks, Holds, Committed, Save, Wrote
  <2>1. Holds(i, w) /\ i \in DOMAIN log
    BY DEF Holds
  <2>2. /\ \A t \in Nested, j \in 1 .. i : Marks(j, t) => t \in Chain(by[w])
        /\ \A t \in Nested \cap Chain(by[w]) : Committed(t) \/ \E j \in 1 .. i : Marks(j, t)
    BY <2>1 DEF WriteInv
  <2> QED BY <1>1, <2>1, <2>2 DEF CommitsLast
<1> QED BY <1>3, <1>4

(* A savepoint is set at the end of the log. *)
LEMMA BeginOnLog ==
  ASSUME TypeOK, EndInv, InsideOut, BegunInv, OpenInv, ShapeInv, MarkInv, OrderInv, WriteInv,
         BegunInv', ParentsKept, CommitsLast, NEW p \in Procs, BeginStmt(p)
  PROVE  ShapeInv' /\ MarkInv' /\ OrderInv' /\ WriteInv'
<1>log. log \in Seq(LogEntry)
  BY DEF TypeOK, LogEntry
<1>0. /\ on[p] \in Txs /\ Open(on[p]) /\ Begun(on[p])
      /\ pc[p] = "stmt" /\ session = "active" /\ UNCHANGED <<on, closed, session, by>>
      /\ \A q \in Procs : q = p
  BY DEF BeginStmt, Sends, EndInv, UseInv, OpenInv, InsideOut
<1>1. PICK u \in Nested : /\ ~Begun(u)
                          /\ log' = Append(log, Save(u))
                          /\ parent' = [parent EXCEPT ![u] = on[p]]
  BY DEF BeginStmt
<1> DEFINE n == Len(log) + 1
<1>2. /\ u \in Txs /\ u # Root
      /\ \A t \in Txs : parent'[t] = IF t = u THEN on[p] ELSE parent[t]
  BY <1>1 DEF TypeOK, Nested
<1>3. /\ n \in Nat \ {0} /\ DOMAIN log = 1 .. n - 1 /\ DOMAIN log' = 1 .. n /\ Len(log') = n
      /\ \A i \in DOMAIN log : log'[i] = log[i]
      /\ log'[n] = Save(u)
  BY <1>log, <1>1
<1> HIDE DEF n
<1>4. \A t \in Nested : \A i : Marks(i, t)' <=> Marks(i, t) \/ (i = n /\ t = u)
  <2>1. n \notin DOMAIN log /\ \A i : i \in DOMAIN log' <=> i \in DOMAIN log \/ i = n
    BY <1>3
  <2>2. \A t \in Nested : Save(t) = Save(u) <=> t = u
    BY SavesApart
  <2> QED BY <1>3, <2>1, <2>2 DEF Marks
<1>5. \A w \in DOMAIN by : \A i : Holds(i, w)' <=> Holds(i, w)
  <2>1. \A w \in DOMAIN by : Wrote(w) # Save(u)
    BY SavesApart DEF TypeOK
  <2> QED BY <1>3, <2>1 DEF Holds
<1>6. ShapeInv'
  <2>1. \A i \in DOMAIN log' : i \in DOMAIN log \/ i = n
    BY <1>3
  <2> SUFFICES ASSUME NEW i \in DOMAIN log'
               PROVE  \/ log'[i] = Blank
                      \/ \E t \in Nested : Marks(i, t)'
                      \/ \E w \in DOMAIN by : Holds(i, w)'
    BY <1>0 DEF ShapeInv, Marks, Holds, Save, Wrote, Blank
  <2> QED BY <1>3, <1>4, <1>5, <2>1 DEF ShapeInv
<1>7. \A t \in Nested : Open(t)' => t = u \/ Open(t)
  BY <1>0, <1>2 DEF Open, Begun, Nested
<1>8. \A t \in Nested : Open(t) => \E i : Marks(i, t)
  BY <1>0 DEF MarkInv
<1>9. MarkInv'
  <2>1. pc'[p] = "idle"
    BY DEF BeginStmt, Return, Step, TypeOK
  <2>2. \A t \in Nested : Open(t)' => \E i \in DOMAIN log' : Marks(i, t)'
    BY <1>4, <1>7, <1>8 DEF Marks
  <2> QED BY <1>0, <2>1, <2>2 DEF MarkInv, Marks, Save
<1>10. Chain(u)' = {u} \cup Chain(on[p])
  <2>1. Begun(u)' /\ parent'[u] = on[p]
    BY <1>0, <1>2, TxAssumptions DEF Begun
  <2>2. Ancestry(parent', u) = {u} \cup Ancestry(parent', parent'[u])
    <3> DEFINE B == {t \in Txs : Begun(t)'}
    <3>1. B \in SUBSET Txs /\ u \in B /\ \A v \in B \ {Root} : parent'[v] \in B
      BY <1>2, <2>1 DEF BegunInv, Nested, Begun
    <3> HIDE DEF B
    <3> QED BY <1>2, <3>1, AncestryOfChild
  <2> QED BY <1>0, <2>1, <2>2 DEF ParentsKept, Chain
<1>11. \A t \in Nested : \A i : Marks(i, t) => t \in Chain(on[p])
  <2> SUFFICES ASSUME NEW t \in Nested, NEW i, Marks(i, t) PROVE t \in Chain(on[p])
    OBVIOUS
  <2>1. on[p] # Root
    BY <1>0, LastMark
  <2>2. PICK k : Marks(k, on[p])
    BY <1>0, <1>8, <2>1 DEF Nested
  <2>3. i <= k
    BY <1>0, <2>1, <2>2, LastMark DEF Nested
  <2> QED BY <1>0, <2>1, <2>2, <2>3 DEF OrderInv, Nested, Marks
<1>12. OrderInv'
  <2> SUFFICES ASSUME NEW t \in Nested, NEW x \in Nested, NEW i, NEW j, Marks(i, t)', Marks(j, x)'
               PROVE  i <= j <=> t \in Chain(x)'
    BY DEF OrderInv, Chain, Marks, Save
  <2>1. t \in Txs /\ x \in Txs
    BY DEF Nested
  <2>2. CASE Marks(i, t) /\ Marks(j, x)
    <3>1. Begun(x) /\ (i <= j <=> t \in Chain(x))
      BY <2>2, MarkIs DEF Open, OrderInv, Marks
    <3> QED BY <2>1, <3>1 DEF ParentsKept
  <2>3. CASE Marks(i, t) /\ j = n /\ x = u
    <3>1. i <= n
      BY <1>3, <2>3 DEF Marks
    <3> QED BY <1>10, <1>11, <2>3, <3>1
  <2>4. CASE i = n /\ t = u /\ Marks(j, x)
    <3>1. ~(i <= j)
      BY <1>3, <2>4 DEF Marks
    <3>2. Begun(x) /\ Chain(x) \subseteq AllBegun
      BY <2>1, <2>4, MarkIs, ChainIs DEF Open
    <3> QED BY <1>1, <2>1, <2>4, <3>1, <3>2 DEF ParentsKept, AllBegun
  <2>5. CASE i = n /\ t = u /\ j = n /\ x = u
    BY <1>3, <1>10, <2>5
  <2> QED BY <1>4, <2>2, <2>3, <2>4, <2>5
<1>13. WriteInv'
  <2>1. \A w \in DOMAIN by : by[w] \in Txs /\ Chain(by[w])' = Chain(by[w])
    BY <1>0 DEF ParentsKept, BegunInv, TypeOK, Chain
  <2> SUFFICES ASSUME NEW i, NEW w \in DOMAIN by, Holds(i, w)'
               PROVE  /\ \A t \in Nested, j \in 1 .. i : Marks(j, t)' => t \in Chain(by[w])
                      /\ \A t \in Nested \cap Chain(by[w]) :
                           Committed(t)' \/ \E j \in 1 .. i : Marks(j, t)'
    BY <1>0, <2>1 DEF WriteInv, Marks, Holds, Committed, Save, Wrote
  <2>2. Holds(i, w) /\ i \in DOMAIN log
    BY <1>5 DEF Holds
  <2>3. /\ \A t \in Nested, j \in 1 .. i : Marks(j, t) => t \in Chain(by[w])
        /\ \A t \in Nested \cap Chain(by[w]) : Committed(t) \/ \E j \in 1 .. i : Marks(j, t)
    BY <2>2 DEF WriteInv
  <2>4. \A j \in 1 .. i : j # n
    BY <1>3, <2>2
  <2> QED BY <1>4, <2>3, <2>4 DEF CommitsLast, Nested
<1> QED BY <1>6, <1>9, <1>12, <1>13

(* Every savepoint that is left belongs to what the Tx in use is part of.  *)
LEMMA MarksAreAbove ==
  ASSUME TypeOK, EndInv, InsideOut, BegunInv, OpenInv, MarkInv, OrderInv,
         NEW p \in Procs, pc[p] = "stmt", session = "active"
  PROVE  /\ \A t \in Nested : \A i : Marks(i, t) => t \in Chain(on[p])
         /\ \A t \in Nested \cap Chain(on[p]) : \E i : Marks(i, t)
<1>0. on[p] \in Txs /\ Open(on[p]) /\ \A q \in Procs : q = p
  BY DEF EndInv, UseInv, OpenInv, InsideOut
<1>1. \A t \in Nested : Open(t) => \E i : Marks(i, t)
  BY <1>0 DEF MarkInv
<1>2. ASSUME NEW t \in Nested, NEW i, Marks(i, t) PROVE t \in Chain(on[p])
  <2>1. on[p] # Root
    BY <1>2, LastMark
  <2>2. PICK k : Marks(k, on[p])
    BY <1>0, <1>1, <2>1 DEF Nested
  <2>3. i <= k
    BY <1>0, <1>2, <2>1, <2>2, LastMark DEF Nested
  <2> QED BY <1>0, <1>2, <2>1, <2>2, <2>3 DEF OrderInv, Nested, Marks
<1>3. \A t \in Nested \cap Chain(on[p]) : Open(t)
  BY <1>0, ChainIsOpen
<1> QED BY <1>1, <1>2, <1>3

(* A write is added at the end of the log. *)
LEMMA ExecOnLog ==
  ASSUME TypeOK, EndInv, InsideOut, BegunInv, OpenInv, ShapeInv, MarkInv, OrderInv, WriteInv,
         ParentsKept, CommitsLast, NEW p \in Procs, ExecStmt(p)
  PROVE  ShapeInv' /\ MarkInv' /\ OrderInv' /\ WriteInv'
<1>log. log \in Seq(LogEntry) /\ by \in Seq(Txs)
  BY DEF TypeOK, LogEntry
<1>0. /\ on[p] \in Txs /\ Begun(on[p])
      /\ pc[p] = "stmt" /\ session = "active" /\ UNCHANGED <<on, closed, session, parent>>
      /\ \A q \in Procs : q = p
  BY DEF ExecStmt, Sends, EndInv, UseInv, OpenInv, InsideOut, Open
<1> DEFINE n == Len(log) + 1
           m == Len(by) + 1
<1>1. /\ n \in Nat \ {0} /\ DOMAIN log = 1 .. n - 1 /\ DOMAIN log' = 1 .. n
      /\ \A i \in DOMAIN log : log'[i] = log[i]
      /\ log'[n] = Wrote(m)
  BY <1>log DEF ExecStmt
<1>2. /\ m \in Nat \ {0} /\ DOMAIN by = 1 .. m - 1 /\ DOMAIN by' = 1 .. m
      /\ \A w \in DOMAIN by : by'[w] = by[w]
      /\ by'[m] = on[p]
  BY <1>log DEF ExecStmt
<1> HIDE DEF n, m
<1>3. n \notin DOMAIN log /\ \A i : i \in DOMAIN log' <=> i \in DOMAIN log \/ i = n
  BY <1>1
<1>4. \A t \in Nested : \A i : Marks(i, t)' <=> Marks(i, t)
  BY <1>1, <1>2, <1>3, SavesApart DEF Marks
<1>5. \A w \in DOMAIN by' : \A i : Holds(i, w)' <=> Holds(i, w) \/ (i = n /\ w = m)
  <2>1. \A w \in DOMAIN by' : Wrote(w) = Wrote(m) <=> w = m
    BY DEF Wrote
  <2> QED BY <1>1, <1>3, <2>1 DEF Holds
<1>6. \A w \in DOMAIN by' : \A i : Holds(i, w) => w \in DOMAIN by
  <2> SUFFICES ASSUME NEW w \in DOMAIN by', NEW i, Holds(i, w) PROVE w \in DOMAIN by
    OBVIOUS
  <2>1. i \in DOMAIN log /\ log[i] = Wrote(w) /\ w \in Nat
    BY <1>2 DEF Holds
  <2>2. log[i] # Blank /\ \A t \in Nested : ~Marks(i, t)
    BY <1>2, <2>1, SavesApart DEF Marks, Wrote, Blank
  <2>3. \A v : Wrote(v) = Wrote(w) => v = w
    BY DEF Wrote
  <2> QED BY <2>1, <2>2, <2>3 DEF ShapeInv, Holds
<1>7. ShapeInv'
  <2> SUFFICES ASSUME NEW i \in DOMAIN log'
               PROVE  \/ log'[i] = Blank
                      \/ \E t \in Nested : Marks(i, t)'
                      \/ \E w \in DOMAIN by' : Holds(i, w)'
    BY DEF ShapeInv, Marks, Holds, Save, Wrote, Blank
  <2>1. m \in DOMAIN by' /\ \A w \in DOMAIN by : w \in DOMAIN by'
    BY <1>2
  <2> QED BY <1>1, <1>3, <1>4, <1>5, <2>1 DEF ShapeInv
<1>8. MarkInv'
  <2>1. pc'[p] = "idle" /\ \A q \in Procs : pc[q] = "stmt"
    BY <1>0 DEF ExecStmt, Return, Step, TypeOK
  <2>2. \A t \in Nested : Open(t)' => \E i : Marks(i, t)
    BY <1>0, <2>1 DEF MarkInv, Open, Begun
  <2>3. \A t \in Nested : Open(t)' => \E i \in DOMAIN log' : Marks(i, t)'
    BY <1>3, <1>4, <2>2 DEF Marks
  <2> QED BY <1>0, <2>1, <2>3 DEF MarkInv, Marks, Save
<1>9. OrderInv'
  <2> SUFFICES ASSUME NEW t \in Nested, NEW x \in Nested, NEW i, NEW j, Marks(i, t)', Marks(j, x)'
               PROVE  i <= j <=> t \in Chain(x)'
    BY DEF OrderInv, Chain, Marks, Save
  <2>1. Marks(i, t) /\ Marks(j, x)
    BY <1>4
  <2>2. Begun(x) /\ x \in Txs /\ (i <= j <=> t \in Chain(x))
    BY <2>1, MarkIs DEF Open, OrderInv, Marks
  <2> QED BY <2>2 DEF ParentsKept
<1>10. \A w \in DOMAIN by : by'[w] = by[w] /\ by[w] \in Txs /\ Chain(by[w])' = Chain(by[w])
  <2>1. \A w \in DOMAIN by : by[w] \in Txs /\ Begun(by[w])
    BY <1>log DEF BegunInv
  <2> QED BY <1>0, <1>2, <2>1 DEF Chain
<1>11. WriteInv'
  <2> SUFFICES ASSUME NEW i, NEW w \in DOMAIN by', Holds(i, w)'
               PROVE  /\ \A t \in Nested, j \in 1 .. i : Marks(j, t)' => t \in Chain(by[w])'
                      /\ \A t \in Nested \cap Chain(by[w])' :
                           Committed(t)' \/ \E j \in 1 .. i : Marks(j, t)'
    BY DEF WriteInv, Marks, Holds, Committed, Save, Wrote
  <2>1. CASE Holds(i, w)
    <3>1. w \in DOMAIN by /\ i \in DOMAIN log
      BY <1>6, <2>1 DEF Holds
    <3>2. /\ \A t \in Nested, j \in 1 .. i : Marks(j, t) => t \in Chain(by[w])
          /\ \A t \in Nested \cap Chain(by[w]) : Committed(t) \/ \E j \in 1 .. i : Marks(j, t)
      BY <2>1, <3>1 DEF WriteInv
    <3>3. Chain(by[w])' = Chain(by[w])
      BY <1>0, <1>2, <3>1 DEF Chain
    <3> QED BY <1>4, <3>2, <3>3 DEF CommitsLast, Nested
  <2>2. CASE i = n /\ w = m
    <3>1. Chain(by[w])' = Chain(on[p])
      BY <1>0, <1>2, <2>2 DEF Chain
    <3>2. \A t \in Nested : \A j : Marks(j, t) => j \in 1 .. i
      BY <1>1, <2>2 DEF Marks
    <3> QED BY <1>0, <1>4, <3>1, <3>2, MarksAreAbove
  <2> QED BY <1>5, <2>1, <2>2
<1> QED BY <1>7, <1>8, <1>9, <1>11

(* What a release does, when the savepoint is the last one. *)
LEMMA ReleasedLast ==
  ASSUME TypeOK, EndInv, InsideOut, BegunInv, OpenInv, ShapeInv, OrderInv,
         NEW p \in Procs, pc[p] # "idle", on[p] \in Nested, Live(on[p])
  PROVE  /\ Marks(At(on[p]), on[p])
         /\ DOMAIN Released(on[p]) = DOMAIN log
         /\ \A i \in DOMAIN log :
              Released(on[p])[i] = IF i = At(on[p]) THEN Blank ELSE log[i]
<1> DEFINE k == At(on[p])
<1>1. Marks(k, on[p])
  BY PlaceOfSavepoint DEF Marks
<1>2. /\ DOMAIN Released(on[p]) = DOMAIN log
      /\ \A i \in DOMAIN log :
           Released(on[p])[i] = IF i >= k /\ log[i].sp # None THEN Blank ELSE log[i]
  BY ReleasedLog
<1> HIDE DEF k
<1>3. ASSUME NEW i \in DOMAIN log, i >= k, log[i].sp # None PROVE i = k
  <2>1. PICK x \in Nested : Marks(i, x)
    BY <1>3 DEF ShapeInv, Blank, Holds, Wrote
  <2>2. i <= k
    BY <1>1, <2>1, LastMark
  <2>3. i \in Nat /\ k \in Nat
    BY <1>1, <2>1, MarkIs
  <2> QED BY <1>3, <2>2, <2>3
<1>4. k \in DOMAIN log /\ k >= k /\ log[k].sp # None
  BY <1>1, MarkIs, TxAssumptions DEF Marks, Save, Nested
<1> QED BY <1>1, <1>2, <1>3, <1>4 DEF k

(* The last savepoint is forgotten; after a rollback nothing follows it.   *)
LEMMA ReleaseOnLog ==
  ASSUME TypeOK, EndInv, InsideOut, BegunInv, OpenInv, ShapeInv, MarkInv, OrderInv, WriteInv,
         ParentsKept, CommitsLast, NEW p \in Procs, on[p] \in Nested,
         CommitStmt(p) \/ ReleaseStmt(p)
  PROVE  ShapeInv' /\ MarkInv' /\ OrderInv' /\ WriteInv'
<1>0. /\ on[p] \in Txs /\ pc[p] \in {"stmt", "release"} /\ session = "active" /\ Live(on[p])
      /\ log' = Released(on[p]) /\ UNCHANGED <<on, op, closed, session, by, parent>>
      /\ pc'[p] = "close" /\ \A q \in Procs : q = p
  BY DEF CommitStmt, ReleaseStmt, Sends, EndInv, UseInv, InsideOut, Step, TypeOK
<1> DEFINE k == At(on[p])
<1>1. /\ Marks(k, on[p]) /\ DOMAIN log' = DOMAIN log
      /\ \A i \in DOMAIN log : log'[i] = IF i = k THEN Blank ELSE log[i]
  BY <1>0, ReleasedLast
<1> HIDE DEF k
<1>2. \A t \in Nested : \A i : Marks(i, t)' <=> Marks(i, t) /\ t # on[p]
  <2>1. \A t \in Nested : \A i : Marks(i, t)' <=> Marks(i, t) /\ i # k
    BY <1>1, SavesApart DEF Marks
  <2>2. \A t \in Nested : \A i : Marks(i, t) => (i = k <=> t = on[p])
    BY <1>0, <1>1, LastMark
  <2> QED BY <2>1, <2>2
<1>3. \A w \in DOMAIN by : \A i : Holds(i, w)' <=> Holds(i, w)
  <2>1. \A w \in DOMAIN by : Wrote(w) # Save(on[p]) /\ Wrote(w) # Blank
    <3>1. \A w \in DOMAIN by : w \in Nat /\ w # 0
      BY DEF TypeOK
    <3>2. \A w \in DOMAIN by : Wrote(w) # Blank
      BY <3>1 DEF Wrote, Blank
    <3> QED BY <3>1, <3>2, SavesApart
  <2> QED BY <1>1, <2>1 DEF Holds, Marks
<1>4. ShapeInv'
  <2> SUFFICES ASSUME NEW i \in DOMAIN log
               PROVE  \/ log'[i] = Blank
                      \/ \E t \in Nested : Marks(i, t)'
                      \/ \E w \in DOMAIN by : Holds(i, w)'
    BY <1>0, <1>1 DEF ShapeInv, Marks, Holds, Save, Wrote, Blank
  <2>1. CASE i = k
    BY <1>1, <2>1
  <2>2. CASE i # k /\ \E t \in Nested : Marks(i, t)
    <3>1. PICK t \in Nested : Marks(i, t)
      BY <2>2
    <3>2. t # on[p]
      BY <1>0, <1>1, <2>2, <3>1, LastMark
    <3> QED BY <1>2, <3>1, <3>2
  <2> QED BY <1>1, <1>3, <2>1, <2>2 DEF ShapeInv
<1>5. MarkInv'
  <2>1. \A t \in Nested : Open(t)' => t = on[p] \/ \E i : Marks(i, t)
    BY <1>0 DEF MarkInv, Open, Begun
  <2>2. \A t \in Nested : Open(t)' => t = on[p] \/ \E i \in DOMAIN log' : Marks(i, t)'
    BY <1>1, <1>2, <2>1 DEF Marks
  <2> QED BY <1>0, <2>2 DEF MarkInv, Marks, Save
<1>6. ASSUME NEW i \in DOMAIN log, NEW w \in DOMAIN by, NEW j \in 1 .. i, NEW t \in Nested \cap Txs,
             Holds(i, w)', Marks(j, t)
      PROVE  Marks(j, t)' \/ Committed(t)'
  <2> SUFFICES ASSUME t = on[p] PROVE Committed(t)'
    BY <1>2, <1>6
  <2>1. CASE CommitStmt(p)
    BY <1>0, <2>1 DEF CommitStmt, Sends, Committed
  <2>2. CASE ReleaseStmt(p)
    <3>1. Marks(Len(log), t)
      BY <1>0, <2>2 DEF ReleaseStmt, MarkInv
    <3>2. j = Len(log)
      BY <1>6, <3>1, MarkIs
    <3>3. i = Len(log)
      BY <3>2 DEF TypeOK
    <3>4. Holds(i, w) /\ Marks(i, t)
      BY <1>3, <1>6, <3>1, <3>3
    <3>5. w \in Nat
      BY DEF TypeOK
    <3> QED BY <3>4, <3>5, SavesApart DEF Holds, Marks
  <2> QED BY <2>1, <2>2
<1>7. OrderInv' /\ WriteInv'
  BY <1>0, <1>2, <1>3, <1>6, LessOfLog
<1> QED BY <1>4, <1>5, <1>7

(* The log is cut at the last savepoint. *)
LEMMA CutOnLog ==
  ASSUME TypeOK, EndInv, InsideOut, BegunInv, OpenInv, ShapeInv, MarkInv, OrderInv, WriteInv,
         ParentsKept, CommitsLast, NEW p \in Procs, on[p] \in Nested, RollbackStmt(p)
  PROVE  ShapeInv' /\ MarkInv' /\ OrderInv' /\ WriteInv'
<1>0. /\ on[p] \in Txs /\ pc[p] = "stmt" /\ session = "active" /\ Live(on[p])
      /\ log' = CutAfter(on[p]) /\ UNCHANGED <<on, op, closed, session, by, parent>>
      /\ pc'[p] = "release" /\ \A q \in Procs : q = p
  BY DEF RollbackStmt, Sends, EndInv, UseInv, InsideOut, Step, TypeOK
<1> DEFINE k == At(on[p])
<1>1. /\ Marks(k, on[p]) /\ k \in Nat /\ DOMAIN log' = 1 .. k /\ Len(log') = k
      /\ \A i \in 1 .. k : i \in DOMAIN log /\ log'[i] = log[i]
  <2>1. Marks(k, on[p]) /\ k \in Nat
    BY <1>0, PlaceOfSavepoint DEF Marks, TypeOK
  <2>2. /\ log' \in Seq(LogEntry) /\ DOMAIN log' = 1 .. k
        /\ \A i \in 1 .. k : i \in DOMAIN log /\ log'[i] = log[i]
    BY <1>0, CutLog
  <2> HIDE DEF k
  <2>3. Len(log') = k
    BY <2>1, <2>2
  <2> QED BY <2>1, <2>2, <2>3
<1> HIDE DEF k
<1>2. \A t \in Nested : \A i : Marks(i, t)' <=> Marks(i, t)
  <2>1. \A t \in Nested : \A i : Marks(i, t) => i \in 1 .. k
    <3> SUFFICES ASSUME NEW t \in Nested, NEW i, Marks(i, t) PROVE i \in 1 .. k
      OBVIOUS
    <3>1. i <= k
      BY <1>0, <1>1, LastMark
    <3> QED BY <1>1, <3>1 DEF Marks, TypeOK
  <2> QED BY <1>1, <2>1 DEF Marks
<1>3. \A w \in DOMAIN by : \A i : Holds(i, w)' => Holds(i, w)
  BY <1>1 DEF Holds
<1>4. ShapeInv'
  <2> SUFFICES ASSUME NEW i \in 1 .. k
               PROVE  \/ log'[i] = Blank
                      \/ \E t \in Nested : Marks(i, t)'
                      \/ \E w \in DOMAIN by : Holds(i, w)'
    BY <1>0, <1>1 DEF ShapeInv, Marks, Holds, Save, Wrote, Blank
  <2>1. \A w \in DOMAIN by : Holds(i, w) => Holds(i, w)'
    BY <1>1 DEF Holds
  <2> QED BY <1>1, <1>2, <2>1 DEF ShapeInv
<1>5. MarkInv'
  <2>1. \A t \in Nested : Open(t)' => \E i : Marks(i, t)
    BY <1>0 DEF MarkInv, Open, Begun
  <2>2. \A t \in Nested : Open(t)' => \E i \in DOMAIN log' : Marks(i, t)'
    BY <1>2, <2>1 DEF Marks
  <2>3. Marks(Len(log), on[p])'
    BY <1>0, <1>1, <1>2 DEF Marks, Save
  <2> QED BY <1>0, <2>2, <2>3 DEF MarkInv, Marks, Save
<1>6. OrderInv' /\ WriteInv'
  BY <1>0, <1>2, <1>3, LessOfLog
<1> QED BY <1>4, <1>5, <1>6

(* No step but Begin, Exec and the statements that end a nested Tx changes *)
(* the log, as long as the transaction goes on.                            *)
LEMMA LogKept ==
  ASSUME TypeOK, EndInv, InsideOut, BegunInv, OpenInv, ShapeInv, MarkInv, OrderInv, WriteInv,
         ParentsKept, CommitsLast, UNCHANGED <<log, session, parent, by>>,
         \A t \in Txs : Open(t)' =>
           \/ Open(t) /\ ~(\E p \in Procs : pc[p] = "close" /\ on[p] = t)
           \/ \E p \in Procs : pc'[p] = "close" /\ on'[p] = t,
         \A p \in Procs : pc'[p] = "release" => pc[p] = "release" /\ on'[p] = on[p]
  PROVE  ShapeInv' /\ MarkInv' /\ OrderInv' /\ WriteInv'
<1>1. /\ \A t \in Nested : \A i : Marks(i, t)' <=> Marks(i, t)
      /\ \A i : \A w \in DOMAIN by : Holds(i, w)' <=> Holds(i, w)
  BY DEF Marks, Holds
<1>2. OrderInv' /\ WriteInv'
  BY <1>1, LessOfLog
<1>3. ShapeInv'
  BY DEF ShapeInv, Marks, Holds
<1>4. MarkInv'
  <2>1. \A t \in Nested : t \in Txs
    BY DEF Nested
  <2> SUFFICES ASSUME session = "active" PROVE MarkInv'
    BY DEF MarkInv
  <2>2. \A t \in Nested : Open(t)' =>
          (\E i \in DOMAIN log : Marks(i, t)) \/ \E p \in Procs : pc'[p] = "close" /\ on'[p] = t
    BY <2>1 DEF MarkInv
  <2>3. \A p \in Procs : pc'[p] = "release" => Marks(Len(log), on'[p])
    BY DEF MarkInv
  <2> QED BY <2>2, <2>3 DEF MarkInv, Marks, Save
<1> QED BY <1>2, <1>3, <1>4

LEMMA TransactionOver ==
  ASSUME log' = <<>>, session' # "active"
  PROVE  ShapeInv' /\ MarkInv' /\ OrderInv' /\ WriteInv'
<1>1. DOMAIN log' = {}
  OBVIOUS
<1> QED BY <1>1 DEF ShapeInv, MarkInv, OrderInv, WriteInv, Marks, Holds

LEMMA TreeLogStep ==
  ASSUME TypeOK, EndInv, InsideOut, BegunInv, OpenInv, ShapeInv, MarkInv, OrderInv, WriteInv,
         [Next]_vars
  PROVE  ShapeInv' /\ MarkInv' /\ OrderInv' /\ WriteInv'
<1> DEFINE Goal == ShapeInv' /\ MarkInv' /\ OrderInv' /\ WriteInv'
<1>1. BegunInv' /\ ParentsKept /\ CommitsLast
  BY BegunStep, CommitsLastStep DEF EndInv
<1>single. \A p, q \in Procs : p = q
  BY DEF InsideOut
<1>2. ASSUME NEW p \in Procs, Call(p) PROVE Goal
  <2>1. /\ UNCHANGED <<log, session, parent, by, closed>>
        /\ \A q \in Procs : pc[q] = "idle" /\ pc'[q] = "stmt"
    BY <1>2, <1>single DEF Call, Step, TypeOK
  <2>2. \A t \in Txs : Open(t)' => Open(t)
    BY <2>1 DEF Open, Begun
  <2> QED BY <1>1, <2>1, <2>2, LogKept
<1>3. ASSUME NEW p \in Procs, BeginStmt(p) PROVE Goal
  BY <1>1, <1>3, BeginOnLog
<1>4. ASSUME NEW p \in Procs, ExecStmt(p) PROVE Goal
  BY <1>1, <1>4, ExecOnLog
<1>5. ASSUME NEW p \in Procs, CommitStmt(p) \/ ReleaseStmt(p) PROVE Goal
  <2>1. on[p] \in Txs /\ Live(on[p])
    BY <1>5 DEF CommitStmt, ReleaseStmt, Sends, EndInv, UseInv
  <2>2. on[p] \in Nested
    BY <2>1, LiveIsNested
  <2> QED BY <1>1, <1>5, <2>2, ReleaseOnLog
<1>6. ASSUME NEW p \in Procs, RollbackStmt(p) PROVE Goal
  <2>1. on[p] \in Nested
    BY <1>6 DEF RollbackStmt, Sends, EndInv, UseInv, Nested
  <2> QED BY <1>1, <1>6, <2>1, CutOnLog
<1>7. ASSUME NEW p \in Procs, StmtFails(p) PROVE Goal
  <2>1. /\ UNCHANGED <<log, session, parent, by, closed, on>>
        /\ \A q \in Procs : pc[q] \in {"stmt", "release"} /\ pc'[q] = "idle"
    BY <1>7, <1>single DEF StmtFails, Return, Step, TypeOK
  <2>2. \A t \in Txs : Open(t)' => Open(t)
    BY <2>1 DEF Open, Begun
  <2> QED BY <1>1, <2>1, <2>2, LogKept
<1>8. ASSUME NEW p \in Procs, EndRoot(p) PROVE Goal
  BY <1>8, TransactionOver DEF EndRoot
<1>9. ASSUME NEW p \in Procs, EndRootTwice(p) PROVE Goal
  <2>1. /\ UNCHANGED <<log, session, parent, by, closed, on>>
        /\ \A q \in Procs : pc[q] = "stmt" /\ pc'[q] = "closeErr"
    BY <1>9, <1>single DEF EndRootTwice, Step, TypeOK
  <2>2. \A t \in Txs : Open(t)' => Open(t)
    BY <2>1 DEF Open, Begun
  <2> QED BY <1>1, <2>1, <2>2, LogKept
<1>10. ASSUME NEW p \in Procs, Close(p) PROVE Goal
  <2>1. /\ UNCHANGED <<log, session, parent, by, on>> /\ on[p] \in Txs
        /\ closed' = [closed EXCEPT ![on[p]] = TRUE]
        /\ \A q \in Procs : q = p /\ pc'[q] = "idle"
    BY <1>10, <1>single DEF Close, Return, Step, TypeOK, EndInv, UseInv
  <2>2. \A t \in Txs : Open(t)' => Open(t) /\ t # on[p]
    BY <2>1 DEF Open, Begun, TypeOK
  <2> QED BY <1>1, <2>1, <2>2, LogKept
<1>11. ASSUME Cancel PROVE Goal
  BY <1>11, TransactionOver DEF Cancel
<1>12. ASSUME UNCHANGED vars PROVE Goal
  <2>1. UNCHANGED <<log, session, parent, by, on, pc, closed>>
    BY <1>12 DEF vars, procVars
  <2>2. \A t \in Txs : Open(t)' => Open(t)
    BY <2>1 DEF Open, Begun
  <2> QED BY <1>1, <2>1, <2>2, LogKept
<1> QED
  BY <1>2, <1>3, <1>4, <1>5, <1>6, <1>7, <1>8, <1>9, <1>10, <1>11, <1>12 DEF Next, Stmt

-----------------------------------------------------------------------------
(* What becomes durable. *)

LEMMA DurableStep ==
  ASSUME TypeOK, EndInv, InsideOut, TreeInv, [Next]_vars
  PROVE  DurableInv'
<1> USE TxAssumptions
<1>1. /\ BegunInv /\ OpenInv /\ ShapeInv /\ MarkInv /\ OrderInv /\ WriteInv /\ DurableInv
      /\ \A p, q \in Procs : p = q
      /\ ParentsKept /\ CommitsLast
  BY BegunStep, CommitsLastStep DEF TreeInv, EndInv, InsideOut
<1>2. DOMAIN by \subseteq DOMAIN by' /\ \A w \in DOMAIN by : by'[w] = by[w]
  <2>1. by' = by \/ \E t \in Txs : by' = Append(by, t)
    BY DEF Next, vars, Stmt, Call, BeginStmt, ExecStmt, CommitStmt, RollbackStmt, ReleaseStmt,
           StmtFails, EndRoot, EndRootTwice, Close, Cancel, Sends, EndInv, UseInv
  <2> QED BY <2>1 DEF TypeOK
<1>3. \A w \in DOMAIN by : by[w] \in Txs /\ Chain(by[w])' = Chain(by[w])
  BY <1>1, <1>2 DEF ParentsKept, BegunInv, TypeOK, Chain
(* What was durable stays so, for the same reason. *)
<1> DEFINE Kept ==
      /\ durable' \subseteq DOMAIN by'
      /\ \A w \in durable' : \A t \in Nested \cap Chain(by[w])' : Committed(t)'
<1>4. ASSUME durable' = durable PROVE Kept
  <2>1. \A w \in durable : w \in DOMAIN by /\ \A t \in Nested \cap Chain(by[w]) : Committed(t)
    BY <1>1 DEF DurableInv
  <2> QED BY <1>1, <1>2, <1>3, <1>4, <2>1 DEF CommitsLast, Nested
<1>5. ASSUME UNCHANGED <<durable, session, ended>>,
             \A p \in Procs : pc'[p] = "close" /\ on'[p] = Root => pc[p] = "close" /\ UNCHANGED <<on, op>>
      PROVE  DurableInv'
  BY <1>1, <1>4, <1>5 DEF DurableInv, Committed, Chain
<1>6. ASSUME NEW p \in Procs, EndRoot(p) PROVE DurableInv'
  <2>1. /\ session = "active" /\ on[p] = Root /\ pc[p] = "stmt" /\ UNCHANGED <<on, op, by, ended>>
        /\ op[p] \in {"Commit", "Rollback"} /\ \A q \in Procs : q = p
    BY <1>1, <1>6 DEF EndRoot, Sends
  <2>2. durable = {} /\ ended[Root] # "rolledBack"
    BY <1>1, <2>1 DEF DurableInv
  <2>3. CASE op[p] = "Commit" /\ session' = "committed" /\ durable' = WritesIn(log)
    <3>1. ASSUME NEW w \in WritesIn(log)
          PROVE  w \in DOMAIN by /\ \A t \in Nested \cap Chain(by[w]) : Committed(t)
      <4>1. PICK i \in DOMAIN log : log[i].w = w /\ w # 0
        BY DEF WritesIn
      <4>2. \A t \in Nested : \A j : ~Marks(j, t)
        BY <1>1, <2>1, LastMark
      <4>3. PICK v \in DOMAIN by : Holds(i, v)
        BY <1>1, <4>1, <4>2 DEF ShapeInv, Blank
      <4>4. v = w
        BY <4>1, <4>3 DEF Holds, Wrote
      <4> QED BY <1>1, <4>2, <4>3, <4>4 DEF WriteInv
    <3>2. Kept
      BY <1>1, <1>2, <1>3, <2>1, <2>3, <3>1 DEF CommitsLast, Nested
    <3> QED BY <2>1, <2>2, <2>3, <3>2 DEF DurableInv, Committed, Chain
  <2>4. CASE durable' = durable /\ session' = "rolledBack"
    BY <1>4, <2>1, <2>2, <2>4 DEF DurableInv, Committed, Chain
  <2> QED BY <1>6, <2>3, <2>4 DEF EndRoot
<1>7. ASSUME NEW p \in Procs, Close(p) PROVE DurableInv'
  <2>1. /\ UNCHANGED <<on, op, session, durable, by>> /\ on[p] \in Txs
        /\ \A q \in Procs : q = p /\ pc'[q] = "idle"
    BY <1>1, <1>7 DEF Close, Return, Step, TypeOK, EndInv, UseInv
  <2>2. ended'[Root] = "rolledBack" =>
          \/ ended[Root] = "rolledBack"
          \/ pc[p] = "close" /\ on[p] = Root /\ op[p] # "Commit"
    BY <1>7, <2>1 DEF Close, TypeOK, Outcome
  <2>3. ended'[Root] = "rolledBack" => session = "rolledBack"
    BY <1>1, <2>2 DEF DurableInv
  <2> QED BY <1>1, <1>4, <2>1, <2>3 DEF DurableInv, Committed, Chain
<1>8. ASSUME NEW p \in Procs, CommitStmt(p) \/ ReleaseStmt(p) PROVE DurableInv'
  <2>1. UNCHANGED <<durable, session, ended, on, op>> /\ on[p] \in Txs /\ Live(on[p])
    BY <1>8 DEF CommitStmt, ReleaseStmt, Sends, EndInv, UseInv
  <2>2. on[p] # Root
    BY <2>1, LiveIsNested DEF Nested
  <2>3. \A q \in Procs : q = p
    BY <1>1
  <2> QED BY <1>5, <2>1, <2>2, <2>3
<1>9. ASSUME NEW p \in Procs,
             \/ Call(p) \/ BeginStmt(p) \/ ExecStmt(p) \/ RollbackStmt(p) \/ StmtFails(p)
             \/ EndRootTwice(p)
      PROVE  DurableInv'
  <2>1. UNCHANGED <<durable, session, ended>> /\ \A q \in Procs : q = p /\ pc'[q] # "close"
    BY <1>1, <1>9
       DEF Call, BeginStmt, ExecStmt, RollbackStmt, StmtFails, EndRootTwice, Return, Step, TypeOK
  <2> QED BY <1>5, <2>1
<1>10. ASSUME Cancel PROVE DurableInv'
  <2>1. /\ UNCHANGED <<pc, op, on, durable, ended>> /\ session = "active"
        /\ session' = "rolledBack"
    BY <1>10 DEF Cancel, procVars
  <2>2. durable = {}
    BY <1>1, <2>1 DEF DurableInv
  <2> QED BY <1>4, <2>1, <2>2 DEF DurableInv, Committed, Chain
<1>11. ASSUME UNCHANGED vars PROVE DurableInv'
  BY <1>5, <1>11 DEF vars, procVars
<1> QED BY <1>6, <1>7, <1>8, <1>9, <1>10, <1>11 DEF Next, Stmt

LEMMA TreeInit == Init => TreeInv
<1> SUFFICES ASSUME Init PROVE TreeInv
  OBVIOUS
<1> USE TxAssumptions
<1>1. Root \in Txs /\ \A t \in Txs : Begun(t) <=> t = Root
  BY DEF Init, Begun
<1>2. Root \in Chain(Root)
  BY DEF Chain, Ancestry
<1>3. BegunInv
  BY <1>1, <1>2 DEF BegunInv, Init, Nested
<1>4. OpenInv
  BY <1>1 DEF OpenInv, Open, Nested, Init
<1>5. DOMAIN log = {}
  BY DEF Init
<1>6. ShapeInv /\ OrderInv /\ WriteInv
  BY <1>5 DEF ShapeInv, OrderInv, WriteInv
<1>7. MarkInv
  BY <1>1 DEF MarkInv, Open, Nested, Init
<1>8. DurableInv
  BY DEF DurableInv, Init
<1> QED BY <1>3, <1>4, <1>6, <1>7, <1>8 DEF TreeInv

LEMMA TreeStep ==
  ASSUME TypeOK, EndInv, InsideOut, TreeInv, [Next]_vars
  PROVE  TreeInv'
<1>1. BegunInv /\ OpenInv /\ ShapeInv /\ MarkInv /\ OrderInv /\ WriteInv
  BY DEF TreeInv
<1>2. BegunInv' /\ OpenInv'
  BY <1>1, BegunStep, OpenStep DEF EndInv
<1>3. ShapeInv' /\ MarkInv' /\ OrderInv' /\ WriteInv'
  BY <1>1, TreeLogStep
<1> QED BY <1>2, <1>3, DurableStep DEF TreeInv

LEMMA TreeInvariance == InsideOut => (Spec => [](TypeOK /\ EndInv /\ TreeInv))
<1> SUFFICES ASSUME InsideOut PROVE Spec => [](TypeOK /\ EndInv /\ TreeInv)
  OBVIOUS
<1>1. Init => TypeOK /\ EndInv /\ TreeInv
  BY TypeInit, EndInit, TreeInit
<1>2. TypeOK /\ EndInv /\ TreeInv /\ [Next]_vars => TypeOK' /\ EndInv' /\ TreeInv'
  BY TypeStep, EndStep, TreeStep DEF EndInv
<1> QED BY <1>1, <1>2, PTL DEF Spec

(* When a Tx that was used from the inside out is rolled back with         *)
(* success, nothing done through it or within it is ever durable           *)
(* (core.go:171).                                                          *)
THEOREM RollbackIsFinal == InsideOut => (Spec => []RolledBackNeverDurable)
<1> SUFFICES ASSUME InsideOut PROVE Spec => []RolledBackNeverDurable
  OBVIOUS
<1>1. ASSUME TypeOK, EndInv, TreeInv PROVE RolledBackNeverDurable
  <2> SUFFICES ASSUME NEW w \in durable, NEW t \in Txs, t \in Chain(by[w]), ended[t] = "rolledBack"
               PROVE  FALSE
    BY DEF RolledBackNeverDurable
  <2>1. CASE t = Root
    BY <1>1, <2>1 DEF TreeInv, DurableInv
  <2>2. CASE t # Root
    <3>1. Committed(t)
      BY <1>1, <2>2 DEF TreeInv, DurableInv, Nested
    <3> QED BY <1>1, <3>1, TxAssumptions DEF Committed, EndInv, EnderInv
  <2> QED BY <2>1, <2>2
<1> QED BY <1>1, TreeInvariance, PTL

(* "its Rollback only rolls back to the savepoint and its Commit only      *)
(* releases it" (core.go:124): used from the inside out, ending a nested   *)
(* Tx takes no write out of the transaction but those done through it or   *)
(* within it.                                                              *)
THEOREM OuterStaysWhole == InsideOut => (Spec => OuterUnaffected)
<1> SUFFICES ASSUME InsideOut PROVE Spec => OuterUnaffected
  OBVIOUS
<1> DEFINE Lost == WritesIn(log) \ WritesIn(log')
           Act == \A w \in Lost :
                    session' = "active" =>
                      \E p \in Procs : on[p] \in Nested \cap Chain(by[w]) /\ op[p] = "Rollback"
<1>1. ASSUME TypeOK, EndInv, TreeInv, [Next]_vars PROVE [Act]_vars
  <2> SUFFICES ASSUME NEW w \in Lost, session' = "active"
               PROVE  \E p \in Procs : on[p] \in Nested \cap Chain(by[w]) /\ op[p] = "Rollback"
    OBVIOUS
  <2>0. BegunInv /\ OpenInv /\ ShapeInv /\ OrderInv /\ WriteInv
    BY <1>1 DEF TreeInv
  <2>log. log \in Seq(LogEntry)
    BY <1>1 DEF TypeOK, LogEntry
  <2>1. PICK i \in DOMAIN log : log[i].w = w /\ w # 0
    BY DEF WritesIn
  <2>2. \A j \in DOMAIN log' : log'[j].w # w
    BY <2>1 DEF WritesIn
  <2>3. PICK v \in DOMAIN by : Holds(i, v)
    BY <1>1, <2>0, <2>1, TxAssumptions DEF ShapeInv, Blank, Marks, Save
  <2>4. v = w /\ Holds(i, w) /\ log[i].sp = None
    BY <2>1, <2>3 DEF Holds, Wrote
  <2>5. ASSUME NEW e, log' = Append(log, e) PROVE FALSE
    BY <2>log, <2>1, <2>2, <2>5
  <2>6. ASSUME NEW p \in Procs, log' = Released(on[p]) PROVE FALSE
    BY <1>1, <2>1, <2>2, <2>4, <2>6, ReleasedLog
  <2>7. log' # log
    BY <2>1, <2>2
  <2>8. ASSUME NEW p \in Procs, RollbackStmt(p)
        PROVE  on[p] \in Nested \cap Chain(by[w]) /\ op[p] = "Rollback"
    <3>1. /\ on[p] \in Nested /\ op[p] = "Rollback" /\ pc[p] # "idle" /\ Live(on[p])
          /\ log' = CutAfter(on[p])
      BY <1>1, <2>8 DEF RollbackStmt, Sends, EndInv, UseInv, Nested
    <3>2. Marks(At(on[p]), on[p]) /\ At(on[p]) \in Nat
      BY <1>1, <3>1, PlaceOfSavepoint DEF Marks, TypeOK
    <3>3. i \notin 1 .. At(on[p])
      BY <1>1, <2>1, <2>2, <3>1, CutLog
    <3>4. At(on[p]) \in 1 .. i
      BY <2>log, <3>2, <3>3 DEF Marks
    <3> QED BY <2>0, <2>3, <2>4, <3>1, <3>2, <3>4 DEF WriteInv
  <2> QED
    BY <1>1, <2>5, <2>6, <2>7, <2>8
       DEF Next, Stmt, Call, BeginStmt, ExecStmt, CommitStmt, ReleaseStmt, StmtFails, EndRoot,
           EndRootTwice, Close, Cancel, vars
<1>2. TypeOK /\ EndInv /\ TreeInv /\ [Next]_vars => [Act]_vars
  BY <1>1
<1> QED BY <1>2, TreeInvariance, PTL DEF Spec, OuterUnaffected

-----------------------------------------------------------------------------
(* The tree of transactions. *)

(* The place from which t has what it did: after its savepoint. *)
From(t, k) == IF t = Root THEN k = 0 ELSE Marks(k, t)
Unmarked(k, i) == \A x \in Nested : \A j \in k + 1 .. i : ~Marks(j, x)
Owns(t, w) == \E k, i \in 0 .. Len(log) : From(t, k) /\ Holds(i, w) /\ k < i /\ Unmarked(k, i)

OwnsEach == \A t \in Txs : Own(t) = {w \in DOMAIN by : Owns(t, w)}

LEMMA OwnIs == TypeOK /\ EndInv /\ ShapeInv => OwnsEach
<1> SUFFICES ASSUME TypeOK, EndInv, ShapeInv, NEW t \in Txs
             PROVE  Own(t) = {w \in DOMAIN by : Owns(t, w)}
  BY DEF OwnsEach
<1> DEFINE from == IF t = Root THEN 0 ELSE At(t)
           next(i) == i > from /\ \A j \in from + 1 .. i : log[j].sp = None
<1>log. log \in Seq(LogEntry) /\ Len(log) \in Nat /\ DOMAIN log = 1 .. Len(log)
  BY DEF TypeOK, LogEntry
<1>1. \A j \in DOMAIN log : log[j].sp = None <=> \A x \in Nested : ~Marks(j, x)
  <2>1. \A x \in Nested : Save(x).sp # None
    BY TxAssumptions DEF Save, Nested
  <2>2. Blank.sp = None /\ \A w : Wrote(w).sp = None
    BY DEF Blank, Wrote
  <2> QED BY <2>1, <2>2 DEF ShapeInv, Marks, Holds
<1>2. \A j \in DOMAIN log : \A w : w # 0 /\ log[j].w = w => w \in DOMAIN by /\ Holds(j, w)
  <2> SUFFICES ASSUME NEW j \in DOMAIN log, NEW w, w # 0, log[j].w = w
               PROVE  w \in DOMAIN by /\ Holds(j, w)
    OBVIOUS
  <2>1. PICK v \in DOMAIN by : Holds(j, v)
    BY TxAssumptions DEF ShapeInv, Marks, Save, Blank
  <2> QED BY <2>1 DEF Holds, Wrote
<1>3. \A j : \A w \in DOMAIN by : Holds(j, w) => j \in DOMAIN log /\ log[j].w = w /\ w # 0
  BY DEF Holds, Wrote, TypeOK
<1>4. CASE t = Root \/ Live(t)
  <2>1. from \in 0 .. Len(log) /\ From(t, from)
    BY <1>4, <1>log, PlaceOfSavepoint DEF From, Marks
  <2>2. \A k : From(t, k) => k = from
    BY <2>1, MarkIs DEF From, Nested
  <2>3. Own(t) = {log[i].w : i \in {j \in DOMAIN log : next(j)}} \ {0}
    BY <1>4 DEF Own
  <2> HIDE DEF from
  <2>4. \A i \in DOMAIN log : next(i) <=> from < i /\ Unmarked(from, i)
    <3>1. \A i \in DOMAIN log : \A j \in from + 1 .. i : j \in DOMAIN log
      BY <1>log, <2>1
    <3>2. from \in Nat /\ DOMAIN log \subseteq Nat
      BY <1>log, <2>1
    <3> QED BY <1>1, <3>1, <3>2 DEF Unmarked
  <2> HIDE DEF next
  <2>5. ASSUME NEW w \in Own(t) PROVE w \in DOMAIN by /\ Owns(t, w)
    <3>1. PICK i \in DOMAIN log : next(i) /\ log[i].w = w /\ w # 0
      BY <2>3
    <3>2. i \in 0 .. Len(log)
      BY <1>log
    <3> QED BY <1>2, <2>1, <2>4, <3>1, <3>2 DEF Owns
  <2>6. ASSUME NEW w \in DOMAIN by, Owns(t, w) PROVE w \in Own(t)
    <3>1. PICK i : Holds(i, w) /\ from < i /\ Unmarked(from, i)
      BY <2>2, <2>6 DEF Owns
    <3> QED BY <1>3, <2>3, <2>4, <3>1
  <2> QED BY <2>5, <2>6
<1>5. CASE ~(t = Root \/ Live(t))
  <2>1. Own(t) = {}
    BY <1>5 DEF Own
  <2>2. \A w : ~Owns(t, w)
    BY <1>5 DEF Owns, From, Marks, Live
  <2> QED BY <2>1, <2>2
<1> QED BY <1>4, <1>5

LEMMA OwnIsNext == TypeOK' /\ EndInv' /\ ShapeInv' => OwnsEach'
BY OwnIs, PTL

Ready == TypeOK /\ EndInv /\ BegunInv /\ OpenInv /\ ShapeInv /\ MarkInv /\ OrderInv /\ WriteInv

(* A Tx owns the same writes after a step when it owned each before it. *)
LEMMA OwnsSame ==
  ASSUME Ready, Ready', UNCHANGED by,
         \A t \in Txs : \A w \in DOMAIN by : Owns(t, w)' <=> Owns(t, w)
  PROVE  \A t \in Txs : Own(t)' = Own(t)
<1>1. OwnsEach /\ OwnsEach'
  BY OwnIs, OwnIsNext DEF Ready
<1>2. \A t \in Txs : Own(t) = {w \in DOMAIN by : Owns(t, w)}
  BY <1>1 DEF OwnsEach
<1>3. \A t \in Txs : Own(t)' = {w \in DOMAIN by' : Owns(t, w)'}
  BY <1>1 DEF OwnsEach
<1> QED BY <1>2, <1>3

(* What the refinement maps to. *)
TreeStatus == [t \in Txs |-> Status(t)]
TreeParent == [t \in Txs |-> IF Begun(t) THEN parent[t] ELSE Root]
TreeOwn == [t \in Txs |-> Own(t)]

(* The Tx in use is innermost in the tree, and where it is in the log. *)
LEMMA UsedTx ==
  ASSUME Ready, InsideOut, NEW p \in Procs, pc[p] # "idle", session = "active",
         on[p] = Root \/ Live(on[p])
  PROVE  /\ on[p] \in Txs /\ Begun(on[p]) /\ Tree!Innermost(on[p])
         /\ \E k \in 0 .. Len(log) : From(on[p], k)
         /\ \A x \in Nested : \A j : Marks(j, x) =>
              \A k : From(on[p], k) => on[p] # Root /\ j <= k /\ (j = k <=> x = on[p])
<1> USE DEF Ready
<1>1. on[p] \in Txs /\ Open(on[p]) /\ MayUse(on[p]) /\ Begun(on[p])
  BY DEF EndInv, UseInv, OpenInv
<1>2. Status(on[p]) = "open"
  BY <1>1 DEF Status
<1>3. ASSUME NEW u \in Txs \ {on[p], Root}, Status(u) = "open"
      PROVE  Begun(u) /\ parent[u] # on[p]
  <2>1. u \in Nested /\ Live(u) /\ Begun(u)
    BY <1>3 DEF Status, Nested
  <2>2. Open(u)
    BY <2>1, MarkIs DEF Live, Marks
  <2> QED BY <1>1, <1>3, <2>1, <2>2 DEF MayUse, InsideOut
<1>4. Tree!Innermost(on[p])
  BY <1>1, <1>2, <1>3 DEF Tree!Innermost
<1>5. \E k \in 0 .. Len(log) : From(on[p], k)
  <2>1. CASE on[p] = Root
    BY <2>1 DEF From, TypeOK
  <2>2. CASE on[p] # Root
    <3>1. Live(on[p])
      BY <2>2
    <3>2. From(on[p], At(on[p])) /\ At(on[p]) \in 0 .. Len(log)
      BY <2>2, <3>1, PlaceOfSavepoint DEF From, Marks, TypeOK
    <3> QED BY <3>2
  <2> QED BY <2>1, <2>2
<1>6. \A x \in Nested : \A j : Marks(j, x) =>
        \A k : From(on[p], k) => on[p] # Root /\ j <= k /\ (j = k <=> x = on[p])
  BY <1>1, LastMark DEF From, Nested
<1> QED BY <1>1, <1>4, <1>5, <1>6

LEMMA TreeInits == ASSUME Init PROVE Tree!Init
<1> USE TxAssumptions
<1>1. \A t \in Txs : Begun(t) <=> t = Root
  BY DEF Init, Begun
<1>2. DOMAIN log = {}
  BY DEF Init
<1>3. \A t \in Txs : Own(t) = {} /\ Status(t) = IF t = Root THEN "open" ELSE "new"
  BY <1>1, <1>2 DEF Init, Own, Status
<1>4. \A t \in Txs : (IF Begun(t) THEN parent[t] ELSE Root) = Root
  BY <1>1 DEF Init
<1>5. durable = {}
  BY DEF Init
<1> QED BY <1>3, <1>4, <1>5 DEF Tree!Init

(* A step that leaves the database alone. *)
LEMMA TreeStays ==
  ASSUME UNCHANGED <<log, session, parent, durable>>
  PROVE  UNCHANGED Tree!vars
BY DEF Tree!vars, Status, Own, Begun, Live, At, Save

(* What the steps do to the maps, from what they do to their parts. *)
LEMMA TreeMaps ==
  /\ TreeStatus' = [t \in Txs |-> Status(t)']
  /\ TreeParent' = [t \in Txs |-> IF Begun(t)' THEN parent'[t] ELSE Root]
  /\ TreeOwn' = [t \in Txs |-> Own(t)']
BY DEF TreeStatus, TreeParent, TreeOwn, Status, Own, Begun, Live, At, Save

LEMMA TreeBegin ==
  ASSUME Ready, Ready', InsideOut, NEW p \in Procs, BeginStmt(p)
  PROVE  Tree!Next
<1> USE DEF Ready
<1>log. log \in Seq(LogEntry)
  BY DEF TypeOK, LogEntry
<1>0. pc[p] = "stmt" /\ session = "active" /\ UNCHANGED <<on, session, by, durable>>
  BY DEF BeginStmt, Sends
<1>1. /\ on[p] \in Txs /\ Open(on[p]) /\ Begun(on[p]) /\ (on[p] = Root \/ Live(on[p]))
  <2>1. on[p] \in Txs /\ Open(on[p]) /\ \A q \in Procs : q = p
    BY <1>0 DEF EndInv, UseInv, OpenInv, InsideOut
  <2>2. on[p] # Root => \E i : Marks(i, on[p])
    BY <1>0, <2>1 DEF MarkInv, Nested
  <2> QED BY <2>1, <2>2 DEF Marks, Live, Open
<1>2. PICK u \in Nested : /\ ~Begun(u)
                          /\ log' = Append(log, Save(u))
                          /\ parent' = [parent EXCEPT ![u] = on[p]]
  BY DEF BeginStmt
<1>3. /\ u \in Txs /\ u # Root
      /\ \A t \in Txs : parent'[t] = IF t = u THEN on[p] ELSE parent[t]
  BY <1>2 DEF TypeOK, Nested
<1>4. \A t \in Txs : Begun(t)' <=> t = u \/ Begun(t)
  BY <1>1, <1>2, <1>3, TxAssumptions DEF Begun
<1> DEFINE n == Len(log) + 1
<1>5. /\ n \in Nat \ {0} /\ DOMAIN log = 1 .. n - 1 /\ DOMAIN log' = 1 .. n
      /\ Len(log') = n /\ Len(log) = n - 1
      /\ \A i \in DOMAIN log : log'[i] = log[i]
      /\ log'[n] = Save(u)
  BY <1>log, <1>2
<1> HIDE DEF n
<1>6. \A t \in Nested : \A i : Marks(i, t)' <=> Marks(i, t) \/ (i = n /\ t = u)
  <2>1. n \notin DOMAIN log /\ \A i : i \in DOMAIN log' <=> i \in DOMAIN log \/ i = n
    BY <1>5
  <2>2. \A t \in Nested : Save(t) = Save(u) <=> t = u
    BY SavesApart
  <2> QED BY <1>5, <2>1, <2>2 DEF Marks
<1>7. \A w \in DOMAIN by : \A i : Holds(i, w)' <=> Holds(i, w)
  <2>1. \A w \in DOMAIN by : Wrote(w) # Save(u)
    BY SavesApart DEF TypeOK
  <2> QED BY <1>5, <2>1 DEF Holds
<1>8. \A i : ~Marks(i, u)
  <2>1. ~Live(u)
    BY <1>2 DEF EndInv, SavepointInv
  <2> QED BY <2>1 DEF Live, Marks
<1>9. \A t \in Nested : Live(t)' <=> t = u \/ Live(t)
  <2>1. \A t \in Nested : Live(t) <=> \E i : Marks(i, t)
    BY DEF Live, Marks
  <2>2. \A t \in Nested : Live(t)' <=> \E i : Marks(i, t)'
    BY DEF Live, Marks, Save
  <2> QED BY <1>6, <2>1, <2>2
<1>10. \A t \in Txs : Status(t)' = IF t = u THEN "open" ELSE Status(t)
  BY <1>0, <1>3, <1>4, <1>9 DEF Status, Nested
<1>11. Status(u) = "new"
  BY <1>2 DEF Status
<1>12. ASSUME NEW t \in Txs, NEW w \in DOMAIN by PROVE Owns(t, w)' <=> Owns(t, w)
  <2>1. \A i : Holds(i, w) => i \in 1 .. n - 1
    BY <1>5 DEF Holds
  <2>2. \A k : From(t, k) => From(t, k)'
    BY <1>6 DEF From, Nested, Marks, Save
  <2>3. \A k : From(t, k)' => From(t, k) \/ k = n
    BY <1>6 DEF From, Nested, Marks, Save
  <2>4. \A k \in Nat, i \in 1 .. n - 1 : Unmarked(k, i)' <=> Unmarked(k, i)
    <3>1. \A k \in Nat, i \in 1 .. n - 1 : \A j \in k + 1 .. i : j # n
      BY <1>5
    <3> QED BY <1>6, <3>1 DEF Unmarked, Marks, Save
  <2>5. ASSUME Owns(t, w) PROVE Owns(t, w)'
    <3>1. PICK k \in 0 .. Len(log), i \in 0 .. Len(log) :
            From(t, k) /\ Holds(i, w) /\ k < i /\ Unmarked(k, i)
      BY <2>5 DEF Owns
    <3>2. k \in 0 .. Len(log') /\ i \in 0 .. Len(log')
      BY <1>5
    <3>3. From(t, k)' /\ Holds(i, w)' /\ Unmarked(k, i)'
      BY <1>7, <2>1, <2>2, <2>4, <3>1
    <3> QED BY <3>1, <3>2, <3>3 DEF Owns, From, Marks, Holds, Unmarked, Save, Wrote
  <2>6. ASSUME Owns(t, w)' PROVE Owns(t, w)
    <3>1. PICK k \in 0 .. Len(log'), i \in 0 .. Len(log') :
            From(t, k)' /\ Holds(i, w)' /\ k < i /\ Unmarked(k, i)'
      BY <2>6 DEF Owns, From, Marks, Holds, Unmarked, Save, Wrote
    <3>2. Holds(i, w) /\ i \in 1 .. n - 1 /\ k \in 0 .. n - 1
      BY <1>5, <1>7, <2>1, <3>1
    <3>3. From(t, k) /\ Unmarked(k, i)
      BY <1>5, <2>3, <2>4, <3>1, <3>2
    <3> QED BY <1>5, <3>1, <3>2, <3>3 DEF Owns
  <2> QED BY <2>5, <2>6
<1>13. \A t \in Txs : Own(t)' = Own(t)
  BY <1>0, <1>12, OwnsSame
<1>14. Tree!Innermost(on[p])
  BY <1>0, <1>1, UsedTx
<1>15. /\ TreeStatus' = [TreeStatus EXCEPT ![u] = "open"]
       /\ TreeParent' = [TreeParent EXCEPT ![u] = on[p]]
       /\ TreeOwn' = TreeOwn
  BY <1>1, <1>3, <1>4, <1>10, <1>13, TreeMaps DEF TreeStatus, TreeParent, TreeOwn
<1>16. Tree!Begin(on[p], u)
  BY <1>0, <1>3, <1>11, <1>14, <1>15 DEF Tree!Begin, TreeStatus, TreeParent, TreeOwn
<1> QED BY <1>1, <1>3, <1>16 DEF Tree!Next

LEMMA TreeWrite ==
  ASSUME Ready, Ready', InsideOut, NEW p \in Procs, ExecStmt(p)
  PROVE  Tree!Next
<1> USE DEF Ready
<1>log. log \in Seq(LogEntry) /\ by \in Seq(Txs)
  BY DEF TypeOK, LogEntry
<1>0. pc[p] = "stmt" /\ session = "active" /\ UNCHANGED <<on, session, parent, durable>>
  BY DEF ExecStmt, Sends
<1>1. on[p] \in Txs /\ (on[p] = Root \/ Live(on[p]))
  <2>1. on[p] \in Txs /\ Open(on[p]) /\ \A q \in Procs : q = p
    BY <1>0 DEF EndInv, UseInv, OpenInv, InsideOut
  <2>2. on[p] # Root => \E i : Marks(i, on[p])
    BY <1>0, <2>1 DEF MarkInv, Nested
  <2> QED BY <2>1, <2>2 DEF Marks, Live
<1>used. /\ Tree!Innermost(on[p])
         /\ \E k \in 0 .. Len(log) : From(on[p], k)
         /\ \A x \in Nested : \A j : Marks(j, x) =>
              \A k : From(on[p], k) => on[p] # Root /\ j <= k /\ (j = k <=> x = on[p])
  BY <1>0, <1>1, UsedTx
<1>n. PICK n \in Nat \ {0} : n = Len(log) + 1
  BY <1>log
<1>m. PICK m \in Nat \ {0} : m = Len(by) + 1
  BY <1>log
<1>2. /\ DOMAIN log = 1 .. n - 1 /\ DOMAIN log' = 1 .. n
      /\ Len(log') = n /\ Len(log) = n - 1
      /\ \A i \in DOMAIN log : log'[i] = log[i]
      /\ log'[n] = Wrote(m)
  BY <1>log, <1>n, <1>m DEF ExecStmt
<1>3. /\ m \in Writes /\ m # 0 /\ m \notin DOMAIN by /\ DOMAIN by' = DOMAIN by \cup {m}
      /\ \A w \in DOMAIN by : w \in Nat
  BY <1>log, <1>m, TxAssumptions DEF ExecStmt, Writes
<1>4. n \notin DOMAIN log /\ \A i : i \in DOMAIN log' <=> i \in DOMAIN log \/ i = n
  BY <1>2
<1>5. \A t \in Nested : \A i : Marks(i, t)' <=> Marks(i, t)
  <2>1. \A t \in Nested : Save(t) # Wrote(m)
    BY <1>3, SavesApart DEF Writes
  <2> QED BY <1>2, <1>4, <2>1 DEF Marks
<1>6. \A w : Wrote(w) = Wrote(m) <=> w = m
  BY DEF Wrote
<1>7. \A i : ~Holds(i, m)
  <2> SUFFICES ASSUME NEW i, Holds(i, m) PROVE FALSE
    OBVIOUS
  <2>1. i \in DOMAIN log /\ log[i] = Wrote(m) /\ Wrote(m) # Blank
    BY <1>3 DEF Holds, Wrote, Blank
  <2>2. \A t \in Nested : ~Marks(i, t)
    BY <1>3, <2>1, SavesApart DEF Marks, Writes
  <2> QED BY <1>3, <1>6, <2>1, <2>2 DEF ShapeInv, Holds
<1>8. \A w : \A i : Holds(i, w)' <=> Holds(i, w) \/ (i = n /\ w = m)
  BY <1>2, <1>4, <1>6 DEF Holds
<1>9. /\ \A t \in Txs : \A k : From(t, k)' <=> From(t, k)
      /\ \A k, i : Unmarked(k, i)' <=> Unmarked(k, i)
  BY <1>5 DEF From, Unmarked, Nested, Marks, Save
<1>10. ASSUME NEW t \in Txs, NEW w \in DOMAIN by PROVE Owns(t, w)' <=> Owns(t, w)
  <2>1. \A i : Holds(i, w)' <=> Holds(i, w)
    BY <1>3, <1>8
  <2>2. ASSUME Owns(t, w) PROVE Owns(t, w)'
    <3>1. PICK k \in 0 .. Len(log), i \in 0 .. Len(log) :
            From(t, k) /\ Holds(i, w) /\ k < i /\ Unmarked(k, i)
      BY <2>2 DEF Owns
    <3>2. k \in 0 .. Len(log') /\ i \in 0 .. Len(log')
      BY <1>2
    <3>3. From(t, k)' /\ Holds(i, w)' /\ Unmarked(k, i)'
      BY <1>9, <2>1, <3>1
    <3> QED BY <3>1, <3>2, <3>3 DEF Owns, From, Marks, Holds, Unmarked, Save, Wrote
  <2>3. ASSUME Owns(t, w)' PROVE Owns(t, w)
    <3>1. PICK k \in 0 .. Len(log'), i \in 0 .. Len(log') :
            From(t, k)' /\ Holds(i, w)' /\ k < i /\ Unmarked(k, i)'
      BY <2>3 DEF Owns, From, Marks, Holds, Unmarked, Save, Wrote
    <3>2. From(t, k) /\ Holds(i, w) /\ Unmarked(k, i)
      BY <1>9, <2>1, <3>1
    <3>3. i \in 0 .. Len(log) /\ k \in 0 .. Len(log)
      BY <1>2, <3>1, <3>2 DEF Holds
    <3> QED BY <3>1, <3>2, <3>3 DEF Owns
  <2> QED BY <2>2, <2>3
<1>11. ASSUME NEW t \in Txs PROVE Owns(t, m)' <=> t = on[p]
  <2>1. PICK k0 \in 0 .. Len(log) : From(on[p], k0)
    BY <1>used
  <2>2. ASSUME t = on[p] PROVE Owns(t, m)'
    <3>1. From(t, k0)' /\ Holds(n, m)'
      BY <1>8, <1>9, <2>1, <2>2
    <3>2. Unmarked(k0, n)
      <4>1. \A x \in Nested : \A j : Marks(j, x) => j <= k0 /\ j \in 1 .. n - 1
        BY <1>2, <1>used, <2>1 DEF Marks
      <4>2. \A j \in k0 + 1 .. n : ~(j <= k0)
        BY <1>2, <2>1
      <4> QED BY <4>1, <4>2 DEF Unmarked
    <3>3. Unmarked(k0, n)' /\ k0 \in 0 .. Len(log') /\ n \in 0 .. Len(log') /\ k0 < n
      BY <1>2, <1>9, <2>1, <3>2
    <3> QED BY <3>1, <3>3 DEF Owns, From, Marks, Holds, Unmarked, Save, Wrote
  <2>3. ASSUME Owns(t, m)', t # on[p] PROVE FALSE
    <3>1. PICK k \in 0 .. Len(log'), i \in 0 .. Len(log') :
            From(t, k)' /\ Holds(i, m)' /\ k < i /\ Unmarked(k, i)'
      BY <2>3 DEF Owns, From, Marks, Holds, Unmarked, Save, Wrote
    <3>2. From(t, k) /\ Unmarked(k, n) /\ i = n
      BY <1>7, <1>8, <1>9, <3>1
    <3>3. CASE t = Root
      <4>1. k = 0 /\ on[p] # Root /\ Marks(k0, on[p]) /\ on[p] \in Nested
        BY <1>1, <2>1, <2>3, <3>2, <3>3 DEF From, Nested
      <4>2. k0 \in k + 1 .. n
        BY <1>2, <4>1 DEF Marks
      <4> QED BY <3>2, <4>1, <4>2 DEF Unmarked
    <3>4. CASE t # Root
      <4>1. t \in Nested /\ Marks(k, t)
        BY <3>2, <3>4 DEF From, Nested
      <4>2. on[p] # Root /\ k <= k0 /\ k # k0
        BY <1>used, <2>1, <2>3, <4>1
      <4>3. on[p] \in Nested /\ Marks(k0, on[p])
        BY <1>1, <2>1, <4>2 DEF From, Nested
      <4>4. k0 \in k + 1 .. n
        BY <1>2, <4>1, <4>2, <4>3 DEF Marks
      <4> QED BY <3>2, <4>3, <4>4 DEF Unmarked
    <3> QED BY <3>3, <3>4
  <2> QED BY <2>2, <2>3
<1>12. /\ \A t \in Txs : Own(t)' = IF t = on[p] THEN Own(t) \cup {m} ELSE Own(t)
       /\ \A t \in Txs : m \notin Own(t)
  <2>1. OwnsEach /\ OwnsEach'
    BY OwnIs, OwnIsNext
  <2>2. \A t \in Txs : Own(t) = {w \in DOMAIN by : Owns(t, w)}
    BY <2>1 DEF OwnsEach
  <2>3. \A t \in Txs : Own(t)' = {w \in DOMAIN by' : Owns(t, w)'}
    BY <2>1 DEF OwnsEach
  <2> QED BY <1>3, <1>10, <1>11, <2>2, <2>3
<1>13. \A t \in Txs : Status(t)' = Status(t) /\ Begun(t)' = Begun(t)
  <2>1. \A t \in Nested : Live(t) <=> \E i : Marks(i, t)
    BY DEF Live, Marks
  <2>2. \A t \in Nested : Live(t)' <=> \E i : Marks(i, t)'
    BY DEF Live, Marks, Save
  <2>3. \A t \in Nested : Live(t)' <=> Live(t)
    BY <1>5, <2>1, <2>2
  <2> QED BY <1>0, <2>3 DEF Status, Begun, Nested
<1>14. /\ TreeStatus' = TreeStatus
       /\ TreeParent' = TreeParent
       /\ TreeOwn' = [TreeOwn EXCEPT ![on[p]] = TreeOwn[on[p]] \cup {m}]
  BY <1>0, <1>1, <1>12, <1>13, TreeMaps DEF TreeStatus, TreeParent, TreeOwn
<1>15. Tree!Write(on[p], m)
  BY <1>0, <1>used, <1>12, <1>14 DEF Tree!Write, TreeStatus, TreeParent, TreeOwn
<1> QED BY <1>1, <1>3, <1>15 DEF Tree!Next

LEMMA TreeUndo ==
  ASSUME Ready, Ready', InsideOut, NEW p \in Procs, on[p] \in Nested, RollbackStmt(p)
  PROVE  Tree!Next
<1> USE DEF Ready
<1>0. /\ pc[p] = "stmt" /\ session = "active" /\ UNCHANGED <<on, session, parent, by, durable>>
      /\ Live(on[p]) /\ log' = CutAfter(on[p]) /\ on[p] \in Txs
  BY DEF RollbackStmt, Sends, EndInv, UseInv
<1> DEFINE c == At(on[p])
<1>1. /\ Marks(c, on[p]) /\ c \in Nat \ {0} /\ c \in 1 .. Len(log) /\ DOMAIN log' = 1 .. c
      /\ Len(log') = c /\ \A i \in 1 .. c : i \in DOMAIN log /\ log'[i] = log[i]
  <2>1. Marks(c, on[p]) /\ c \in Nat \ {0} /\ c \in 1 .. Len(log)
    BY <1>0, PlaceOfSavepoint DEF Marks, TypeOK
  <2>2. /\ log' \in Seq(LogEntry) /\ DOMAIN log' = 1 .. c
        /\ \A i \in 1 .. c : i \in DOMAIN log /\ log'[i] = log[i]
    BY <1>0, CutLog
  <2> HIDE DEF c
  <2>3. Len(log') = c
    BY <2>1, <2>2
  <2> QED BY <2>1, <2>2, <2>3
<1> HIDE DEF c
<1>used. /\ Tree!Innermost(on[p])
         /\ \A x \in Nested : \A j : Marks(j, x) => j <= c /\ (j = c <=> x = on[p])
  BY <1>0, <1>1, UsedTx DEF From, Nested
<1>2. \A t \in Nested : \A i : Marks(i, t)' <=> Marks(i, t)
  <2>1. \A t \in Nested : \A i : Marks(i, t) => i \in 1 .. c
    <3> SUFFICES ASSUME NEW t \in Nested, NEW i, Marks(i, t) PROVE i \in 1 .. c
      OBVIOUS
    <3>1. i <= c
      BY <1>used
    <3> QED BY <1>1, <3>1 DEF Marks, TypeOK
  <2> QED BY <1>1, <2>1 DEF Marks
<1>3. \A w : \A i : Holds(i, w)' <=> Holds(i, w) /\ i \in 1 .. c
  BY <1>1 DEF Holds
<1>4. /\ \A t \in Txs : \A k : From(t, k)' <=> From(t, k)
      /\ \A k, i : Unmarked(k, i)' <=> Unmarked(k, i)
  BY <1>2 DEF From, Unmarked, Nested, Marks, Save
<1>5. ASSUME NEW t \in Txs, NEW w, t # on[p] PROVE Owns(t, w)' <=> Owns(t, w)
  <2>1. ASSUME NEW k \in 0 .. Len(log), From(t, k) PROVE k < c
    <3>1. CASE t = Root
      BY <1>1, <2>1, <3>1 DEF From
    <3>2. CASE t # Root
      BY <1>1, <1>5, <1>used, <2>1, <3>2 DEF From, Nested
    <3> QED BY <3>1, <3>2
  <2>2. ASSUME Owns(t, w) PROVE Owns(t, w)'
    <3>1. PICK k \in 0 .. Len(log), i \in 0 .. Len(log) :
            From(t, k) /\ Holds(i, w) /\ k < i /\ Unmarked(k, i)
      BY <2>2 DEF Owns
    <3>2. k < c
      BY <2>1, <3>1
    <3>3. c \notin k + 1 .. i
      BY <1>0, <1>1, <3>1 DEF Unmarked
    <3>4. k \in 0 .. Len(log') /\ i \in 0 .. Len(log') /\ i \in 1 .. c
      BY <1>1, <3>1, <3>2, <3>3
    <3>5. From(t, k)' /\ Holds(i, w)' /\ Unmarked(k, i)'
      BY <1>3, <1>4, <3>1, <3>4
    <3> QED BY <3>1, <3>4, <3>5 DEF Owns, From, Marks, Holds, Unmarked, Save, Wrote
  <2>3. ASSUME Owns(t, w)' PROVE Owns(t, w)
    <3>1. PICK k \in 0 .. Len(log'), i \in 0 .. Len(log') :
            From(t, k)' /\ Holds(i, w)' /\ k < i /\ Unmarked(k, i)'
      BY <2>3 DEF Owns, From, Marks, Holds, Unmarked, Save, Wrote
    <3>2. From(t, k) /\ Holds(i, w) /\ Unmarked(k, i)
      BY <1>3, <1>4, <3>1
    <3>3. i \in 0 .. Len(log) /\ k \in 0 .. Len(log)
      BY <1>1, <3>1
    <3> QED BY <3>1, <3>2, <3>3 DEF Owns
  <2> QED BY <2>2, <2>3
<1>6. \A t \in Txs : t = on[p] => \A w : ~Owns(t, w)'
  <2> SUFFICES ASSUME NEW t \in Txs, t = on[p], NEW w, Owns(t, w)' PROVE FALSE
    OBVIOUS
  <2>1. PICK k \in 0 .. Len(log'), i \in 0 .. Len(log') :
          From(t, k)' /\ Holds(i, w)' /\ k < i
    BY DEF Owns, From, Marks, Holds, Unmarked, Save, Wrote
  <2>2. From(t, k)
    BY <1>4, <2>1
  <2>3. k = c
    BY <1>used, <2>2 DEF From, Nested
  <2> QED BY <1>1, <2>1, <2>3
<1>7. \A t \in Txs : Own(t)' = IF t = on[p] THEN {} ELSE Own(t)
  <2>1. OwnsEach /\ OwnsEach'
    BY OwnIs, OwnIsNext
  <2>2. \A t \in Txs : Own(t) = {w \in DOMAIN by : Owns(t, w)}
    BY <2>1 DEF OwnsEach
  <2>3. \A t \in Txs : Own(t)' = {w \in DOMAIN by' : Owns(t, w)'}
    BY <2>1 DEF OwnsEach
  <2>4. \A t \in Txs : t = on[p] => Own(t)' = {}
    BY <1>6, <2>3
  <2>5. ASSUME NEW t \in Txs, t # on[p] PROVE Own(t)' = Own(t)
    <3>1. \A w : Owns(t, w)' <=> Owns(t, w)
      BY <1>5, <2>5
    <3> QED BY <1>0, <2>2, <2>3, <3>1
  <2> QED BY <2>4, <2>5
<1>8. \A t \in Txs : Status(t)' = Status(t) /\ Begun(t)' = Begun(t)
  <2>1. \A t \in Nested : Live(t) <=> \E i : Marks(i, t)
    BY DEF Live, Marks
  <2>2. \A t \in Nested : Live(t)' <=> \E i : Marks(i, t)'
    BY DEF Live, Marks, Save
  <2>3. \A t \in Nested : Live(t)' <=> Live(t)
    BY <1>2, <2>1, <2>2
  <2> QED BY <1>0, <2>3 DEF Status, Begun, Nested
<1>9. /\ TreeStatus' = TreeStatus
      /\ TreeParent' = TreeParent
      /\ TreeOwn' = [TreeOwn EXCEPT ![on[p]] = {}]
  BY <1>0, <1>7, <1>8, TreeMaps DEF TreeStatus, TreeParent, TreeOwn
<1>10. Tree!Undo(on[p])
  BY <1>0, <1>used, <1>9 DEF Tree!Undo, TreeStatus, TreeParent, TreeOwn
<1> QED BY <1>0, <1>10 DEF Tree!Next

(* Between the savepoint of a Tx and that of its parent there is no other, *)
(* and between it and that of another Tx there is the one of its parent.   *)
LEMMA ParentIsNext ==
  ASSUME Ready, InsideOut, NEW p \in Procs, pc[p] \in {"stmt", "release"}, session = "active",
         on[p] \in Nested, NEW c, Marks(c, on[p])
  PROVE  /\ parent[on[p]] \in Txs \ {on[p]}
         /\ \A t \in Txs \ {on[p]} : \A k : From(t, k) =>
              k \in Nat /\ k < c /\ (Unmarked(k, c - 1) <=> t = parent[on[p]])
<1> USE DEF Ready
<1> DEFINE d == parent[on[p]]
<1>0. /\ on[p] \in Txs /\ Open(on[p]) /\ Begun(on[p]) /\ MayUse(on[p]) /\ on[p] # Root
      /\ \A q \in Procs : q = p
  BY DEF EndInv, UseInv, OpenInv, InsideOut, Nested
<1>1. /\ d \in Txs /\ Open(d) /\ Begun(d)
      /\ Chain(on[p]) = {on[p]} \cup Chain(d) /\ d \in Chain(d)
      /\ Root \in Chain(on[p])
  <2>1. d \in Txs /\ Open(d) /\ Begun(d)
    BY <1>0 DEF BegunInv, OpenInv, Open
  <2>2. Chain(on[p]) = {on[p]} \cup Chain(d)
    BY <1>0, ChainIs
  <2>3. d \in Chain(d)
    BY <2>1, ChainIs
  <2> QED BY <1>0, <2>1, <2>2, <2>3 DEF BegunInv
<1>2. d # on[p]
  <2> SUFFICES ASSUME d = on[p] PROVE FALSE
    OBVIOUS
  <2> DEFINE S == {on[p]}
  <2>1. S \in SUBSET Txs /\ on[p] \in S /\ \A v \in S \ {Root} : parent[v] \in S
    BY <1>0
  <2>2. Chain(on[p]) \subseteq S
    <3> HIDE DEF S
    <3> QED BY <1>0, <2>1, ChainIs
  <2> QED BY <1>0, <1>1, <2>2
<1>3. Chain(Root) \subseteq {Root}
  <2> DEFINE S == {Root}
  <2>1. S \in SUBSET Txs /\ Root \in S /\ \A v \in S \ {Root} : parent[v] \in S
    BY TxAssumptions
  <2> HIDE DEF S
  <2>2. Chain(Root) \subseteq S
    BY <2>1, ChainIs, TxAssumptions DEF BegunInv
  <2> QED BY <2>2 DEF S
<1> HIDE DEF d
<1>4. c \in Nat \ {0}
  BY DEF Marks, TypeOK
<1>5. \A x \in Nested : \A j : Marks(j, x) =>
        j \in Nat \ {0} /\ x \in Txs /\ j <= c /\ (j = c <=> x = on[p])
  <2> SUFFICES ASSUME NEW x \in Nested, NEW j, Marks(j, x)
               PROVE  j \in Nat \ {0} /\ x \in Txs /\ j <= c /\ (j = c <=> x = on[p])
    OBVIOUS
  <2>1. j \in Nat \ {0} /\ x \in Txs
    BY DEF Marks, TypeOK, Nested
  <2>2. j <= c /\ (j = c <=> x = on[p])
    BY LastMark
  <2> QED BY <2>1, <2>2
<1>6. \A t \in Txs \ {on[p]} : \A k : From(t, k) => k \in Nat /\ k < c
  BY <1>4, <1>5 DEF From, Nested
<1>7. ASSUME NEW k, From(d, k) PROVE Unmarked(k, c - 1)
  <2> SUFFICES ASSUME NEW x \in Nested, NEW j \in k + 1 .. c - 1, Marks(j, x) PROVE FALSE
    BY DEF Unmarked
  <2>1. k \in Nat /\ k < c /\ j \in Nat /\ k < j /\ j < c /\ x # on[p]
    BY <1>1, <1>2, <1>4, <1>5, <1>6, <1>7
  <2>2. x \in Chain(on[p])
    <3>1. j \in DOMAIN log /\ c \in DOMAIN log /\ j <= c
      BY <2>1, <1>4 DEF Marks
    <3> QED BY <3>1 DEF OrderInv
  <2>3. x \in Chain(d)
    BY <1>1, <2>1, <2>2
  <2>4. d # Root
    BY <1>3, <2>3 DEF Nested
  <2>5. d \in Nested /\ Marks(k, d)
    BY <1>1, <1>7, <2>4 DEF From, Nested
  <2>6. j <= k
    BY <2>3, <2>5 DEF OrderInv, Marks
  <2> QED BY <2>1, <2>6
<1>8. ASSUME NEW t \in Txs \ {on[p]}, NEW k, From(t, k), t # d PROVE ~Unmarked(k, c - 1)
  <2>1. k \in Nat /\ k < c
    BY <1>6, <1>8
  <2>2. t \in Chain(d)
    <3>1. t \in Chain(on[p])
      <4>1. CASE t = Root
        BY <1>1, <4>1
      <4>2. CASE t # Root
        <5>1. t \in Nested /\ Marks(k, t)
          BY <1>8, <4>2 DEF From, Nested
        <5> QED BY <2>1, <5>1, <1>4 DEF OrderInv, Marks
      <4> QED BY <4>1, <4>2
    <3> QED BY <1>1, <3>1
  <2>3. d # Root
    BY <1>3, <1>8, <2>2
  <2>4. PICK j : Marks(j, d)
    BY <1>0, <1>1, <1>2, <2>3 DEF MarkInv, Nested
  <2>5. j \in Nat /\ j < c /\ d \in Nested
    BY <1>1, <1>2, <1>4, <1>5, <2>3, <2>4 DEF Nested
  <2>6. k < j
    <3>1. CASE t = Root
      BY <1>5, <1>8, <2>4, <2>5, <3>1 DEF From
    <3>2. CASE t # Root
      <4>1. t \in Nested /\ Marks(k, t)
        BY <1>8, <3>2 DEF From, Nested
      <4>2. k <= j
        BY <2>2, <2>4, <2>5, <4>1 DEF OrderInv, Marks
      <4>3. k # j
        BY <1>8, <2>4, <2>5, <4>1, SavesApart DEF Marks
      <4> QED BY <2>1, <2>5, <4>2, <4>3
    <3> QED BY <3>1, <3>2
  <2>7. j \in k + 1 .. c - 1
    BY <1>4, <2>1, <2>5, <2>6
  <2> QED BY <2>4, <2>5, <2>7 DEF Unmarked
<1> QED BY <1>1, <1>2, <1>6, <1>7, <1>8 DEF d

LEMMA TreeMerge ==
  ASSUME Ready, Ready', InsideOut, NEW p \in Procs, CommitStmt(p) \/ ReleaseStmt(p)
  PROVE  Tree!Next
<1> USE DEF Ready
<1>0. /\ pc[p] \in {"stmt", "release"} /\ session = "active"
      /\ UNCHANGED <<on, session, parent, by, durable>>
      /\ on[p] \in Txs /\ Begun(on[p]) /\ on[p] \in Nested
      /\ Live(on[p]) /\ log' = Released(on[p])
  <2>1. on[p] \in Txs /\ Begun(on[p]) /\ Live(on[p])
    BY DEF CommitStmt, ReleaseStmt, Sends, EndInv, UseInv
  <2>2. on[p] \in Nested
    BY <2>1, LiveIsNested
  <2> QED BY <2>1, <2>2 DEF CommitStmt, ReleaseStmt, Sends
<1>c. PICK c \in Nat : c = At(on[p])
  BY <1>0, PlaceOfSavepoint DEF TypeOK
<1>1. /\ Marks(c, on[p]) /\ DOMAIN log' = DOMAIN log
      /\ \A i \in DOMAIN log : log'[i] = IF i = c THEN Blank ELSE log[i]
  BY <1>0, <1>c, ReleasedLast
<1>2. Len(log') = Len(log) /\ DOMAIN log = 1 .. Len(log) /\ Len(log) \in Nat
  <2>1. log \in Seq(LogEntry) /\ log' \in Seq(LogEntry)
    BY DEF TypeOK, LogEntry
  <2> QED BY <1>1, <2>1
<1>3. PICK d \in Txs \ {on[p]} : d = parent[on[p]]
  BY <1>0, <1>1, ParentIsNext
<1>4. \A t \in Txs \ {on[p]} : \A k : From(t, k) =>
        k \in Nat /\ k < c /\ (Unmarked(k, c - 1) <=> t = d)
  BY <1>0, <1>1, <1>3, ParentIsNext
<1>used. /\ Tree!Innermost(on[p])
         /\ \A x \in Nested : \A j : Marks(j, x) => j <= c /\ (j = c <=> x = on[p])
  BY <1>0, <1>1, UsedTx DEF From, Nested
<1>5. \A t \in Nested : \A i : Marks(i, t)' <=> Marks(i, t) /\ i # c
  BY <1>1, SavesApart DEF Marks
<1>6. \A w \in DOMAIN by : \A i : Holds(i, w)' <=> Holds(i, w)
  <2>1. \A w \in DOMAIN by : Wrote(w) # Save(on[p]) /\ Wrote(w) # Blank
    <3>1. \A w \in DOMAIN by : w \in Nat /\ w # 0
      BY DEF TypeOK
    <3>2. \A w \in DOMAIN by : Wrote(w) # Blank
      BY <3>1 DEF Wrote, Blank
    <3> QED BY <1>0, <3>1, <3>2, SavesApart
  <2> QED BY <1>1, <2>1 DEF Holds, Marks
<1>7. \A w \in DOMAIN by : \A i : Holds(i, w) => i # c /\ i \in 1 .. Len(log)
  <2>1. \A w \in DOMAIN by : Wrote(w) # Save(on[p])
    BY <1>0, SavesApart DEF TypeOK
  <2> QED BY <1>1, <1>2, <2>1 DEF Holds, Marks
<1>8. \A t \in Txs : \A k : From(t, k)' <=> From(t, k) /\ t # on[p]
  <2>1. \A t \in Nested : \A k : Marks(k, t)' <=> Marks(k, t) /\ t # on[p]
    BY <1>used, <1>5
  <2> QED BY <1>0, <2>1 DEF From, Nested, Marks, Save
<1>9. \A k, i \in 0 .. Len(log) : Unmarked(k, i)' <=>
        \A x \in Nested : \A j \in k + 1 .. i : j = c \/ ~Marks(j, x)
  BY <1>5 DEF Unmarked, Marks, Save
(* To come after a mark is to be in reach of it, or beyond c. *)
<1>10. ASSUME NEW t \in Txs \ {on[p]}, NEW w \in DOMAIN by
       PROVE  Owns(t, w)' <=> Owns(t, w) \/ (t = d /\ Owns(on[p], w))
  <2>1. ASSUME Owns(t, w)' PROVE Owns(t, w) \/ (t = d /\ Owns(on[p], w))
    <3>1. PICK k \in 0 .. Len(log'), i \in 0 .. Len(log') :
            From(t, k)' /\ Holds(i, w)' /\ k < i /\ Unmarked(k, i)'
      BY <2>1 DEF Owns, From, Marks, Holds, Unmarked, Save, Wrote
    <3>2. /\ From(t, k) /\ Holds(i, w) /\ k < i /\ k < c /\ i # c
          /\ k \in 0 .. Len(log) /\ i \in 0 .. Len(log)
          /\ \A x \in Nested : \A j \in k + 1 .. i : j = c \/ ~Marks(j, x)
      BY <1>2, <1>4, <1>6, <1>7, <1>8, <1>9, <3>1
    <3>3. CASE i < c
      <4>1. Unmarked(k, i)
        BY <3>2, <3>3 DEF Unmarked
      <4> QED BY <3>2, <4>1 DEF Owns
    <3>4. CASE c < i
      <4>1. \A j \in k + 1 .. c - 1 : j \in k + 1 .. i /\ j # c
        BY <3>2, <3>4
      <4>2. Unmarked(k, c - 1)
        BY <3>2, <4>1 DEF Unmarked
      <4>3. \A j \in c + 1 .. i : j \in k + 1 .. i /\ j # c
        BY <3>2, <3>4
      <4>4. Unmarked(c, i)
        BY <3>2, <4>3 DEF Unmarked
      <4>5. From(on[p], c) /\ c \in 0 .. Len(log)
        BY <1>0, <1>1, <3>2, <3>4 DEF From, Nested
      <4> QED BY <1>4, <3>2, <3>4, <4>2, <4>4, <4>5 DEF Owns
    <3> QED BY <3>2, <3>3, <3>4
  <2>2. ASSUME Owns(t, w) PROVE Owns(t, w)'
    <3>1. PICK k \in 0 .. Len(log), i \in 0 .. Len(log) :
            From(t, k) /\ Holds(i, w) /\ k < i /\ Unmarked(k, i)
      BY <2>2 DEF Owns
    <3>2. From(t, k)' /\ Holds(i, w)' /\ Unmarked(k, i)'
      <4>1. \A x \in Nested : \A j \in k + 1 .. i : j = c \/ ~Marks(j, x)
        BY <3>1 DEF Unmarked
      <4> QED BY <1>6, <1>8, <1>9, <3>1, <4>1
    <3> QED BY <1>2, <3>1, <3>2 DEF Owns, From, Marks, Holds, Unmarked, Save, Wrote
  <2>3. ASSUME t = d, Owns(on[p], w) PROVE Owns(t, w)'
    <3>1. PICK i \in 0 .. Len(log) : Holds(i, w) /\ c < i /\ Unmarked(c, i)
      <4>1. PICK k \in 0 .. Len(log), i \in 0 .. Len(log) :
              From(on[p], k) /\ Holds(i, w) /\ k < i /\ Unmarked(k, i)
        BY <2>3 DEF Owns
      <4>2. k = c
        BY <1>0, <1>used, <4>1 DEF From, Nested
      <4> QED BY <4>1, <4>2
    <3>2. PICK k \in 0 .. Len(log) : From(d, k)
      <4>1. CASE d = Root
        BY <1>2, <4>1 DEF From
      <4>2. CASE d # Root
        <5>1. Open(on[p]) /\ \A q \in Procs : q = p
          BY <1>0 DEF OpenInv, InsideOut
        <5>2. Open(d) /\ d \in Nested
          BY <1>0, <1>3, <4>2, <5>1 DEF OpenInv, Nested
        <5>3. PICK k \in DOMAIN log : Marks(k, d)
          BY <1>0, <1>3, <5>1, <5>2 DEF MarkInv
        <5>4. k \in 0 .. Len(log)
          BY <1>2
        <5> QED BY <4>2, <5>3, <5>4 DEF From
      <4> QED BY <4>1, <4>2
    <3>3. k < c /\ Unmarked(k, c - 1)
      BY <1>4, <3>2
    <3>4. \A j \in k + 1 .. i : j \in k + 1 .. c - 1 \/ j = c \/ j \in c + 1 .. i
      BY <3>1, <3>2, <3>3
    <3>5. \A x \in Nested : \A j \in k + 1 .. i : j = c \/ ~Marks(j, x)
      BY <3>1, <3>3, <3>4 DEF Unmarked
    <3>6. From(t, k)' /\ Holds(i, w)' /\ Unmarked(k, i)' /\ k < i
      BY <1>6, <1>8, <1>9, <2>3, <3>1, <3>2, <3>3, <3>5
    <3> QED BY <1>2, <3>6 DEF Owns, From, Marks, Holds, Unmarked, Save, Wrote
  <2> QED BY <2>1, <2>2, <2>3
<1>11. \A t \in Txs : t = on[p] => \A w : ~Owns(t, w)'
  <2> SUFFICES ASSUME NEW t \in Txs, t = on[p], NEW w PROVE ~Owns(t, w)'
    OBVIOUS
  <2>1. \A k : ~From(t, k)'
    BY <1>8
  <2> QED BY <2>1 DEF Owns, From, Marks, Holds, Unmarked, Save, Wrote
<1>12. \A t \in Txs : Own(t)' = IF t = on[p] THEN {}
                                ELSE IF t = d THEN Own(t) \cup Own(on[p]) ELSE Own(t)
  <2>1. OwnsEach /\ OwnsEach'
    BY OwnIs, OwnIsNext
  <2>2. \A t \in Txs : Own(t) = {w \in DOMAIN by : Owns(t, w)}
    BY <2>1 DEF OwnsEach
  <2>3. \A t \in Txs : Own(t)' = {w \in DOMAIN by' : Owns(t, w)'}
    BY <2>1 DEF OwnsEach
  <2>4. \A t \in Txs : t = on[p] => Own(t)' = {}
    BY <1>11, <2>3
  <2>5. ASSUME NEW t \in Txs \ {on[p]}
        PROVE  Own(t)' = IF t = d THEN Own(t) \cup Own(on[p]) ELSE Own(t)
    BY <1>0, <1>10, <2>2, <2>3
  <2> QED BY <2>4, <2>5
<1>13. \A t \in Txs : /\ Status(t)' = IF t = on[p] THEN "over" ELSE Status(t)
                      /\ Begun(t)' = Begun(t)
  <2>1. \A t \in Nested : Live(t) <=> \E i : Marks(i, t)
    BY DEF Live, Marks
  <2>2. \A t \in Nested : Live(t)' <=> \E i : Marks(i, t)'
    BY DEF Live, Marks, Save
  <2>3. \A t \in Nested : Live(t)' <=> Live(t) /\ t # on[p]
    BY <1>used, <1>5, <2>1, <2>2
  <2> QED BY <1>0, <2>3 DEF Status, Begun, Nested
<1>14. /\ TreeStatus' = [TreeStatus EXCEPT ![on[p]] = "over"]
       /\ TreeParent' = TreeParent /\ TreeParent[on[p]] = d
       /\ TreeOwn' = [TreeOwn EXCEPT ![d] = TreeOwn[d] \cup TreeOwn[on[p]], ![on[p]] = {}]
  BY <1>0, <1>3, <1>12, <1>13, TreeMaps DEF TreeStatus, TreeParent, TreeOwn
<1>15. Tree!Merge(on[p])
  BY <1>0, <1>used, <1>14 DEF Tree!Merge, TreeStatus, TreeParent, TreeOwn, Nested
<1> QED BY <1>0, <1>15 DEF Tree!Next

LEMMA TreeFinish ==
  ASSUME Ready, Ready', session = "active", session' # "active", log' = <<>>,
         UNCHANGED <<parent, by>>, NEW keep, durable' = keep,
         keep \in {Own(Root), {}}, keep \in SUBSET Writes, keep # {} => Tree!Innermost(Root)
  PROVE  Tree!Next
<1> USE DEF Ready
<1>1. DOMAIN log' = {}
  OBVIOUS
<1>2. \A t \in Txs : /\ Own(t)' = {}
                     /\ Status(t)' = IF Status(t) = "open" THEN "over" ELSE Status(t)
                     /\ Begun(t)' = Begun(t)
  BY <1>1 DEF Own, Status, Begun
<1>3. Status(Root) = "open"
  BY DEF Status, BegunInv
<1>4. /\ TreeStatus' = [t \in Txs |-> IF TreeStatus[t] = "open" THEN "over" ELSE TreeStatus[t]]
      /\ TreeParent' = TreeParent
      /\ TreeOwn' = [t \in Txs |-> {}]
  BY <1>2, TreeMaps DEF TreeStatus, TreeParent, TreeOwn
<1>5. Tree!Finish(keep)
  BY <1>3, <1>4, TxAssumptions DEF Tree!Finish, TreeStatus, TreeParent, TreeOwn
<1> QED BY <1>5 DEF Tree!Next

LEMMA TreeEnd ==
  ASSUME Ready, Ready', DurableInv, InsideOut, (\E p \in Procs : EndRoot(p)) \/ Cancel
  PROVE  Tree!Next
<1> USE DEF Ready
<1>1. session = "active" /\ session' # "active" /\ log' = <<>> /\ UNCHANGED <<parent, by>>
  BY DEF EndRoot, Sends, Cancel
<1>2. CASE durable' = durable
  <2>1. durable = {}
    BY <1>1 DEF DurableInv
  <2> QED BY <1>1, <1>2, <2>1, TreeFinish
<1>3. ASSUME NEW p \in Procs, EndRoot(p), durable' = WritesIn(log) PROVE Tree!Next
  <2>1. on[p] = Root /\ pc[p] = "stmt"
    BY <1>3 DEF EndRoot, Sends
  <2>2. Tree!Innermost(Root) /\ \A x \in Nested : \A j : ~Marks(j, x)
    BY <1>1, <2>1, UsedTx
  <2>3. Own(Root) = {w \in DOMAIN by : Owns(Root, w)}
    BY OwnIs, TxAssumptions DEF OwnsEach
  <2>4. ASSUME NEW w PROVE w \in WritesIn(log) <=> w \in DOMAIN by /\ Owns(Root, w)
    <3>1. ASSUME w \in WritesIn(log) PROVE w \in DOMAIN by /\ Owns(Root, w)
      <4>1. PICK i \in DOMAIN log : log[i].w = w /\ w # 0
        BY <3>1 DEF WritesIn
      <4>2. PICK v \in DOMAIN by : Holds(i, v)
        BY <2>2, <4>1 DEF ShapeInv, Blank
      <4>3. v = w
        BY <4>1, <4>2 DEF Holds, Wrote
      <4>4. From(Root, 0) /\ 0 < i /\ 0 \in 0 .. Len(log) /\ i \in 0 .. Len(log)
        BY <4>1 DEF From, TypeOK
      <4>5. Unmarked(0, i)
        BY <2>2 DEF Unmarked
      <4> QED BY <4>2, <4>3, <4>4, <4>5 DEF Owns
    <3>2. ASSUME w \in DOMAIN by, Owns(Root, w) PROVE w \in WritesIn(log)
      <4>1. PICK i : Holds(i, w)
        BY <3>2 DEF Owns
      <4>2. i \in DOMAIN log /\ log[i].w = w /\ w # 0
        BY <3>2, <4>1 DEF Holds, Wrote, TypeOK
      <4> QED BY <4>2 DEF WritesIn
    <3> QED BY <3>1, <3>2
  <2>5. Own(Root) = WritesIn(log)
    BY <2>3, <2>4
  <2>6. durable' \in SUBSET Writes
    BY DEF TypeOK
  <2> QED BY <1>1, <1>3, <2>2, <2>5, <2>6, TreeFinish
<1> QED BY <1>2, <1>3 DEF EndRoot, Cancel

(* Used from the inside out, by one goroutine, the Tx values of a          *)
(* transaction are a tree of transactions, whatever statement fails and    *)
(* whenever the context is cancelled (core.go:123).                        *)
THEOREM IsATree == InsideOut => (Spec => ImplementsTxTree)
<1> SUFFICES ASSUME InsideOut PROVE Spec => ImplementsTxTree
  OBVIOUS
<1>1. Init => Tree!Init
  BY TreeInits
<1>2. ASSUME TypeOK, EndInv, TreeInv, TypeOK', EndInv', TreeInv', [Next]_vars
      PROVE  [Tree!Next]_Tree!vars
  <2>1. Ready /\ Ready' /\ DurableInv
    BY <1>2 DEF Ready, TreeInv
  <2>2. ASSUME NEW p \in Procs, BeginStmt(p) PROVE Tree!Next
    BY <2>1, <2>2, TreeBegin
  <2>3. ASSUME NEW p \in Procs, ExecStmt(p) PROVE Tree!Next
    BY <2>1, <2>3, TreeWrite
  <2>4. ASSUME NEW p \in Procs, CommitStmt(p) \/ ReleaseStmt(p) PROVE Tree!Next
    BY <2>1, <2>4, TreeMerge
  <2>5. ASSUME NEW p \in Procs, RollbackStmt(p) PROVE Tree!Next
    <3>1. on[p] \in Nested
      BY <1>2, <2>5 DEF RollbackStmt, Sends, EndInv, UseInv, Nested
    <3> QED BY <2>1, <2>5, <3>1, TreeUndo
  <2>6. ASSUME (\E p \in Procs : EndRoot(p)) \/ Cancel PROVE Tree!Next
    BY <2>1, <2>6, TreeEnd
  <2>7. ASSUME \/ \E p \in Procs : Call(p) \/ StmtFails(p) \/ EndRootTwice(p) \/ Close(p)
               \/ UNCHANGED vars
        PROVE  UNCHANGED Tree!vars
    <3>1. UNCHANGED <<log, session, parent, durable>>
      BY <2>7 DEF Call, StmtFails, EndRootTwice, Close, vars
    <3> QED BY <3>1, TreeStays
  <2> QED BY <1>2, <2>2, <2>3, <2>4, <2>5, <2>6, <2>7 DEF Next, Stmt
<1>3. /\ TypeOK /\ EndInv /\ TreeInv
      /\ TypeOK' /\ EndInv' /\ TreeInv'
      /\ [Next]_vars
      => [Tree!Next]_Tree!vars
  BY <1>2
<1> QED BY <1>1, <1>3, TreeInvariance, PTL DEF Spec, ImplementsTxTree, Tree!Spec
=============================================================================
