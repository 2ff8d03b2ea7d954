------------------------- MODULE PluginChainProofs --------------------------
(***************************************************************************)
(* Proofs about PluginChain, for every number of calls and plugins and     *)
(* everything that may go wrong in them.                                   *)
(***************************************************************************)
EXTENDS PluginChain, SequenceTheorems, TLAPS

USE ChainAssumptions DEF EnvKinds

Hook == [plugin : Plugins, err : BOOLEAN]

-----------------------------------------------------------------------------
(* The inductive invariant: what the place of a call says of its hooks.    *)

HooksBefore(c) ==
  /\ pc[c] \in {"idle", "bind"} => before[c] = <<>>
  /\ pc[c] = "before" => ix[c] = Len(before[c]) + 1
  /\ pc[c] = "query" \/ ret[c] = "ok" => Len(before[c]) = Len(chain[c])
  /\ Len(before[c]) <= Len(chain[c])
  /\ \A i \in 1 .. Len(before[c]) : before[c][i] = chain[c][i]

HooksAfter(c) ==
  /\ pc[c] \in {"idle", "bind", "before", "query", "rows"} => after[c] = <<>>
  /\ pc[c] \in {"rows", "after"} => ix[c] + Len(after[c]) = Len(chain[c])
  /\ pc[c] = "done" => Len(after[c]) = Len(chain[c])
  /\ Len(after[c]) <= Len(chain[c])
  /\ \A i \in 1 .. Len(after[c]) :
       after[c][i].plugin = chain[c][Len(chain[c]) + 1 - i]

Outcome(c) ==
  /\ pc[c] \in {"idle", "bind", "before", "query"} => ret[c] = None /\ ~err[c]
  /\ pc[c] \in {"rows", "after", "done"} =>
       /\ ret[c] \in {"ok", "error"}
       /\ err[c] <=> ret[c] = "error"
       /\ \A i \in 1 .. Len(after[c]) : after[c][i].err = err[c]

(* The first call closes the registration. *)
Registered == \A c \in Calls : pc[c] # "idle" => executed /\ chain[c] = registered

CallInv(c) == HooksBefore(c) /\ HooksAfter(c) /\ Outcome(c)
ChainInv == TypeOK /\ Registered /\ \A c \in Calls : CallInv(c)

-----------------------------------------------------------------------------
LEMMA ChainInit == Init => ChainInv
<1> SUFFICES ASSUME Init PROVE ChainInv
  OBVIOUS
<1>1. TypeOK /\ Registered
  BY EmptySeq DEF Init, TypeOK, Registered
<1>2. ASSUME NEW c \in Calls PROVE CallInv(c)
  <2>1. /\ pc[c] = "idle" /\ before[c] = <<>> /\ after[c] = <<>>
        /\ ret[c] = None /\ ~err[c] /\ chain[c] = <<>>
    BY DEF Init
  <2>2. Len(before[c]) = 0 /\ Len(after[c]) = 0 /\ Len(chain[c]) = 0
    BY <2>1, EmptySeq
  <2>3. QED
    BY <2>1, <2>2 DEF CallInv, HooksBefore, HooksAfter, Outcome
<1>3. QED
  BY <1>1, <1>2 DEF ChainInv

(* A step of a call leaves what belongs to the other calls alone. *)
LEMMA StepLocal ==
  ASSUME TypeOK, NEW c \in Calls, Step(c) \/ CloseRows(c)
  PROVE  /\ registered' = registered /\ executed' = executed
         /\ kind' = kind /\ chain' = chain
         /\ pc[c] # "idle"
         /\ \A d \in Calls \ {c} :
              /\ pc'[d] = pc[d] /\ ix'[d] = ix[d] /\ err'[d] = err[d]
              /\ ret'[d] = ret[d] /\ before'[d] = before[d] /\ after'[d] = after[d]
<1> USE DEF TypeOK, Goto
<1>1. CASE Bind(c)
  BY <1>1 DEF Bind, Fail
<1>2. CASE Before(c)
  BY <1>2 DEF Before, Fail
<1>3. CASE Query(c)
  BY <1>3 DEF Query, Fail
<1>4. CASE Panics(c) \/ Done(c) \/ CloseRows(c)
  BY <1>4 DEF Panics, Done, CloseRows
<1>5. CASE AfterHook(c)
  BY <1>5 DEF AfterHook
<1>6. QED
  BY <1>1, <1>2, <1>3, <1>4, <1>5 DEF Step

(* The rest of a call's state in its types, and the invariant of the call, *)
(* after one of its steps.                                                 *)
CallType(c) ==
  /\ pc[c] \in {"idle", "bind", "before", "query", "rows", "after", "done", "unwound"}
  /\ ix[c] \in Nat
  /\ err[c] \in BOOLEAN
  /\ ret[c] \in {"ok", "error", "panic", None}
  /\ before[c] \in Seq(Plugins)
  /\ after[c] \in Seq(Hook)

(* An error sends the call to its After hooks. *)
LEMMA FailKeeps ==
  ASSUME ChainInv, NEW c \in Calls, pc[c] \in {"bind", "before", "query"}, Fail(c),
         UNCHANGED <<chain, after>>, before'[c] \in Seq(Plugins),
         Len(before'[c]) <= Len(chain[c]),
         \A i \in 1 .. Len(before'[c]) : before'[c][i] = chain[c][i]
  PROVE  CallType(c)' /\ CallInv(c)'
<1> USE DEF ChainInv, TypeOK, Hook, Goto, Fail
<1>1. Len(chain[c]) \in Nat /\ after[c] = <<>> /\ Len(after[c]) = 0
  BY LenProperties, EmptySeq DEF CallInv, HooksAfter
<1>2. /\ pc'[c] = "after" /\ ix'[c] = Len(chain[c]) /\ err'[c] = TRUE
      /\ ret'[c] = "error" /\ after'[c] = <<>> /\ chain'[c] = chain[c]
  BY <1>1
<1>3. CallType(c)'
  BY <1>1, <1>2 DEF CallType
<1>4. QED
  BY <1>1, <1>2, <1>3 DEF CallInv, HooksBefore, HooksAfter, Outcome

LEMMA BeforeKeeps ==
  ASSUME ChainInv, NEW c \in Calls, Before(c)
  PROVE  CallType(c)' /\ CallInv(c)'
<1>0. /\ pc[c] = "before" /\ chain[c] \in Seq(Plugins) /\ before[c] \in Seq(Plugins)
      /\ Len(chain[c]) \in Nat /\ Len(before[c]) \in Nat
      /\ ix[c] = Len(before[c]) + 1 /\ after[c] = <<>> /\ Len(after[c]) = 0
      /\ ret[c] = None /\ ~err[c] /\ CallInv(c)
  BY LenProperties, EmptySeq DEF ChainInv, TypeOK, Before, CallInv, HooksBefore, HooksAfter, Outcome
<1>1. CASE ix[c] > Len(chain[c])
  <2>1. /\ pc'[c] = "query"
        /\ UNCHANGED <<registered, executed, kind, chain, ix, err, ret, before, after>>
    BY <1>0, <1>1 DEF Before, Goto, ChainInv, TypeOK
  <2>2. CallType(c)'
    BY <2>1 DEF CallType, Hook, ChainInv, TypeOK
  <2>3. QED
    BY <1>0, <1>1, <2>1, <2>2 DEF CallInv, HooksBefore, HooksAfter, Outcome
<1>2. CASE ix[c] <= Len(chain[c])
  <2>1. /\ before'[c] = Append(before[c], chain[c][ix[c]])
        /\ UNCHANGED <<chain, after>>
        /\ (ix' = [ix EXCEPT ![c] = @ + 1] /\ UNCHANGED <<pc, err, ret>>) \/ Fail(c)
    BY <1>0, <1>2 DEF Before, ChainInv, TypeOK
  <2>2. chain[c][ix[c]] \in Plugins
    BY <1>0, <1>2, ElementOfSeq
  <2>3. /\ before'[c] \in Seq(Plugins) /\ Len(before'[c]) = Len(before[c]) + 1
        /\ \A i \in 1 .. Len(before[c]) : before'[c][i] = before[c][i]
        /\ before'[c][Len(before[c]) + 1] = chain[c][ix[c]]
    BY <1>0, <2>1, <2>2, AppendProperties
  <2>4. /\ Len(before'[c]) <= Len(chain[c])
        /\ \A i \in 1 .. Len(before'[c]) : before'[c][i] = chain[c][i]
    <3>1. \A i \in 1 .. Len(before[c]) : before[c][i] = chain[c][i]
      BY <1>0 DEF CallInv, HooksBefore
    <3>2. \A i \in 1 .. Len(before[c]) + 1 : i \in 1 .. Len(before[c]) \/ i = Len(before[c]) + 1
      BY <1>0
    <3>3. QED
      BY <1>0, <1>2, <2>3, <3>1, <3>2
  <2>5. CASE Fail(c)
    BY <1>0, <2>1, <2>3, <2>4, <2>5, FailKeeps
  <2>6. CASE ix' = [ix EXCEPT ![c] = @ + 1] /\ UNCHANGED <<pc, err, ret>>
    <3>1. /\ pc'[c] = "before" /\ ix'[c] = ix[c] + 1 /\ err'[c] = err[c] /\ ret'[c] = ret[c]
          /\ chain'[c] = chain[c] /\ after'[c] = after[c]
      BY <1>0, <2>1, <2>6 DEF ChainInv, TypeOK
    <3>2. CallType(c)'
      BY <1>0, <2>3, <3>1 DEF CallType, Hook, ChainInv, TypeOK
    <3>3. QED
      BY <1>0, <2>3, <2>4, <3>1, <3>2 DEF CallInv, HooksBefore, HooksAfter, Outcome
  <2>7. QED
    BY <2>1, <2>5, <2>6
<1>3. QED
  BY <1>0, <1>1, <1>2

LEMMA AfterHookKeeps ==
  ASSUME ChainInv, NEW c \in Calls, AfterHook(c)
  PROVE  CallType(c)' /\ CallInv(c)'
<1>0. /\ pc[c] = "after" /\ ix[c] > 0 /\ ix[c] \in Nat /\ err[c] \in BOOLEAN
      /\ chain[c] \in Seq(Plugins) /\ after[c] \in Seq(Hook)
      /\ Len(chain[c]) \in Nat /\ Len(after[c]) \in Nat
      /\ ix[c] + Len(after[c]) = Len(chain[c])
      /\ CallInv(c)
  BY LenProperties DEF ChainInv, TypeOK, AfterHook, CallInv, HooksAfter, Hook
<1> DEFINE e == [plugin |-> chain[c][ix[c]], err |-> err[c]]
<1>1. /\ after'[c] = Append(after[c], e)
      /\ UNCHANGED <<registered, executed, kind, chain, err, before>>
      /\ \/ pc'[c] = "after" /\ ix'[c] = ix[c] - 1 /\ ret'[c] = ret[c]
         \/ pc'[c] = "unwound" /\ ix'[c] = ix[c] /\ ret'[c] = "panic"
  BY <1>0 DEF AfterHook, Goto, ChainInv, TypeOK
<1>2. e \in Hook
  BY <1>0, ElementOfSeq DEF Hook
<1>3. e.plugin = chain[c][ix[c]] /\ e.err = err[c]
  OBVIOUS
<1> HIDE DEF e
<1>4. /\ after'[c] \in Seq(Hook) /\ Len(after'[c]) = Len(after[c]) + 1
      /\ \A i \in 1 .. Len(after[c]) : after'[c][i] = after[c][i]
      /\ after'[c][Len(after[c]) + 1] = e
  BY <1>0, <1>1, <1>2, AppendProperties
<1>5. CallType(c)'
  BY <1>0, <1>1, <1>4 DEF CallType, ChainInv, TypeOK
<1>6. HooksBefore(c)'
  BY <1>0, <1>1 DEF HooksBefore, CallInv
<1>7. HooksAfter(c)'
  <2>1. \A i \in 1 .. Len(after'[c]) : after'[c][i].plugin = chain[c][Len(chain[c]) + 1 - i]
    <3>1. \A i \in 1 .. Len(after[c]) : after[c][i].plugin = chain[c][Len(chain[c]) + 1 - i]
      BY <1>0 DEF HooksAfter, CallInv
    <3>2. Len(chain[c]) + 1 - (Len(after[c]) + 1) = ix[c]
      <4>1. \A x, y, z \in Nat : x + y = z => z + 1 - (y + 1) = x
        OBVIOUS
      <4>2. QED
        BY <1>0, <4>1
    <3>3. \A i \in 1 .. Len(after[c]) + 1 : i \in 1 .. Len(after[c]) \/ i = Len(after[c]) + 1
      BY <1>0
    <3>4. QED
      BY <1>3, <1>4, <3>1, <3>2, <3>3
  <2>2. QED
    <3>1. /\ pc'[c] \in {"after", "unwound"} /\ chain'[c] = chain[c]
          /\ pc'[c] = "after" => ix'[c] = ix[c] - 1
      BY <1>1
    <3>2. Len(after'[c]) <= Len(chain[c]) /\ ix[c] - 1 + Len(after'[c]) = Len(chain[c])
      <4>1. \A x, y, z \in Nat : x > 0 /\ x + y = z => y + 1 <= z /\ x - 1 + (y + 1) = z
        OBVIOUS
      <4>2. Len(after'[c]) = Len(after[c]) + 1
        BY <1>4
      <4>3. /\ Len(after[c]) + 1 <= Len(chain[c])
            /\ ix[c] - 1 + (Len(after[c]) + 1) = Len(chain[c])
        BY <1>0, <4>1
      <4>4. QED
        BY <4>2, <4>3
    <3>3. QED
      BY <2>1, <3>1, <3>2 DEF HooksAfter
<1>8. Outcome(c)'
  <2>1. \A i \in 1 .. Len(after'[c]) : after'[c][i].err = err[c]
    <3>1. \A i \in 1 .. Len(after[c]) : after[c][i].err = err[c]
      BY <1>0 DEF Outcome, CallInv
    <3>2. \A i \in 1 .. Len(after[c]) + 1 : i \in 1 .. Len(after[c]) \/ i = Len(after[c]) + 1
      BY <1>0
    <3>3. QED
      BY <1>3, <1>4, <3>1, <3>2
  <2>2. QED
    BY <1>0, <1>1, <2>1 DEF Outcome, CallInv
<1>9. QED
  BY <1>5, <1>6, <1>7, <1>8 DEF CallInv

(* A step of a call keeps what is known of the call. *)
LEMMA StepKeeps ==
  ASSUME ChainInv, NEW c \in Calls, Step(c) \/ CloseRows(c)
  PROVE  CallType(c)' /\ CallInv(c)'
<1> USE DEF ChainInv, TypeOK, Goto, Hook
<1>0. /\ chain[c] \in Seq(Plugins) /\ Len(chain[c]) \in Nat /\ CallInv(c)
      /\ before[c] \in Seq(Plugins) /\ Len(before[c]) \in Nat
      /\ after[c] \in Seq(Hook) /\ Len(after[c]) \in Nat /\ ix[c] \in Nat
      /\ (after[c] = <<>> => Len(after[c]) = 0) /\ (before[c] = <<>> => Len(before[c]) = 0)
  BY LenProperties, EmptySeq
<1>1. CASE Bind(c)
  <2>1. CASE Fail(c)
    BY <1>0, <1>1, <2>1, FailKeeps DEF Bind, CallInv, HooksBefore
  <2>2. CASE Goto(c, "before") /\ ix' = [ix EXCEPT ![c] = 1] /\ UNCHANGED <<err, ret>>
    <3>1. /\ pc'[c] = "before" /\ ix'[c] = 1 /\ pc[c] = "bind"
          /\ UNCHANGED <<chain, err, ret, before, after>>
      BY <1>1, <2>2 DEF Bind
    <3>2. QED
      BY <1>0, <3>1 DEF CallType, CallInv, HooksBefore, HooksAfter, Outcome
  <2>3. QED
    BY <1>1, <2>1, <2>2 DEF Bind
<1>2. CASE Before(c)
  BY <1>2, BeforeKeeps
<1>3. CASE Query(c)
  <2>1. CASE Fail(c)
    BY <1>0, <1>3, <2>1, FailKeeps DEF Query, CallInv, HooksBefore
  <2>2. CASE ~Fail(c)
    <3>1. /\ pc'[c] \in {"rows", "after"} /\ ix'[c] = Len(chain[c]) /\ pc[c] = "query"
          /\ ret'[c] = "ok" /\ UNCHANGED <<chain, err, before, after>>
      BY <1>3, <2>2 DEF Query
    <3>2. QED
      BY <1>0, <3>1 DEF CallType, CallInv, HooksBefore, HooksAfter, Outcome
  <2>3. QED
    BY <2>1, <2>2
<1>4. CASE Panics(c)
  <2>1. /\ pc'[c] = "unwound" /\ ret'[c] = "panic" /\ pc[c] \in {"bind", "before", "query"}
        /\ UNCHANGED <<chain, ix, err, before, after>>
    BY <1>4 DEF Panics
  <2>2. QED
    BY <1>0, <2>1 DEF CallType, CallInv, HooksBefore, HooksAfter, Outcome
<1>5. CASE AfterHook(c)
  BY <1>5, AfterHookKeeps
<1>6. CASE Done(c)
  <2>1. /\ pc'[c] = "done" /\ pc[c] = "after" /\ ix[c] = 0
        /\ UNCHANGED <<chain, ix, err, ret, before, after>>
    BY <1>6 DEF Done
  <2>2. QED
    BY <1>0, <2>1 DEF CallType, CallInv, HooksBefore, HooksAfter, Outcome
<1>7. CASE CloseRows(c)
  <2>1. /\ pc'[c] = "after" /\ pc[c] = "rows"
        /\ UNCHANGED <<chain, ix, err, ret, before, after>>
    BY <1>7 DEF CloseRows
  <2>2. QED
    BY <1>0, <2>1 DEF CallType, CallInv, HooksBefore, HooksAfter, Outcome
<1>8. QED
  BY <1>1, <1>2, <1>3, <1>4, <1>5, <1>6, <1>7 DEF Step

-----------------------------------------------------------------------------
LEMMA ChainNext == ChainInv /\ [Next]_vars => ChainInv'
<1> SUFFICES ASSUME ChainInv, [Next]_vars PROVE ChainInv'
  OBVIOUS
<1>1. ASSUME NEW p \in Plugins, Use(p) PROVE ChainInv'
  <2>1. UNCHANGED callVars /\ UNCHANGED executed
    BY <1>1 DEF Use
  <2>2. registered' \in Seq(Plugins)
    BY <1>1, AppendProperties DEF Use, ChainInv, TypeOK
  <2>3. Registered'
    BY <1>1, <2>1 DEF Use, ChainInv, Registered, callVars
  <2>4. \A c \in Calls : CallInv(c)'
    BY <2>1 DEF ChainInv, CallInv, HooksBefore, HooksAfter, Outcome, callVars
  <2>5. QED
    BY <2>1, <2>2, <2>3, <2>4 DEF ChainInv, TypeOK, callVars
<1>2. ASSUME NEW c \in Calls, Begin(c) PROVE ChainInv'
  <2> USE DEF ChainInv, TypeOK, Begin, Goto
  <2>1. TypeOK'
    BY <1>2
  <2>2. Registered'
    BY <1>2 DEF Registered
  <2>3. CallInv(c)'
    <3>1. /\ pc'[c] = "bind" /\ before'[c] = <<>> /\ after'[c] = <<>>
          /\ ret'[c] = None /\ ~err'[c] /\ chain'[c] = registered
      BY <1>2 DEF CallInv, HooksBefore, HooksAfter, Outcome
    <3>2. Len(chain'[c]) \in Nat /\ Len(before'[c]) = 0 /\ Len(after'[c]) = 0
      BY <3>1, LenProperties, EmptySeq
    <3>3. QED
      BY <3>1, <3>2 DEF CallInv, HooksBefore, HooksAfter, Outcome
  <2>4. ASSUME NEW d \in Calls \ {c} PROVE CallInv(d)'
    <3>1. /\ pc'[d] = pc[d] /\ chain'[d] = chain[d]
          /\ UNCHANGED <<ix, err, ret, before, after>>
      BY <1>2
    <3>2. QED
      BY <3>1 DEF CallInv, HooksBefore, HooksAfter, Outcome
  <2>5. QED
    BY <2>1, <2>2, <2>3, <2>4
<1>3. ASSUME NEW c \in Calls, Step(c) \/ CloseRows(c) PROVE ChainInv'
  <2>1. CallType(c)' /\ CallInv(c)'
    BY <1>3, StepKeeps
  <2>2. /\ registered' = registered /\ executed' = executed
        /\ kind' = kind /\ chain' = chain /\ pc[c] # "idle"
        /\ \A d \in Calls \ {c} :
             /\ pc'[d] = pc[d] /\ ix'[d] = ix[d] /\ err'[d] = err[d]
             /\ ret'[d] = ret[d] /\ before'[d] = before[d] /\ after'[d] = after[d]
    BY <1>3, StepLocal DEF ChainInv
  <2>3. \A d \in Calls : CallInv(d)'
    <3>1. ASSUME NEW d \in Calls \ {c} PROVE CallInv(d)'
      BY <2>2 DEF ChainInv, CallInv, HooksBefore, HooksAfter, Outcome
    <3>2. QED
      BY <2>1, <3>1
  <2>4. Registered'
    BY <2>2 DEF ChainInv, Registered
  <2>5. TypeOK'
    <3>1. /\ DOMAIN pc' = Calls /\ DOMAIN ix' = Calls /\ DOMAIN err' = Calls
          /\ DOMAIN ret' = Calls /\ DOMAIN before' = Calls /\ DOMAIN after' = Calls
          /\ pc' = [d \in Calls |-> pc'[d]] /\ ix' = [d \in Calls |-> ix'[d]]
          /\ err' = [d \in Calls |-> err'[d]] /\ ret' = [d \in Calls |-> ret'[d]]
          /\ before' = [d \in Calls |-> before'[d]] /\ after' = [d \in Calls |-> after'[d]]
      BY <1>3 DEF ChainInv, TypeOK, Step, Bind, Before, Query, Panics, AfterHook, Done,
                  CloseRows, Fail, Goto
    <3>2. \A d \in Calls :
            /\ pc'[d] \in {"idle", "bind", "before", "query", "rows", "after", "done", "unwound"}
            /\ ix'[d] \in Nat /\ err'[d] \in BOOLEAN
            /\ ret'[d] \in {"ok", "error", "panic", None}
            /\ before'[d] \in Seq(Plugins) /\ after'[d] \in Seq(Hook)
      BY <2>1, <2>2 DEF CallType, ChainInv, TypeOK, Hook
    <3>3. QED
      <4>1. before' \in [Calls -> Seq(Plugins)] /\ after' \in [Calls -> Seq(Hook)]
        BY <3>1, <3>2
      <4>2. /\ pc' \in [Calls -> {"idle", "bind", "before", "query", "rows", "after",
                                  "done", "unwound"}]
            /\ ix' \in [Calls -> Nat] /\ err' \in [Calls -> BOOLEAN]
            /\ ret' \in [Calls -> {"ok", "error", "panic", None}]
        BY <3>1, <3>2
      <4>3. QED
        BY <2>2, <4>1, <4>2 DEF ChainInv, TypeOK, Hook
  <2>6. QED
    BY <2>3, <2>4, <2>5 DEF ChainInv
<1>4. CASE UNCHANGED vars
  <2> USE DEF vars, callVars, ChainInv
  <2>1. TypeOK' /\ Registered'
    BY <1>4 DEF TypeOK, Registered
  <2>2. ASSUME NEW c \in Calls PROVE CallInv(c)'
    BY <1>4 DEF CallInv, HooksBefore, HooksAfter, Outcome
  <2>3. QED
    BY <2>1, <2>2
<1>5. QED
  BY <1>1, <1>2, <1>3, <1>4 DEF Next

LEMMA ChainCorrect == Spec => []ChainInv
  BY ChainInit, ChainNext, PTL DEF Spec

-----------------------------------------------------------------------------
(* Every variable keeps its type in every behaviour of the core. *)
THEOREM TypeCorrect == Spec => []TypeOK
<1>1. ChainInv => TypeOK
  BY DEF ChainInv
<1>2. QED
  BY <1>1, ChainCorrect, PTL

(* All the calls of a program see the same plugins (config.go:69, :80).    *)
THEOREM ChainIsShared == Spec => []OneChain
<1>1. ChainInv => OneChain
  BY DEF ChainInv, Registered, OneChain
<1>2. QED
  BY <1>1, ChainCorrect, PTL

(* The After hooks mirror the chain, and the Before hooks are a beginning  *)
(* of it, all of it when the statement was sent (core.go:242, :253).       *)
THEOREM HooksAreMirrored == Spec => []HooksMirrored
<1>1. ChainInv => HooksMirrored
  <2> SUFFICES ASSUME ChainInv, NEW c \in Calls
               PROVE  /\ before[c] = SubSeq(chain[c], 1, Len(before[c]))
                      /\ ret[c] = "ok" => before[c] = chain[c]
                      /\ Len(after[c]) <= Len(chain[c])
                      /\ \A i \in 1 .. Len(after[c]) :
                           after[c][i].plugin = chain[c][Len(chain[c]) + 1 - i]
                      /\ pc[c] = "done" => Len(after[c]) = Len(chain[c])
    BY DEF HooksMirrored
  <2>0. /\ before[c] \in Seq(Plugins) /\ chain[c] \in Seq(Plugins) /\ CallInv(c)
        /\ Len(before[c]) \in Nat /\ Len(chain[c]) \in Nat
    BY LenProperties DEF ChainInv, TypeOK
  <2>1. before[c] = SubSeq(chain[c], 1, Len(before[c]))
    <3> DEFINE s == SubSeq(chain[c], 1, Len(before[c]))
    <3>1. \A i \in 1 .. Len(before[c]) : chain[c][i] \in Plugins
      BY <2>0, ElementOfSeq DEF CallInv, HooksBefore
    <3>2. /\ s \in Seq(Plugins)
          /\ Len(s) = IF 1 <= Len(before[c]) THEN Len(before[c]) - 1 + 1 ELSE 0
          /\ \A i \in 1 .. Len(before[c]) - 1 + 1 : s[i] = chain[c][1 + i - 1]
      BY <2>0, <3>1, SubSeqProperties
    <3> HIDE DEF s
    <3>3. Len(s) = Len(before[c]) /\ \A i \in 1 .. Len(before[c]) : s[i] = chain[c][i]
      BY <2>0, <3>2
    <3>4. before[c] = s
      BY <2>0, <3>2, <3>3, SeqEqual DEF CallInv, HooksBefore
    <3>5. QED
      BY <3>4 DEF s
  <2>2. ret[c] = "ok" => before[c] = chain[c]
    BY <2>0, SeqEqual DEF CallInv, HooksBefore
  <2>3. QED
    BY <2>0, <2>1, <2>2 DEF CallInv, HooksAfter
<1>2. QED
  BY <1>1, ChainCorrect, PTL

(* The hooks are told what the call returns (core.go:281, :289, :381).     *)
THEOREM HooksAreTold == Spec => []HooksSeeOutcome
<1>1. ChainInv => HooksSeeOutcome
  BY DEF ChainInv, CallInv, Outcome, HooksSeeOutcome
<1>2. QED
  BY <1>1, ChainCorrect, PTL
=============================================================================
