---------------------------- MODULE PluginChain -----------------------------
(***************************************************************************)
(* The execution flow of the core (core.go: execOp, queryOp, getOp,        *)
(* selectOp, runBefore, runAfter), the plugin chain it drives (config.go:  *)
(* addPlugins, begin), and the live rows of Query (plugin.go: Rows).       *)
(*                                                                         *)
(* Calls run in goroutines of their own; between two steps of a call       *)
(* another call may run, or the application may register plugins.  A read  *)
(* is a Get or a Select.                                                   *)
(***************************************************************************)
EXTENDS Naturals, Sequences, FiniteSets

CONSTANTS
  Calls,    \* the calls of a behaviour
  Plugins,  \* the plugins the application may register
  Env,      \* what may go wrong, see EnvKinds
  None

(* error: a hook, binding, the driver, or the scan returns an error.       *)
(* panic: one of them panics.  handler: the callback of                    *)
(* WithPluginErrorHandler panics whenever it is called.                    *)
EnvKinds == {"error", "panic", "handler"}

Kinds == {"Exec", "Read", "Query"}

ASSUME ChainAssumptions ==
  /\ Env \subseteq EnvKinds
  /\ None \notin Plugins \cup Kinds \cup {"ok", "error", "panic"}

VARIABLES
  registered,  \* config.plugins
  executed,    \* config.executed
  pc,          \* pc[c] : where call c is
  kind,        \* kind[c] : the operation
  chain,       \* chain[c] : the snapshot of the plugins
  ix,          \* ix[c] : the plugin whose hook comes next
  err,         \* err[c] : is info.Err set?
  ret,         \* ret[c] : how the call returned, None before
  before,      \* history. before[c] : the plugins whose Before has run
  after        \* history. after[c] : those whose After has, with info.Err

callVars == <<pc, kind, chain, ix, err, ret, before, after>>
vars == <<registered, executed, callVars>>

Init ==
  /\ registered = <<>>
  /\ executed = FALSE
  /\ pc = [c \in Calls |-> "idle"]
  /\ kind = [c \in Calls |-> None]
  /\ chain = [c \in Calls |-> <<>>]
  /\ ix = [c \in Calls |-> 0]
  /\ err = [c \in Calls |-> FALSE]
  /\ ret = [c \in Calls |-> None]
  /\ before = [c \in Calls |-> <<>>]
  /\ after = [c \in Calls |-> <<>>]

Goto(c, l) == pc' = [pc EXCEPT ![c] = l]

-----------------------------------------------------------------------------
(* Registration. *)

Unused(p) == \A i \in DOMAIN registered : registered[i] # p

(* Mutant of Use: executed is not looked at. *)
UseAnytime(p) ==
  /\ Unused(p)
  /\ registered' = Append(registered, p)
  /\ UNCHANGED <<executed, callVars>>

(* Once executed is set, Use returns ErrPluginRegisteredTooLate and changes *)
(* nothing.                                                                *)
Use(p) ==
  /\ Unused(p)
  /\ ~executed
  /\ registered' = Append(registered, p)
  /\ UNCHANGED <<executed, callVars>>

(* config.begin, at the top of every operation. *)
Begin(c) ==
  /\ pc[c] = "idle"
  /\ executed' = TRUE
  /\ chain' = [chain EXCEPT ![c] = registered]
  /\ \E k \in Kinds : kind' = [kind EXCEPT ![c] = k]
  /\ Goto(c, "bind")
  /\ UNCHANGED <<registered, ix, err, ret, before, after>>

-----------------------------------------------------------------------------
(* The operation. *)

(* Mutant of Fail: the hooks learn nothing of the error. *)
FailSilently(c) ==
  /\ "error" \in Env
  /\ Goto(c, "after")
  /\ ix' = [ix EXCEPT ![c] = Len(chain[c])]
  /\ ret' = [ret EXCEPT ![c] = "error"]
  /\ UNCHANGED err

(* An error of the main path: info.Err is set, all the After hooks run,    *)
(* and the call returns the error.                                         *)
Fail(c) ==
  /\ "error" \in Env
  /\ err' = [err EXCEPT ![c] = TRUE]
  /\ Goto(c, "after")
  /\ ix' = [ix EXCEPT ![c] = Len(chain[c])]
  /\ ret' = [ret EXCEPT ![c] = "error"]

Bind(c) ==
  /\ pc[c] = "bind"
  /\ \/ /\ Goto(c, "before")
        /\ ix' = [ix EXCEPT ![c] = 1]
        /\ UNCHANGED <<err, ret>>
     \/ Fail(c)
  /\ UNCHANGED <<registered, executed, kind, chain, before, after>>

(* runBefore, one hook at a time. *)
Before(c) ==
  /\ pc[c] = "before"
  /\ \/ /\ ix[c] > Len(chain[c])
        /\ Goto(c, "query")
        /\ UNCHANGED <<ix, err, ret, before>>
     \/ /\ ix[c] <= Len(chain[c])
        /\ before' = [before EXCEPT ![c] = Append(@, chain[c][ix[c]])]
        /\ \/ /\ ix' = [ix EXCEPT ![c] = @ + 1]
              /\ UNCHANGED <<pc, err, ret>>
           \/ Fail(c)
  /\ UNCHANGED <<registered, executed, kind, chain, after>>

(* The statement, or the query with the scan and the close of its rows.    *)
(* Query returns the live rows, and its After hooks wait for their Close.  *)
Query(c) ==
  /\ pc[c] = "query"
  /\ \/ /\ Goto(c, IF kind[c] = "Query" THEN "rows" ELSE "after")
        /\ ix' = [ix EXCEPT ![c] = Len(chain[c])]
        /\ ret' = [ret EXCEPT ![c] = "ok"]
        /\ UNCHANGED err
     \/ Fail(c)
  /\ UNCHANGED <<registered, executed, kind, chain, before, after>>

(* Nothing on the main path recovers from a panic, or runs hooks for it. *)
Panics(c) ==
  /\ "panic" \in Env
  /\ pc[c] \in {"bind", "before", "query"}
  /\ ret' = [ret EXCEPT ![c] = "panic"]
  /\ Goto(c, "unwound")
  /\ UNCHANGED <<registered, executed, kind, chain, ix, err, before, after>>

(* The first Close of the rows; sync.Once makes the others wait for it and *)
(* do nothing.                                                             *)
CloseRows(c) ==
  /\ pc[c] = "rows"
  /\ Goto(c, "after")
  /\ UNCHANGED <<registered, executed, kind, chain, ix, err, ret, before, after>>

-----------------------------------------------------------------------------
(* runAfter, one hook at a time, from the last plugin to the first. *)

(* Mutant of AfterHook: a panic of a hook ends the loop. *)
AfterHookStops(c) ==
  /\ pc[c] = "after"
  /\ ix[c] > 0
  /\ after' = [after EXCEPT ![c] = Append(@, [plugin |-> chain[c][ix[c]], err |-> err[c]])]
  /\ ix' = [ix EXCEPT ![c] = @ - 1]
  /\ \/ UNCHANGED pc
     \/ "panic" \in Env /\ Goto(c, "done")
  /\ UNCHANGED <<registered, executed, kind, chain, err, ret, before>>

(* A hook may succeed, fail or panic, and its error is reported.  The      *)
(* panic of a hook, or of the callback told of its error, is recovered and *)
(* reported in turn: when the callback panics again, that unwinds the call.*)
AfterHook(c) ==
  /\ pc[c] = "after"
  /\ ix[c] > 0
  /\ after' = [after EXCEPT ![c] = Append(@, [plugin |-> chain[c][ix[c]], err |-> err[c]])]
  /\ \/ /\ ix' = [ix EXCEPT ![c] = @ - 1]
        /\ UNCHANGED <<pc, ret>>
     \/ /\ "handler" \in Env
        /\ ret' = [ret EXCEPT ![c] = "panic"]
        /\ Goto(c, "unwound")
        /\ UNCHANGED ix
  /\ UNCHANGED <<registered, executed, kind, chain, err, before>>

Done(c) ==
  /\ pc[c] = "after"
  /\ ix[c] = 0
  /\ Goto(c, "done")
  /\ UNCHANGED <<registered, executed, kind, chain, ix, err, ret, before, after>>

-----------------------------------------------------------------------------
Step(c) ==
  Bind(c) \/ Before(c) \/ Query(c) \/ Panics(c) \/ AfterHook(c) \/ Done(c)

Next ==
  \/ \E p \in Plugins : Use(p)
  \/ \E c \in Calls : Begin(c) \/ Step(c) \/ CloseRows(c)

Spec == Init /\ [][Next]_vars

-----------------------------------------------------------------------------
(***************************************************************************)
(* Properties.                                                             *)
(***************************************************************************)

(* Every variable has its type. *)
TypeOK ==
  /\ registered \in Seq(Plugins)
  /\ executed \in BOOLEAN
  /\ pc \in [Calls -> {"idle", "bind", "before", "query", "rows", "after",
                       "done", "unwound"}]
  /\ kind \in [Calls -> Kinds \cup {None}]
  /\ chain \in [Calls -> Seq(Plugins)]
  /\ ix \in [Calls -> Nat]
  /\ err \in [Calls -> BOOLEAN]
  /\ ret \in [Calls -> {"ok", "error", "panic", None}]
  /\ before \in [Calls -> Seq(Plugins)]
  /\ after \in [Calls -> Seq([plugin : Plugins, err : BOOLEAN])]

(* All the calls of the program see the same plugins: registration and the *)
(* first execution exclude each other (config.go:69, :80).                 *)
OneChain == \A c \in Calls : pc[c] # "idle" => chain[c] = registered

(* The Before hooks run in the order of registration, and the statement is *)
(* sent only when all of them have succeeded.  The After hook of every     *)
(* plugin runs exactly once, last plugin first, whatever the hooks before  *)
(* it did and however the call ended, unless a panic unwinds the call      *)
(* (core.go:242, :253, :287, plugin.go:124).                               *)
HooksMirrored ==
  \A c \in Calls :
    LET n == Len(chain[c])
        m == Len(after[c])
    IN  /\ before[c] = SubSeq(chain[c], 1, Len(before[c]))
        /\ ret[c] = "ok" => before[c] = chain[c]
        /\ m <= n
        /\ \A i \in 1 .. m : after[c][i].plugin = chain[c][n + 1 - i]
        /\ pc[c] = "done" => m = n

(* The hooks are told of an error exactly when the call returns one, and   *)
(* all are told the same (core.go:281, :289, :296, :381).                  *)
HooksSeeOutcome ==
  \A c \in Calls :
    pc[c] \in {"after", "done"} =>
      \A i \in 1 .. Len(after[c]) : after[c][i].err <=> ret[c] = "error"
=============================================================================
