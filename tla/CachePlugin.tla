---------------------------- MODULE CachePlugin -----------------------------
(***************************************************************************)
(* The cache plugin (cache/cache.go, cache/flight.go, cache/source.go) and *)
(* the execution flow of the core that drives it (core.go: execOp, getOp,  *)
(* selectOp, runBefore, runAfter).                                         *)
(*                                                                         *)
(* A call is one Get, Select or Exec, run by its own goroutine; calls run  *)
(* concurrently and interleave at every access to the store, to the flight *)
(* table and to the database.  The steps of a call, named by pc:           *)
(*                                                                         *)
(*   idle -> acquire -> leaderPeek -> release -> chain -> query -> after   *)
(*              ^  \                     |                     |           *)
(*              |   wait -> waiterPeek   +-> chain         unlock -> done  *)
(*              +---------------+                                          *)
(*                                                                         *)
(* The store is the atomic key-value store that the Store interface of     *)
(* cache/store.go promises, which may forget an entry at any time          *)
(* (expiration, eviction).  The database is external: for each key, which  *)
(* stands for one query, namespace and argument list, it holds the write   *)
(* that produced the present answer of the query.                          *)
(***************************************************************************)

CONSTANTS
  Calls,              \* the calls of a behaviour
  Keys,               \* logical cache keys, the values of computeKey
  Namespaces,         \* cache namespaces
  NS,                 \* NS[k] : the namespace key k was computed with
  MultiRow,           \* the keys whose query answers with several rows
  Requests,           \* what the calls may ask for
  Singleflight,       \* cacheConfig.singleflight
  InvalidateOnWrite,  \* cacheConfig.invalidateOnWrite
  Env,                \* what the surroundings may do, see EnvKinds
  None                \* absence of an entry, a recorder, a leader, ...

(***************************************************************************)
(* What may happen to a call besides success:                              *)
(*   bind    the query cannot be bound to its arguments                    *)
(*   before  the Before hook of another plugin returns an error            *)
(*   drop    the same, and it returns a nil context with the error         *)
(*   inject  the Before hook of another plugin supplies the rows           *)
(*   rewrap  the Before hook of another plugin replaces the row wrapper    *)
(*   panic   a hook, the driver or a scan destination panics               *)
(*   query   the driver returns an error                                   *)
(*   scan    scanning or closing the rows returns an error                 *)
(*   encode  a cell has a type the codec does not encode                   *)
(*   store   an operation of the store returns an error                    *)
(* and what may happen at any time:                                        *)
(*   forget  the store expires or evicts an entry                          *)
(*   api     the application calls InvalidateQuery, Flush, ...             *)
(***************************************************************************)
EnvKinds ==
  {"bind", "before", "drop", "inject", "rewrap", "panic",
   "query", "scan", "encode", "store", "forget", "api"}

(* A call as its options describe it (cacheOpts): cached is ~noCache, ns   *)
(* the namespace of WithInvalidateNamespace.  For an Exec, key is the      *)
(* query whose answer the statement changes.                               *)
Request ==
  [op     : {"Get", "Select", "Exec"},
   inTx   : BOOLEAN,
   key    : Keys,
   cached : BOOLEAN,
   ns     : Namespaces \cup {None}]

(* Rows as far as they can be told apart: the write they show, and how     *)
(* much of the answer they hold.  "by" is history: the call that read them *)
(* from the database.                                                      *)
Shapes == {"all", "first", "none"}

RowSet == [val : Calls \cup {None}, shape : Shapes, by : Calls]

PCs == {"idle", "acquire", "wait", "leaderPeek", "waiterPeek", "plainPeek",
        "release", "chain", "query", "after", "unlock", "done", "panicked"}

ASSUME CacheAssumptions ==
  /\ NS \in [Keys -> Namespaces]
  /\ MultiRow \subseteq Keys
  /\ Requests \subseteq Request
  /\ Singleflight \in BOOLEAN
  /\ InvalidateOnWrite \in BOOLEAN
  /\ Env \subseteq EnvKinds
  /\ None \notin Calls \cup Keys \cup Namespaces \cup RowSet \cup Request

VARIABLES
  pc,        \* pc[c] : where call c is
  req,       \* req[c] : what call c asked for
  waitOn,    \* waitOn[c] : the leader whose channel c waits on
  rows,      \* rows[c] : info.Rows before the query, the scanned rows after it
  rec,       \* rec[c] : the recorder in c's context, with what it recorded
  tap,       \* tap[c] : is the row wrapper in c's context the recording one?
  err,       \* err[c] : is info.Err set?
  flight,    \* flight[k] : the call registered in flight.calls
  closed,    \* the leaders whose channel is closed
  store,     \* store[k] : the entry of key k in the cache store
  db,        \* db[k] : the last committed write of key k's data
  dirty,     \* dirty[k] : the write of an open transaction
  committed, \* history. committed[k] : every value db[k] has had
  exposed    \* history, see OutdatedHolders and AfterExec

callVars == <<pc, req, waitOn, rows, rec, tap, err>>
flightVars == <<flight, closed>>
dbVars == <<db, dirty, committed>>
vars == <<callVars, flightVars, store, dbVars, exposed>>

key(c) == req[c].key
Goto(c, l) == pc' = [pc EXCEPT ![c] = l]

Init ==
  /\ pc = [c \in Calls |-> "idle"]
  /\ req = [c \in Calls |-> None]
  /\ waitOn = [c \in Calls |-> None]
  /\ rows = [c \in Calls |-> None]
  /\ rec = [c \in Calls |-> None]
  /\ tap = [c \in Calls |-> FALSE]
  /\ err = [c \in Calls |-> FALSE]
  /\ flight = [k \in Keys |-> None]
  /\ closed = {}
  /\ store = [k \in Keys |-> None]
  /\ db = [k \in Keys |-> None]
  /\ dirty = [k \in Keys |-> None]
  /\ committed = [k \in Keys |-> {None}]
  /\ exposed = {}

-----------------------------------------------------------------------------
(* The call enters the core and binds its arguments, then the plugin's     *)
(* Before hook decides whether the call concerns the cache.                *)

(* Mutant of Eligible: the test of info.InTx is forgotten. *)
EligibleInTx(r) == r.op \in {"Get", "Select"}

(* The test that Before and After share. *)
Eligible(r) == ~r.inTx /\ r.op \in {"Get", "Select"}

UsesCache(r) == Eligible(r) /\ r.cached

Start(c) ==
  /\ pc[c] = "idle"
  /\ \E r \in Requests :
       /\ req' = [req EXCEPT ![c] = r]
       /\ Goto(c, CASE ~UsesCache(r) -> "chain"
                    [] UsesCache(r) /\ Singleflight -> "acquire"
                    [] OTHER -> "plainPeek")
  /\ UNCHANGED <<waitOn, rows, rec, tap, err, flightVars, store, dbVars, exposed>>

(* bindForExec fails: no Before hook runs, but every After hook does. *)
BindFails(c) ==
  /\ "bind" \in Env
  /\ pc[c] = "idle"
  /\ \E r \in Requests : req' = [req EXCEPT ![c] = r]
  /\ err' = [err EXCEPT ![c] = TRUE]
  /\ Goto(c, "after")
  /\ UNCHANGED <<waitOn, rows, rec, tap, flightVars, store, dbVars, exposed>>

-----------------------------------------------------------------------------
(* flight.acquire, the wait function it returns, and flight.done.          *)

(* Mutant of Acquire: the table is not consulted. *)
AcquireAlways(c) ==
  /\ pc[c] = "acquire"
  /\ flight' = [flight EXCEPT ![key(c)] = c]
  /\ Goto(c, "leaderPeek")
  /\ UNCHANGED <<req, waitOn, rows, rec, tap, err, closed, store, dbVars, exposed>>

Acquire(c) ==
  /\ pc[c] = "acquire"
  /\ \/ /\ flight[key(c)] = None
        /\ flight' = [flight EXCEPT ![key(c)] = c]
        /\ Goto(c, "leaderPeek")
        /\ UNCHANGED waitOn
     \/ /\ flight[key(c)] # None
        /\ waitOn' = [waitOn EXCEPT ![c] = flight[key(c)]]
        /\ Goto(c, "wait")
        /\ UNCHANGED flight
  /\ UNCHANGED <<req, rows, rec, tap, err, closed, store, dbVars, exposed>>

Wake(c) ==
  /\ pc[c] = "wait"
  /\ waitOn[c] \in closed
  /\ Goto(c, "waiterPeek")
  /\ UNCHANGED <<req, waitOn, rows, rec, tap, err, flightVars, store, dbVars, exposed>>

(* Mutant of FlightDone: the waiters are not woken. *)
FlightDoneSilent(k) ==
  /\ flight' = [flight EXCEPT ![k] = None]
  /\ UNCHANGED closed

(* Mutant of FlightDone: the key is assumed to be registered. *)
FlightDoneBlind(k) ==
  /\ closed' = closed \cup {flight[k]}
  /\ flight' = [flight EXCEPT ![k] = None]

(* done closes the channel of whichever call is registered for the key. *)
FlightDone(k) ==
  IF flight[k] = None
  THEN UNCHANGED flightVars
  ELSE /\ closed' = closed \cup {flight[k]}
       /\ flight' = [flight EXCEPT ![k] = None]

-----------------------------------------------------------------------------
(* tryHit, and what Before makes of its answer. *)

Peeking(c) == pc[c] \in {"leaderPeek", "waiterPeek", "plainPeek"}

(* Mutant of Hit: a waiter that hits ends the flight as a leader does. *)
HitReleases(c) ==
  /\ Peeking(c)
  /\ store[key(c)] # None
  /\ rows' = [rows EXCEPT ![c] = store[key(c)]]
  /\ Goto(c, "release")
  /\ UNCHANGED <<req, waitOn, rec, tap, err, flightVars, store, dbVars, exposed>>

Hit(c) ==
  /\ Peeking(c)
  /\ store[key(c)] # None
  /\ rows' = [rows EXCEPT ![c] = store[key(c)]]
  /\ Goto(c, IF pc[c] = "leaderPeek" THEN "release" ELSE "chain")
  /\ UNCHANGED <<req, waitOn, rec, tap, err, flightVars, store, dbVars, exposed>>

Blank(c) == [val |-> None, shape |-> "none", by |-> c]

(* Mutant of Miss: a waiter that misses goes to the database. *)
MissNoCompete(c) ==
  /\ Peeking(c)
  /\ store[key(c)] = None \/ "store" \in Env
  /\ Goto(c, "chain")
  /\ rec' = [rec EXCEPT ![c] = Blank(c)]
  /\ tap' = [tap EXCEPT ![c] = TRUE]
  /\ UNCHANGED <<req, waitOn, rows, err, flightVars, store, dbVars, exposed>>

Miss(c) ==
  /\ Peeking(c)
  /\ store[key(c)] = None \/ "store" \in Env
  /\ \/ /\ pc[c] = "waiterPeek"
        /\ Goto(c, "acquire")
        /\ UNCHANGED <<rec, tap>>
     \/ /\ pc[c] # "waiterPeek"
        /\ Goto(c, "chain")
        /\ rec' = [rec EXCEPT ![c] = Blank(c)]
        /\ tap' = [tap EXCEPT ![c] = TRUE]
  /\ UNCHANGED <<req, waitOn, rows, err, flightVars, store, dbVars, exposed>>

Release(c) ==
  /\ pc[c] = "release"
  /\ FlightDone(key(c))
  /\ Goto(c, "chain")
  /\ UNCHANGED <<req, waitOn, rows, rec, tap, err, store, dbVars, exposed>>

-----------------------------------------------------------------------------
(* The Before hooks of the other plugins of the chain. *)

ChainPasses(c) ==
  /\ pc[c] = "chain"
  /\ Goto(c, "query")
  /\ UNCHANGED <<req, waitOn, rows, rec, tap, err, flightVars, store, dbVars, exposed>>

(* A hook sets info.Rows: the core will not query.  (Exec ignores it.) *)
ChainInjects(c) ==
  /\ "inject" \in Env
  /\ pc[c] = "chain"
  /\ req[c].op # "Exec"
  /\ rows' = [rows EXCEPT ![c] = [val |-> db[key(c)], shape |-> "all", by |-> c]]
  /\ Goto(c, "query")
  /\ UNCHANGED <<req, waitOn, rec, tap, err, flightVars, store, dbVars, exposed>>

(* A hook calls WithRowWrapper: the context holds one wrapper, the last. *)
ChainRewraps(c) ==
  /\ "rewrap" \in Env
  /\ pc[c] = "chain"
  /\ tap' = [tap EXCEPT ![c] = FALSE]
  /\ Goto(c, "query")
  /\ UNCHANGED <<req, waitOn, rows, rec, err, flightVars, store, dbVars, exposed>>

(* Mutant of ChainFails: the core returns without the After hooks. *)
ChainFailsNoAfter(c) ==
  /\ "before" \in Env
  /\ pc[c] = "chain"
  /\ err' = [err EXCEPT ![c] = TRUE]
  /\ Goto(c, "done")
  /\ UNCHANGED <<req, waitOn, rows, rec, tap, flightVars, store, dbVars, exposed>>

(* A hook fails: the core runs the After hooks with the context it got     *)
(* from the hook.                                                          *)
ChainFails(c) ==
  /\ "before" \in Env
  /\ pc[c] = "chain"
  /\ err' = [err EXCEPT ![c] = TRUE]
  /\ Goto(c, "after")
  /\ UNCHANGED <<req, waitOn, rows, rec, tap, flightVars, store, dbVars, exposed>>

(* A hook fails with a nil context.  The After hook of the cache panics on *)
(* it, unless the call is an Exec; runAfter recovers, and the call returns *)
(* its error.                                                              *)
ChainDrops(c) ==
  /\ "drop" \in Env
  /\ pc[c] = "chain"
  /\ err' = [err EXCEPT ![c] = TRUE]
  /\ Goto(c, IF req[c].op = "Exec" THEN "after" ELSE "done")
  /\ UNCHANGED <<req, waitOn, rows, rec, tap, flightVars, store, dbVars, exposed>>

(* A panic unwinds the call: nothing in getOp, selectOp or execOp recovers *)
(* or is deferred, so no After hook runs.                                  *)
Panics(c) ==
  /\ "panic" \in Env
  /\ pc[c] \in {"chain", "query"}
  /\ Goto(c, "panicked")
  /\ UNCHANGED <<req, waitOn, rows, rec, tap, err, flightVars, store, dbVars, exposed>>

-----------------------------------------------------------------------------
(* The query, the scan of its rows, and the statement of an Exec. *)

(* scanOne reads the first row only, scanSlice reads them all. *)
Scanned(c, rs) ==
  IF req[c].op = "Get" /\ rs.shape = "all" /\ key(c) \in MultiRow
  THEN [rs EXCEPT !.shape = "first"]
  ELSE rs

(* The writes a query can see: the committed one, and inside a transaction *)
(* also the uncommitted one.                                               *)
Visible(c) ==
  {db[key(c)]} \cup
    (IF req[c].inTx /\ dirty[key(c)] # None THEN {dirty[key(c)]} ELSE {})

(* What the core scans: the rows a plugin supplied, else the query's.      *)
Sources(c) ==
  IF rows[c] # None
  THEN {rows[c]}
  ELSE {[val |-> v, shape |-> "all", by |-> c] : v \in Visible(c)}

(* Mutant of Fetch: the recorder keeps one row. *)
FetchRecordsOne(c) ==
  /\ pc[c] = "query"
  /\ req[c].op # "Exec"
  /\ \E rs \in Sources(c) :
       /\ rows' = [rows EXCEPT ![c] = Scanned(c, rs)]
       /\ rec' = IF tap[c] /\ rows[c] = None
                 THEN [rec EXCEPT ![c] = [rs EXCEPT !.shape = "first"]]
                 ELSE rec
       /\ err' = [err EXCEPT ![c] = req[c].op = "Get" /\ rs.shape = "none"]
  /\ Goto(c, "after")
  /\ UNCHANGED <<req, waitOn, tap, flightVars, store, dbVars, exposed>>

Fetch(c) ==
  /\ pc[c] = "query"
  /\ req[c].op # "Exec"
  /\ \E rs \in Sources(c) :
       /\ rows' = [rows EXCEPT ![c] = Scanned(c, rs)]
       /\ rec' = IF tap[c] /\ rows[c] = None
                 THEN [rec EXCEPT ![c] = Scanned(c, rs)]
                 ELSE rec
       /\ err' = [err EXCEPT ![c] = req[c].op = "Get" /\ rs.shape = "none"]
  /\ Goto(c, "after")
  /\ UNCHANGED <<req, waitOn, tap, flightVars, store, dbVars, exposed>>

FetchFails(c) ==
  /\ pc[c] = "query"
  /\ \/ "query" \in Env /\ (req[c].op = "Exec" \/ rows[c] = None)
     \/ "scan" \in Env /\ req[c].op # "Exec"
  /\ err' = [err EXCEPT ![c] = TRUE]
  /\ Goto(c, "after")
  /\ UNCHANGED <<req, waitOn, rows, rec, tap, flightVars, store, dbVars, exposed>>

(* The statement waits for the row lock an open transaction holds.  Inside *)
(* a transaction its effect is visible to others only after the commit.    *)
Write(c) ==
  /\ pc[c] = "query"
  /\ req[c].op = "Exec"
  /\ dirty[key(c)] = None
  /\ \/ /\ req[c].inTx
        /\ dirty' = [dirty EXCEPT ![key(c)] = c]
        /\ UNCHANGED <<db, committed>>
     \/ /\ ~req[c].inTx
        /\ db' = [db EXCEPT ![key(c)] = c]
        /\ committed' = [committed EXCEPT ![key(c)] = @ \cup {c}]
        /\ UNCHANGED dirty
  /\ Goto(c, "after")
  /\ UNCHANGED <<req, waitOn, rows, rec, tap, err, flightVars, store, exposed>>

Commit(k) ==
  /\ dirty[k] # None
  /\ pc[dirty[k]] = "done"
  /\ db' = [db EXCEPT ![k] = dirty[k]]
  /\ committed' = [committed EXCEPT ![k] = @ \cup {dirty[k]}]
  /\ dirty' = [dirty EXCEPT ![k] = None]
  /\ UNCHANGED <<callVars, flightVars, store, exposed>>

Rollback(k) ==
  /\ dirty[k] # None
  /\ pc[dirty[k]] = "done"
  /\ dirty' = [dirty EXCEPT ![k] = None]
  /\ UNCHANGED <<callVars, flightVars, store, db, committed, exposed>>

-----------------------------------------------------------------------------
(* The After hook. *)

(* Does After find a recorder to commit? *)
Commits(c) == Eligible(req[c]) /\ rec[c] # None

(* Mutant of AfterRead: flight.done is not deferred, so an error skips it. *)
AfterReadLeaks(c) ==
  /\ pc[c] = "after"
  /\ req[c].op # "Exec"
  /\ \/ /\ ~Commits(c) \/ err[c]
        /\ Goto(c, "done")
        /\ UNCHANGED store
     \/ /\ Commits(c)
        /\ ~err[c]
        /\ store' = [store EXCEPT ![key(c)] = rec[c]]
        /\ Goto(c, "unlock")
  /\ UNCHANGED <<req, waitOn, rows, rec, tap, err, flightVars, dbVars, exposed>>

(* The recording is committed when the call succeeded.  An error of the    *)
(* codec or of the store is ignored.                                       *)
AfterRead(c) ==
  /\ pc[c] = "after"
  /\ req[c].op # "Exec"
  /\ \/ /\ ~Commits(c)
        /\ Goto(c, "done")
        /\ UNCHANGED store
     \/ /\ Commits(c)
        /\ err[c] \/ Env \cap {"encode", "store"} # {}
        /\ Goto(c, "unlock")
        /\ UNCHANGED store
     \/ /\ Commits(c)
        /\ ~err[c]
        /\ store' = [store EXCEPT ![key(c)] = rec[c]]
        /\ Goto(c, "unlock")
  /\ UNCHANGED <<req, waitOn, rows, rec, tap, err, flightVars, dbVars, exposed>>

(* The deferred flight.done(rec.key). *)
Unlock(c) ==
  /\ pc[c] = "unlock"
  /\ FlightDone(key(c))
  /\ Goto(c, "done")
  /\ UNCHANGED <<req, waitOn, rows, rec, tap, err, store, dbVars, exposed>>

(* Does the After hook of an Exec with request r invalidate key k? *)
Invalidates(r, k) == InvalidateOnWrite \/ r.ns = NS[k]

(* The calls that will store rows they have read before the latest write.  *)
OutdatedHolders ==
  {c \in Calls :
     /\ pc[c] = "after"
     /\ ~err[c]
     /\ rec[c] # None
     /\ rec[c].val # db[key(c)]}

(* Mutant of AfterExec: the test of info.Err is there, the wrong way round. *)
AfterExecInverted(c) ==
  /\ pc[c] = "after"
  /\ req[c].op = "Exec"
  /\ store' = [k \in Keys |->
                 IF err[c] /\ Invalidates(req[c], k) THEN None ELSE store[k]]
  /\ exposed' = exposed \cup
       {h \in OutdatedHolders : Invalidates(req[c], key(h))}
  /\ Goto(c, "done")
  /\ UNCHANGED <<req, waitOn, rows, rec, tap, err, flightVars, dbVars>>

(* After on an Exec does not look at info.Err.  History: exposed collects  *)
(* the calls that are about to store rows which this invalidation cannot   *)
(* reach any more, and the writers whose invalidation the store refused.   *)
AfterExec(c) ==
  /\ pc[c] = "after"
  /\ req[c].op = "Exec"
  /\ \/ /\ store' = [k \in Keys |->
                       IF Invalidates(req[c], k) THEN None ELSE store[k]]
        /\ exposed' = exposed \cup
             {h \in OutdatedHolders : Invalidates(req[c], key(h))}
     \/ /\ "store" \in Env
        /\ exposed' = exposed \cup {c}
        /\ UNCHANGED store
  /\ Goto(c, "done")
  /\ UNCHANGED <<req, waitOn, rows, rec, tap, err, flightVars, dbVars>>

-----------------------------------------------------------------------------
(* The invalidation API, and the store forgetting. *)

Remove(ks) ==
  /\ store' = [k \in Keys |-> IF k \in ks THEN None ELSE store[k]]
  /\ UNCHANGED <<callVars, flightVars, dbVars, exposed>>

InvalidateQuery(k) == "api" \in Env /\ Remove({k})
InvalidateNamespace(n) == "api" \in Env /\ Remove({k \in Keys : NS[k] = n})
Flush == "api" \in Env /\ Remove(Keys)
Forget(k) == "forget" \in Env /\ Remove({k})

-----------------------------------------------------------------------------
(* The steps a goroutine takes by itself once its call has started. *)
Step(c) ==
  \/ Acquire(c) \/ Wake(c) \/ Hit(c) \/ Miss(c) \/ Release(c)
  \/ ChainPasses(c) \/ ChainInjects(c) \/ ChainRewraps(c)
  \/ ChainFails(c) \/ ChainDrops(c) \/ Panics(c)
  \/ Fetch(c) \/ FetchFails(c) \/ Write(c)
  \/ AfterRead(c) \/ Unlock(c) \/ AfterExec(c)

Finished ==
  /\ \A c \in Calls : pc[c] \in {"done", "panicked"}
  /\ UNCHANGED vars

Next ==
  \/ \E c \in Calls : Start(c) \/ BindFails(c) \/ Step(c)
  \/ \E k \in Keys : Commit(k) \/ Rollback(k) \/ InvalidateQuery(k) \/ Forget(k)
  \/ \E n \in Namespaces : InvalidateNamespace(n)
  \/ Flush
  \/ Finished

Spec == Init /\ [][Next]_vars

(* The Go scheduler runs every goroutine that can run, and the driver      *)
(* answers; nothing obliges the application to start a call or to end a    *)
(* transaction.                                                            *)
FairSpec == Spec /\ \A c \in Calls : WF_vars(Step(c))

-----------------------------------------------------------------------------
(***************************************************************************)
(* Properties.                                                             *)
(***************************************************************************)

(* Every variable has its type. *)
TypeOK ==
  /\ pc \in [Calls -> PCs]
  /\ req \in [Calls -> Requests \cup {None}]
  /\ \A c \in Calls : pc[c] # "idle" => req[c] # None
  /\ waitOn \in [Calls -> Calls \cup {None}]
  /\ rows \in [Calls -> RowSet \cup {None}]
  /\ rec \in [Calls -> RowSet \cup {None}]
  /\ tap \in [Calls -> BOOLEAN]
  /\ err \in [Calls -> BOOLEAN]
  /\ flight \in [Keys -> Calls \cup {None}]
  /\ closed \subseteq Calls
  /\ store \in [Keys -> RowSet \cup {None}]
  /\ db \in [Keys -> Calls \cup {None}]
  /\ dirty \in [Keys -> Calls \cup {None}]
  /\ committed \in [Keys -> SUBSET (Calls \cup {None})]
  /\ exposed \subseteq Calls

(* c is between its miss as leader and the end of its After hook. *)
Recording(c) == rec[c] # None /\ pc[c] \in {"chain", "query", "after", "unlock"}

(* c must still call flight.done. *)
Leads(c) == pc[c] \in {"leaderPeek", "release"} \/ Recording(c)

(* Penetration protection: with singleflight, two calls never go to the    *)
(* database for the same key at the same time because of a cache miss,     *)
(* whatever fails meanwhile (cache.go:222, flight.go:20).                  *)
OneLoaderPerKey ==
  Singleflight =>
    \A c, d \in Calls :
      Recording(c) /\ Recording(d) /\ key(c) = key(d) => c = d

(* No lost wakeup: the channel a waiter waits on is closed or still        *)
(* registered, so whoever ends the flight of the key wakes it              *)
(* (flight.go:25 reads the channel under the lock that done takes).        *)
NoLostWakeup ==
  \A c \in Calls :
    pc[c] = "wait" => waitOn[c] \in closed \/ flight[key(c)] = waitOn[c]

(* The flight table holds no call that has ended: every leader that does   *)
(* not panic hands its key back, on the hit, the error, and the success    *)
(* path (cache.go:227, cache.go:272).                                      *)
NoOrphanFlight ==
  \A k \in Keys : flight[k] # None => Leads(flight[k]) /\ key(flight[k]) = k

(* flight.done closes whichever call is registered: it is called only when *)
(* that is the caller itself, so no step ends another call's flight.       *)
OnlyOwnerReleases ==
  [][\A k \in Keys :
       flight[k] # None /\ flight'[k] # flight[k] =>
         flight'[k] = None /\ pc[flight[k]] # pc'[flight[k]]]_vars

(* Isolation: what an open or rolled back transaction wrote never reaches  *)
(* the cache (cache.go:203 and :262 skip calls inside transactions).       *)
NoDirtyEntry ==
  \A k \in Keys :
    store[k] # None /\ store[k].shape # "none" => store[k].val \in committed[k]

(* Isolation seen from the callers: outside a transaction, what a call     *)
(* returns was committed, cached or not.                                   *)
ReadsCommitted ==
  \A c \in Calls :
    /\ pc[c] = "done" /\ ~err[c] /\ ~req[c].inTx
    /\ rows[c] # None /\ rows[c].shape # "none"
    => rows[c].val \in committed[key(c)]

(* With the data last written by w, the cache may legitimately be out of   *)
(* date for it: w does not invalidate the key, its After hook is still to  *)
(* run, it ran before the commit of w's transaction, or the store refused. *)
NotYetInvalidated(w, k) ==
  \/ ~Invalidates(req[w], k)
  \/ pc[w] = "after"
  \/ req[w].inTx
  \/ w \in exposed

(* Invalidation: an entry is out of date only while the invalidation of    *)
(* the latest write is still to come, or because a call that had read the  *)
(* old rows before the write stored them after the invalidation.           *)
StaleOnlyByOverlap ==
  \A k \in Keys :
    store[k] # None /\ store[k].shape # "none" /\ store[k].val # db[k] =>
      NotYetInvalidated(db[k], k) \/ store[k].by \in exposed

(* A call gets as much of the answer as it asked for. *)
Wanted(c) == IF req[c].op = "Get" /\ key(c) \in MultiRow THEN "first" ELSE "all"

(* Get and Select return the rows they ask for, hit or miss: "Select       *)
(* queries multiple rows and maps them" (core.go:102).                     *)
AnswersComplete ==
  \A c \in Calls :
    pc[c] = "done" /\ ~err[c] /\ req[c].op # "Exec" => rows[c].shape = Wanted(c)

(* The calls that are loading key k, and those that have stopped loading. *)
Loading(k) == {c \in Calls : Recording(c) /\ key(c) = k}
Loaded == {c \in Calls : rec[c] # None /\ ~Recording(c)}

Loader == INSTANCE SingleLoader WITH
            loading <- [k \in Keys |-> Loading(k)], loaded <- Loaded

(* The plugin implements the promise of singleflight: a call loads a key   *)
(* only while nobody else does, and no call loads twice (flight.go:24).    *)
ImplementsSingleLoader == Loader!Spec

(* A leader that fails without storing makes room for a new leader, and    *)
(* no Get or Select waits for ever (cache.go:236).                         *)
EveryReadReturns ==
  \A c \in Calls :
    pc[c] \in {"acquire", "wait"} ~> pc[c] \in {"done", "panicked"}
=============================================================================
