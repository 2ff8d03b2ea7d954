------------------------- MODULE CachePluginProofs --------------------------
(***************************************************************************)
(* Proofs about CachePlugin, for every set of calls, keys, namespaces and  *)
(* requests, every configuration of the plugin and every surroundings.     *)
(***************************************************************************)
EXTENDS CachePlugin, TLAPS

USE CacheAssumptions DEF EnvKinds

-----------------------------------------------------------------------------
(* Type correctness. *)

(* The request of a call that has started is a request, about a key. *)
LEMMA RequestType ==
  ASSUME TypeOK, NEW c \in Calls, pc[c] # "idle"
  PROVE  req[c] \in Request /\ req[c] \in Requests /\ key(c) \in Keys
  BY DEF TypeOK, Request, key

(* Initially every variable has its type. *)
LEMMA TypeInit == Init => TypeOK
  BY DEF Init, TypeOK, PCs

(* What a call scans is a set of rows. *)
LEMMA SourcesType ==
  ASSUME TypeOK, NEW c \in Calls, pc[c] # "idle", NEW rs \in Sources(c)
  PROVE  rs \in RowSet /\ Scanned(c, rs) \in RowSet
<1>1. key(c) \in Keys
  BY RequestType
<1>2. rs \in RowSet
  <2>1. CASE rows[c] # None
    BY <2>1 DEF Sources, TypeOK
  <2>2. CASE rows[c] = None
    BY <1>1, <2>2 DEF Sources, Visible, TypeOK, RowSet, Shapes
  <2>3. QED
    BY <2>1, <2>2
<1>3. QED
  BY <1>2 DEF Scanned, RowSet, Shapes

(* Every step keeps the types. *)
LEMMA TypeNext == TypeOK /\ [Next]_vars => TypeOK'
<1> SUFFICES ASSUME TypeOK, [Next]_vars PROVE TypeOK'
  OBVIOUS
<1> USE DEF Goto, callVars, flightVars, dbVars
<1>1. ASSUME NEW c \in Calls, Start(c) PROVE TypeOK'
  BY <1>1 DEF Start, TypeOK, PCs
<1>2. ASSUME NEW c \in Calls, BindFails(c) PROVE TypeOK'
  BY <1>2 DEF BindFails, TypeOK, PCs
<1>3. ASSUME NEW c \in Calls, Step(c) PROVE TypeOK'
  <2>0. pc[c] # "idle"
    BY <1>3 DEF Step, Acquire, Wake, Hit, Miss, Peeking, Release, ChainPasses,
         ChainInjects, ChainRewraps, ChainFails, ChainDrops, Panics, Fetch,
         FetchFails, Write, AfterRead, Unlock, AfterExec
  <2>a. key(c) \in Keys /\ req[c] \in Request
    BY <2>0, RequestType
  <2>1. CASE Acquire(c)
    BY <2>a, <2>1 DEF Acquire, TypeOK, PCs
  <2>2. CASE Wake(c)
    BY <2>a, <2>2 DEF Wake, TypeOK, PCs
  <2>3. CASE Hit(c)
    BY <2>a, <2>3 DEF Hit, TypeOK, PCs
  <2>4. CASE Miss(c)
    <3>1. Blank(c) \in RowSet
      BY DEF Blank, RowSet, Shapes
    <3>2. CASE pc[c] = "waiterPeek"
      BY <2>0, <2>a, <2>4, <3>2 DEF Miss, TypeOK, PCs
    <3>3. CASE pc[c] # "waiterPeek"
      <4>1. /\ pc' = [pc EXCEPT ![c] = "chain"]
            /\ rec' = [rec EXCEPT ![c] = Blank(c)]
            /\ tap' = [tap EXCEPT ![c] = TRUE]
            /\ UNCHANGED <<req, waitOn, rows, err, flight, closed, store, db,
                           dirty, committed, exposed>>
        BY <2>4, <3>3 DEF Miss
      <4>2. QED
        BY <2>0, <2>a, <3>1, <4>1 DEF TypeOK, PCs
    <3>4. QED
      BY <3>2, <3>3
  <2>5. CASE Release(c)
    BY <2>0, <2>a, <2>5 DEF Release, FlightDone, TypeOK, PCs
  <2>6. CASE ChainPasses(c) \/ ChainRewraps(c) \/ ChainFails(c) \/ ChainDrops(c) \/ Panics(c)
    <3>1. CASE ChainPasses(c) \/ Panics(c)
      BY <3>1 DEF ChainPasses, Panics, TypeOK, PCs
    <3>2. CASE ChainRewraps(c)
      BY <3>2 DEF ChainRewraps, TypeOK, PCs
    <3>3. CASE ChainFails(c)
      BY <3>3 DEF ChainFails, TypeOK, PCs
    <3>4. CASE ChainDrops(c)
      BY <3>4 DEF ChainDrops, TypeOK, PCs
    <3>5. QED
      BY <2>6, <3>1, <3>2, <3>3, <3>4
  <2>7. CASE ChainInjects(c)
    BY <2>a, <2>7 DEF ChainInjects, RowSet, Shapes, TypeOK, PCs
  <2>8. CASE Fetch(c)
    <3>1. PICK rs \in Sources(c) :
            /\ rows' = [rows EXCEPT ![c] = Scanned(c, rs)]
            /\ rec' = IF tap[c] /\ rows[c] = None
                      THEN [rec EXCEPT ![c] = Scanned(c, rs)]
                      ELSE rec
            /\ err' = [err EXCEPT ![c] = req[c].op = "Get" /\ rs.shape = "none"]
      BY <2>8 DEF Fetch
    <3>2. Scanned(c, rs) \in RowSet
      BY <2>0, SourcesType
    <3>3. QED
      BY <2>8, <3>1, <3>2 DEF Fetch, TypeOK, PCs
  <2>9. CASE FetchFails(c)
    BY <2>a, <2>9 DEF FetchFails, TypeOK, PCs
  <2>10. CASE Write(c)
    <3>1. pc' \in [Calls -> PCs] /\ \A d \in Calls : pc'[d] # "idle" => req[d] # None
      BY <2>0, <2>10 DEF Write, TypeOK, PCs
    <3>2. /\ db' \in [Keys -> Calls \cup {None}]
          /\ dirty' \in [Keys -> Calls \cup {None}]
          /\ committed' \in [Keys -> SUBSET (Calls \cup {None})]
      BY <2>10 DEF Write, TypeOK
    <3>3. UNCHANGED <<req, waitOn, rows, rec, tap, err, flightVars, store, exposed>>
      BY <2>10 DEF Write
    <3>4. QED
      BY <2>a, <3>1, <3>2, <3>3 DEF TypeOK
  <2>11. CASE AfterRead(c)
    <3>1. pc' \in [Calls -> PCs] /\ \A d \in Calls : pc'[d] # "idle" => req[d] # None
      BY <2>0, <2>11 DEF AfterRead, TypeOK, PCs
    <3>2. \/ store' = store
          \/ rec[c] # None /\ store' = [store EXCEPT ![key(c)] = rec[c]]
      BY <2>11 DEF AfterRead, Commits
    <3>3. store' \in [Keys -> RowSet \cup {None}]
      BY <3>2 DEF TypeOK
    <3>4. UNCHANGED <<req, waitOn, rows, rec, tap, err, flightVars, dbVars, exposed>>
      BY <2>11 DEF AfterRead
    <3>5. QED
      BY <2>a, <3>1, <3>3, <3>4 DEF TypeOK
  <2>12. CASE Unlock(c)
    BY <2>a, <2>12 DEF Unlock, FlightDone, TypeOK, PCs
  <2>13. CASE AfterExec(c)
    BY <2>a, <2>13 DEF AfterExec, OutdatedHolders, TypeOK, PCs
  <2>14. QED
    BY <1>3, <2>1, <2>2, <2>3, <2>4, <2>5, <2>6, <2>7, <2>8, <2>9, <2>10,
       <2>11, <2>12, <2>13 DEF Step
<1>4. ASSUME NEW k \in Keys, Commit(k) \/ Rollback(k) PROVE TypeOK'
  BY <1>4 DEF Commit, Rollback, TypeOK
<1>5. ASSUME NEW ks \in SUBSET Keys, Remove(ks) PROVE TypeOK'
  BY <1>5 DEF Remove, TypeOK
<1>6. CASE UNCHANGED vars
  BY <1>6 DEF vars, TypeOK
<1>7. QED
  BY <1>1, <1>2, <1>3, <1>4, <1>5, <1>6
     DEF Next, Finished, InvalidateQuery, InvalidateNamespace, Flush, Forget

(* Every variable keeps its type in every behaviour of the plugin. *)
THEOREM TypeCorrect == Spec => []TypeOK
<1>1. Init => TypeOK
  BY TypeInit
<1>2. TypeOK /\ [Next]_vars => TypeOK'
  BY TypeNext
<1>3. QED
  BY <1>1, <1>2, PTL DEF Spec

-----------------------------------------------------------------------------
(* The flight invariant. *)

(* Where Before of the cache plugin keeps a call. *)
InFlightCode == {"acquire", "wait", "leaderPeek", "waiterPeek", "release"}
InBefore == InFlightCode \cup {"plainPeek"}

(* A recorder is created by a miss, for an eligible call, and the          *)
(* recording wrapper never without it.                                     *)
RecorderInv ==
  \A c \in Calls :
    /\ pc[c] \in InBefore \cup {"idle"} => rec[c] = None
    /\ pc[c] \in InBefore => Eligible(req[c])
    /\ tap[c] \/ pc[c] = "unlock" => rec[c] # None
    /\ rec[c] # None => Eligible(req[c])

(* Who must still hand a key back is the call registered for it.           *)
LeaderInv ==
  /\ \A c \in Calls : pc[c] \in InFlightCode => Singleflight
  /\ \A c \in Calls : pc[c] = "plainPeek" => ~Singleflight
  /\ Singleflight => \A c \in Calls : Leads(c) => flight[key(c)] = c

(* A waiter waits on a call, which is registered or has ended its flight.  *)
WaiterInv ==
  \A c \in Calls :
    pc[c] = "wait" => /\ waitOn[c] # None
                      /\ waitOn[c] \in closed \/ flight[key(c)] = waitOn[c]

FlightInv == TypeOK /\ RecorderInv /\ LeaderInv /\ WaiterInv

(* A step of a call that has started. *)
LEMMA StepStarted == ASSUME NEW c \in Calls, Step(c) PROVE pc[c] # "idle"
  BY DEF Step, Acquire, Wake, Hit, Miss, Peeking, Release, ChainPasses,
       ChainInjects, ChainRewraps, ChainFails, ChainDrops, Panics, Fetch,
       FetchFails, Write, AfterRead, Unlock, AfterExec

(* A step of a call leaves what belongs to the other calls alone. *)
LEMMA StepLocal ==
  ASSUME TypeOK, NEW c \in Calls, Step(c)
  PROVE  /\ req' = req
         /\ \A d \in Calls \ {c} :
              /\ pc'[d] = pc[d] /\ waitOn'[d] = waitOn[d] /\ rows'[d] = rows[d]
              /\ rec'[d] = rec[d] /\ tap'[d] = tap[d] /\ err'[d] = err[d]
<1> USE DEF Goto, callVars, flightVars, dbVars, TypeOK
<1>1. CASE Acquire(c) \/ Wake(c) \/ Hit(c) \/ Miss(c) \/ Release(c)
  BY <1>1 DEF Acquire, Wake, Hit, Miss, Release
<1>2. CASE ChainPasses(c) \/ ChainInjects(c) \/ ChainRewraps(c) \/ ChainFails(c)
           \/ ChainDrops(c) \/ Panics(c)
  BY <1>2 DEF ChainPasses, ChainInjects, ChainRewraps, ChainFails, ChainDrops, Panics
<1>3. CASE Fetch(c) \/ FetchFails(c) \/ Write(c)
  BY <1>3 DEF Fetch, FetchFails, Write
<1>4. CASE AfterRead(c) \/ Unlock(c) \/ AfterExec(c)
  BY <1>4 DEF AfterRead, Unlock, AfterExec
<1>5. QED
  BY <1>1, <1>2, <1>3, <1>4 DEF Step

(* The steps that no call takes leave the calls and the flights alone. *)
LEMMA OthersLocal ==
  ASSUME Next, ~ \E c \in Calls : Start(c) \/ BindFails(c) \/ Step(c)
  PROVE  UNCHANGED <<callVars, flightVars>>
  BY DEF Next, Commit, Rollback, InvalidateQuery, InvalidateNamespace, Flush,
       Forget, Remove, Finished, vars

(* Initially there is no recorder, no leader and no waiter. *)
LEMMA FlightInit == Init => FlightInv
<1> SUFFICES ASSUME Init PROVE FlightInv
  OBVIOUS
<1>1. TypeOK
  BY TypeInit
<1>2. RecorderInv /\ LeaderInv /\ WaiterInv
  BY DEF Init, RecorderInv, LeaderInv, WaiterInv, InBefore, InFlightCode,
       Leads, Recording
<1>3. QED
  BY <1>1, <1>2 DEF FlightInv

(* Every step keeps the recorders: only a miss creates one, and only for a *)
(* call that the cache serves.                                             *)
LEMMA RecorderNext ==
  ASSUME FlightInv, [Next]_vars PROVE RecorderInv'
<1> USE DEF Goto, callVars, flightVars, dbVars, TypeOK, InBefore, InFlightCode
<1>0. TypeOK /\ RecorderInv /\ LeaderInv
  BY DEF FlightInv
<1>1. ASSUME NEW c \in Calls, Start(c) PROVE RecorderInv'
  <2>1. PICK r \in Requests :
          /\ req' = [req EXCEPT ![c] = r]
          /\ pc' = [pc EXCEPT ![c] =
                      CASE ~UsesCache(r) -> "chain"
                        [] UsesCache(r) /\ Singleflight -> "acquire"
                        [] OTHER -> "plainPeek"]
    BY <1>1 DEF Start
  <2>2. pc'[c] \in InBefore => Eligible(r)
    BY <1>0, <2>1 DEF UsesCache
  <2>3. rec[c] = None /\ UNCHANGED <<rec, tap>>
    BY <1>0, <1>1 DEF Start, RecorderInv
  <2>4. QED
    BY <1>0, <2>1, <2>2, <2>3 DEF RecorderInv, Eligible
<1>2. ASSUME NEW c \in Calls, BindFails(c) PROVE RecorderInv'
  BY <1>0, <1>2 DEF BindFails, RecorderInv
<1>3. ASSUME NEW c \in Calls, Step(c) PROVE RecorderInv'
  <2>a. /\ req' = req
        /\ \A d \in Calls \ {c} : pc'[d] = pc[d] /\ rec'[d] = rec[d] /\ tap'[d] = tap[d]
    BY <1>0, <1>3, StepLocal
  <2>b. SUFFICES /\ pc'[c] \in InBefore \cup {"idle"} => rec'[c] = None
                 /\ pc'[c] \in InBefore => Eligible(req[c])
                 /\ tap'[c] \/ pc'[c] = "unlock" => rec'[c] # None
                 /\ rec'[c] # None => Eligible(req[c])
    BY <1>0, <2>a DEF RecorderInv, Eligible
  <2>1. CASE Acquire(c)
    BY <1>0, <2>1 DEF Acquire, RecorderInv
  <2>2. CASE Wake(c) \/ Hit(c) \/ Release(c)
    BY <1>0, <2>2 DEF Wake, Hit, Release, Peeking, RecorderInv
  <2>3. CASE Miss(c)
    <3>1. Blank(c) # None
      BY DEF Blank, RowSet, Shapes
    <3>2. Eligible(req[c]) /\ rec[c] = None /\ ~tap[c]
      BY <1>0, <2>3 DEF Miss, Peeking, RecorderInv
    <3>3. QED
      BY <1>0, <2>3, <3>1, <3>2 DEF Miss, Peeking, RecorderInv
  <2>4. CASE ChainPasses(c) \/ ChainInjects(c) \/ ChainRewraps(c) \/ ChainFails(c)
             \/ ChainDrops(c) \/ Panics(c)
    BY <1>0, <2>4 DEF ChainPasses, ChainInjects, ChainRewraps, ChainFails,
         ChainDrops, Panics, RecorderInv
  <2>5. CASE Fetch(c)
    <3>1. PICK rs \in Sources(c) :
            rec' = IF tap[c] /\ rows[c] = None
                   THEN [rec EXCEPT ![c] = Scanned(c, rs)]
                   ELSE rec
      BY <2>5 DEF Fetch
    <3>2. Scanned(c, rs) # None
      BY <1>0, <2>5, SourcesType DEF Fetch
    <3>3. QED
      BY <1>0, <2>5, <3>1, <3>2 DEF Fetch, RecorderInv
  <2>6. CASE FetchFails(c) \/ Write(c)
    BY <1>0, <2>6 DEF FetchFails, Write, RecorderInv
  <2>7. CASE AfterRead(c) \/ Unlock(c) \/ AfterExec(c)
    BY <1>0, <2>7 DEF AfterRead, Commits, Unlock, AfterExec, RecorderInv
  <2>8. QED
    BY <1>3, <2>1, <2>2, <2>3, <2>4, <2>5, <2>6, <2>7 DEF Step
<1>4. ASSUME UNCHANGED <<callVars, flightVars>> PROVE RecorderInv'
  BY <1>0, <1>4 DEF RecorderInv, Eligible
<1>5. QED
  BY <1>1, <1>2, <1>3, <1>4, OthersLocal DEF vars

(* The call that holds a key is the only one that still has to hand it     *)
(* back, so that ending its flight ends nobody else's.                     *)
LEMMA LeaderNext ==
  ASSUME FlightInv, [Next]_vars PROVE LeaderInv'
<1> USE DEF Goto, callVars, flightVars, dbVars, TypeOK, InBefore, InFlightCode
<1>0. TypeOK /\ RecorderInv /\ LeaderInv
  BY DEF FlightInv
<1>1. ASSUME NEW c \in Calls, Start(c) \/ BindFails(c) PROVE LeaderInv'
  <2>1. ~Leads(c)' /\ UNCHANGED <<flight, rec>>
    BY <1>0, <1>1 DEF Start, BindFails, RecorderInv, Leads, Recording
  <2>2. \A d \in Calls \ {c} : /\ pc'[d] = pc[d]
                               /\ Leads(d)' = Leads(d)
                               /\ key(d)' = key(d)
    BY <1>0, <1>1 DEF Start, BindFails, Leads, Recording, key
  <2>3. /\ pc'[c] \in InFlightCode => Singleflight
        /\ pc'[c] = "plainPeek" => ~Singleflight
    BY <1>0, <1>1 DEF Start, BindFails
  <2>4. QED
    BY <1>0, <2>1, <2>2, <2>3 DEF LeaderInv
<1>2. ASSUME NEW c \in Calls, Step(c) PROVE LeaderInv'
  <2>a. /\ \A d \in Calls \ {c} : pc'[d] = pc[d] /\ rec'[d] = rec[d]
        /\ req' = req
    BY <1>0, <1>2, StepLocal
  <2>b. \A d \in Calls : key(d)' = key(d)
    BY <2>a DEF key
  <2>c. \A d \in Calls \ {c} : Leads(d)' = Leads(d)
    BY <2>a DEF Leads, Recording
  <2>d. key(c) \in Keys
    BY <1>0, <1>2, StepStarted, RequestType
  <2>e. ASSUME UNCHANGED flight, Leads(c)' => Leads(c),
               pc'[c] \in InFlightCode => pc[c] \in InFlightCode,
               pc'[c] # "plainPeek"
        PROVE  LeaderInv'
    BY <1>0, <2>a, <2>b, <2>c, <2>e DEF LeaderInv
  <2>f. ASSUME FlightDone(key(c)), Leads(c), ~Leads(c)',
               pc'[c] \notin InBefore
        PROVE  LeaderInv'
    <3>1. ASSUME Singleflight, NEW d \in Calls, Leads(d)'
          PROVE  flight'[key(d)] = d
      <4>1. d # c /\ Leads(d) /\ flight[key(d)] = d /\ flight[key(c)] = c
        BY <1>0, <2>c, <2>f, <3>1 DEF LeaderInv
      <4>2. key(d) # key(c)
        BY <4>1
      <4>3. key(d) \in Keys
        BY <1>0, <4>1, RequestType DEF Leads, Recording
      <4>4. QED
        BY <1>0, <2>d, <2>f, <4>1, <4>2, <4>3 DEF FlightDone
    <3>2. QED
      BY <1>0, <2>a, <2>b, <2>f, <3>1 DEF LeaderInv
  <2>1. CASE Acquire(c)
    <3>1. CASE flight[key(c)] = None
      <4>1. /\ flight' = [flight EXCEPT ![key(c)] = c]
            /\ pc' = [pc EXCEPT ![c] = "leaderPeek"]
        BY <2>1, <3>1 DEF Acquire
      <4>2. pc[c] = "acquire" /\ Singleflight
        BY <1>0, <2>1 DEF Acquire, LeaderInv
      <4>3. ASSUME NEW d \in Calls, Leads(d)' PROVE flight'[key(d)] = d
        BY <1>0, <2>c, <2>d, <3>1, <4>1, <4>2, <4>3 DEF LeaderInv
      <4>4. QED
        BY <1>0, <2>a, <2>b, <4>1, <4>2, <4>3 DEF LeaderInv
    <3>2. CASE flight[key(c)] # None
      BY <1>0, <2>1, <2>e, <3>2 DEF Acquire, Leads, Recording, RecorderInv
    <3>3. QED
      BY <3>1, <3>2
  <2>2. CASE Wake(c)
    BY <1>0, <2>2, <2>e DEF Wake, Leads, Recording, RecorderInv
  <2>3. CASE Hit(c)
    BY <1>0, <2>3, <2>e DEF Hit, Peeking, Leads, Recording, RecorderInv
  <2>4. CASE Miss(c)
    <3>1. CASE pc[c] = "waiterPeek"
      BY <1>0, <2>4, <2>e, <3>1 DEF Miss, Leads, Recording, RecorderInv
    <3>2. CASE pc[c] = "leaderPeek"
      BY <1>0, <2>4, <2>e, <3>2 DEF Miss, Leads, Recording, RecorderInv
    <3>3. CASE pc[c] = "plainPeek"
      BY <1>0, <2>a, <2>4, <3>3 DEF Miss, LeaderInv
    <3>4. QED
      BY <2>4, <3>1, <3>2, <3>3 DEF Miss, Peeking
  <2>5. CASE Release(c)
    BY <1>0, <2>5, <2>f DEF Release, Leads, Recording, RecorderInv
  <2>6. CASE ChainPasses(c) \/ ChainInjects(c) \/ ChainRewraps(c) \/ ChainFails(c)
             \/ ChainDrops(c) \/ Panics(c)
    BY <1>0, <2>6, <2>e DEF ChainPasses, ChainInjects, ChainRewraps, ChainFails,
         ChainDrops, Panics, Leads, Recording
  <2>7. CASE Fetch(c)
    BY <1>0, <2>7, <2>e DEF Fetch, Leads, Recording, RecorderInv
  <2>8. CASE FetchFails(c) \/ Write(c) \/ AfterExec(c)
    BY <1>0, <2>8, <2>e DEF FetchFails, Write, AfterExec, Leads, Recording
  <2>9. CASE AfterRead(c)
    BY <1>0, <2>9, <2>e DEF AfterRead, Commits, RecorderInv, Leads, Recording
  <2>10. CASE Unlock(c)
    BY <1>0, <2>10, <2>f DEF Unlock, Leads, Recording, RecorderInv
  <2>11. QED
    BY <1>2, <2>1, <2>2, <2>3, <2>4, <2>5, <2>6, <2>7, <2>8, <2>9, <2>10 DEF Step
<1>3. ASSUME UNCHANGED <<callVars, flightVars>> PROVE LeaderInv'
  BY <1>0, <1>3 DEF LeaderInv, Leads, Recording, key
<1>4. QED
  BY <1>1, <1>2, <1>3, OthersLocal DEF vars

(* A waiter is woken whoever ends the flight of its key. *)
LEMMA WaiterNext ==
  ASSUME FlightInv, [Next]_vars PROVE WaiterInv'
<1> USE DEF Goto, callVars, flightVars, dbVars, TypeOK
<1>0. TypeOK /\ WaiterInv
  BY DEF FlightInv
<1>1. ASSUME NEW c \in Calls, Start(c) \/ BindFails(c) PROVE WaiterInv'
  BY <1>0, <1>1 DEF Start, BindFails, WaiterInv, key
<1>2. ASSUME NEW c \in Calls, Step(c) PROVE WaiterInv'
  <2>a. /\ \A d \in Calls \ {c} : pc'[d] = pc[d] /\ waitOn'[d] = waitOn[d]
        /\ \A d \in Calls : key(d)' = key(d)
    BY <1>0, <1>2, StepLocal DEF key
  <2>b. key(c) \in Keys
    BY <1>0, <1>2, StepStarted, RequestType
  <2>c. ASSUME UNCHANGED flightVars, pc'[c] # "wait" PROVE WaiterInv'
    BY <1>0, <2>a, <2>c DEF WaiterInv
  <2>d. ASSUME FlightDone(key(c)), pc'[c] # "wait" PROVE WaiterInv'
    <3>1. ASSUME NEW d \in Calls, pc'[d] = "wait"
          PROVE  /\ waitOn'[d] # None
                 /\ waitOn'[d] \in closed' \/ flight'[key(d)] = waitOn'[d]
      <4>1. d # c /\ pc[d] = "wait" /\ waitOn'[d] = waitOn[d]
        BY <2>a, <2>d, <3>1
      <4>2. /\ waitOn[d] # None
            /\ waitOn[d] \in closed \/ flight[key(d)] = waitOn[d]
        BY <1>0, <4>1 DEF WaiterInv
      <4>3. key(d) \in Keys
        BY <1>0, <4>1, RequestType
      <4>4. QED
        BY <1>0, <2>b, <2>d, <4>1, <4>2, <4>3 DEF FlightDone
    <3>2. QED
      BY <2>a, <3>1 DEF WaiterInv
  <2>1. CASE Acquire(c)
    <3>1. CASE flight[key(c)] = None
      <4>1. /\ flight' = [flight EXCEPT ![key(c)] = c]
            /\ UNCHANGED <<closed, waitOn>>
            /\ pc'[c] = "leaderPeek"
        BY <1>0, <2>1, <3>1 DEF Acquire
      <4>2. ASSUME NEW d \in Calls, pc'[d] = "wait"
            PROVE  /\ waitOn[d] # None
                   /\ waitOn[d] \in closed \/ flight'[key(d)] = waitOn[d]
        <5>1. pc[d] = "wait"
          BY <2>a, <4>1, <4>2
        <5>2. key(d) \in Keys
          BY <1>0, <5>1, RequestType
        <5>3. QED
          BY <1>0, <2>b, <3>1, <4>1, <5>1, <5>2 DEF WaiterInv
      <4>3. QED
        BY <2>a, <4>1, <4>2 DEF WaiterInv
    <3>2. CASE flight[key(c)] # None
      BY <1>0, <2>a, <2>1, <3>2 DEF Acquire, WaiterInv
    <3>3. QED
      BY <3>1, <3>2
  <2>2. CASE Wake(c) \/ Hit(c) \/ Miss(c)
    BY <1>0, <2>2, <2>c DEF Wake, Hit, Miss, Peeking
  <2>3. CASE Release(c) \/ Unlock(c)
    BY <1>0, <2>3, <2>d DEF Release, Unlock
  <2>4. CASE ChainPasses(c) \/ ChainInjects(c) \/ ChainRewraps(c) \/ ChainFails(c)
             \/ ChainDrops(c) \/ Panics(c)
    BY <1>0, <2>4, <2>c DEF ChainPasses, ChainInjects, ChainRewraps, ChainFails,
         ChainDrops, Panics
  <2>5. CASE Fetch(c) \/ FetchFails(c) \/ Write(c)
    BY <1>0, <2>5, <2>c DEF Fetch, FetchFails, Write
  <2>6. CASE AfterRead(c) \/ AfterExec(c)
    BY <1>0, <2>6, <2>c DEF AfterRead, AfterExec
  <2>7. QED
    BY <1>2, <2>1, <2>2, <2>3, <2>4, <2>5, <2>6 DEF Step
<1>3. ASSUME UNCHANGED <<callVars, flightVars>> PROVE WaiterInv'
  BY <1>0, <1>3 DEF WaiterInv, key
<1>4. QED
  BY <1>1, <1>2, <1>3, OthersLocal DEF vars

(* The flight invariant holds in every behaviour. *)
THEOREM FlightInvariant == Spec => []FlightInv
<1>1. Init => FlightInv
  BY FlightInit
<1>2. FlightInv /\ [Next]_vars => FlightInv'
  BY TypeNext, RecorderNext, LeaderNext, WaiterNext DEF FlightInv
<1>3. QED
  BY <1>1, <1>2, PTL DEF Spec

(* With singleflight, two calls never load the same key at the same time,  *)
(* even when hooks fail, panic, inject rows or replace the row wrapper.    *)
THEOREM SingleLoaderPerKey == Spec => []OneLoaderPerKey
<1>1. FlightInv => OneLoaderPerKey
  BY DEF FlightInv, LeaderInv, Leads, OneLoaderPerKey
<1>2. QED
  BY <1>1, FlightInvariant, PTL

(* No waiter waits on a channel that nobody can close any more.            *)
THEOREM WaitersCanWake == Spec => []NoLostWakeup
<1>1. FlightInv => NoLostWakeup
  BY DEF FlightInv, WaiterInv, NoLostWakeup
<1>2. QED
  BY <1>1, FlightInvariant, PTL

-----------------------------------------------------------------------------
(* The flights: nobody ends another call's flight, and none is orphaned.   *)

(* A step that changes the flight of a key ends it, and is a step of the   *)
(* call that was registered.                                               *)
LEMMA OwnerStep ==
  ASSUME Singleflight, FlightInv, [Next]_vars,
         NEW k \in Keys, flight[k] # None, flight'[k] # flight[k]
  PROVE  flight'[k] = None /\ pc[flight[k]] # pc'[flight[k]]
<1> USE DEF Goto, callVars, flightVars, dbVars, TypeOK
<1>0. TypeOK /\ RecorderInv /\ LeaderInv
  BY DEF FlightInv
<1>1. PICK c \in Calls : Start(c) \/ BindFails(c) \/ Step(c)
  BY OthersLocal DEF vars
<1>2. Step(c)
  BY <1>1 DEF Start, BindFails
<1>3. Acquire(c) \/ Release(c) \/ Unlock(c)
  BY <1>2 DEF Step, Wake, Hit, Miss, ChainPasses, ChainInjects, ChainRewraps,
       ChainFails, ChainDrops, Panics, Fetch, FetchFails, Write, AfterRead, AfterExec
<1>4. CASE Acquire(c)
  BY <1>0, <1>4, <1>2, StepStarted, RequestType DEF Acquire
<1>5. CASE Release(c) \/ Unlock(c)
  <2>1. Leads(c) /\ key(c) \in Keys
    BY <1>0, <1>2, <1>5, StepStarted, RequestType
       DEF Release, Unlock, Leads, Recording, RecorderInv
  <2>2. flight[key(c)] = c
    BY <1>0, <2>1 DEF LeaderInv
  <2>3. FlightDone(key(c)) /\ pc[c] # pc'[c]
    BY <1>0, <1>5 DEF Release, Unlock
  <2>4. k = key(c)
    BY <1>0, <2>1, <2>3 DEF FlightDone
  <2>5. QED
    BY <1>0, <2>1, <2>2, <2>3, <2>4 DEF FlightDone
<1>6. QED
  BY <1>3, <1>4, <1>5

(* flight.done is called by the leader of the key only.                    *)
THEOREM OwnersRelease == Singleflight => (Spec => OnlyOwnerReleases)
<1> SUFFICES ASSUME Singleflight PROVE Spec => OnlyOwnerReleases
  OBVIOUS
<1>1. FlightInv /\ [Next]_vars =>
        [\A k \in Keys :
           flight[k] # None /\ flight'[k] # flight[k] =>
             flight'[k] = None /\ pc[flight[k]] # pc'[flight[k]]]_vars
  BY OwnerStep
<1>2. QED
  BY <1>1, FlightInvariant, PTL DEF Spec, OnlyOwnerReleases

(* What the surroundings must not do for every leader to run After.        *)
NoUnwinding == Env \cap {"panic", "drop"} = {}

(* No step leaves behind the flight of a call that has ended, when no      *)
(* panic unwinds a call and no hook drops the context.                     *)
LEMMA OrphanNext ==
  ASSUME NoUnwinding, FlightInv, NoOrphanFlight, [Next]_vars
  PROVE  NoOrphanFlight'
<1> USE DEF Goto, callVars, flightVars, dbVars, TypeOK
<1>0. TypeOK /\ RecorderInv /\ LeaderInv
  BY DEF FlightInv
<1>1. ASSUME NEW c \in Calls, Start(c) \/ BindFails(c) PROVE NoOrphanFlight'
  <2>1. UNCHANGED flight /\ ~Leads(c)
    BY <1>0, <1>1 DEF Start, BindFails, Leads, Recording
  <2>2. \A d \in Calls \ {c} : Leads(d)' = Leads(d) /\ key(d)' = key(d)
    BY <1>0, <1>1 DEF Start, BindFails, Leads, Recording, key
  <2>3. QED
    BY <1>0, <2>1, <2>2 DEF NoOrphanFlight
<1>2. ASSUME NEW c \in Calls, Step(c) PROVE NoOrphanFlight'
  <2>a. /\ \A d \in Calls : key(d)' = key(d)
        /\ \A d \in Calls \ {c} : Leads(d)' = Leads(d)
    BY <1>0, <1>2, StepLocal DEF key, Leads, Recording
  <2>b. key(c) \in Keys
    BY <1>0, <1>2, StepStarted, RequestType
  <2>c. ASSUME UNCHANGED flight, Leads(c) => Leads(c)' PROVE NoOrphanFlight'
    BY <1>0, <2>a, <2>c DEF NoOrphanFlight
  <2>d. ASSUME FlightDone(key(c)) PROVE NoOrphanFlight'
    <3>1. ASSUME NEW k \in Keys, NEW d \in Calls, flight'[k] = d
          PROVE  Leads(d)' /\ key(d)' = k
      <4>1. flight[k] = d /\ k # key(c)
        BY <1>0, <2>b, <2>d, <3>1 DEF FlightDone
      <4>2. d # c /\ Leads(d) /\ key(d) = k
        BY <1>0, <4>1 DEF NoOrphanFlight
      <4>3. QED
        BY <2>a, <4>2
    <3>2. \A k \in Keys : flight'[k] \in Calls \cup {None}
      BY <1>0, <2>d DEF FlightDone
    <3>3. QED
      BY <3>1, <3>2 DEF NoOrphanFlight
  <2>1. CASE Acquire(c)
    <3>1. CASE flight[key(c)] = None
      <4>1. flight' = [flight EXCEPT ![key(c)] = c] /\ Leads(c)'
        BY <1>0, <2>1, <3>1 DEF Acquire, Leads
      <4>2. QED
        BY <1>0, <2>a, <2>b, <3>1, <4>1 DEF NoOrphanFlight
    <3>2. CASE flight[key(c)] # None
      BY <1>0, <2>1, <2>c, <3>2 DEF Acquire, Leads, Recording
    <3>3. QED
      BY <3>1, <3>2
  <2>2. CASE Wake(c)
    BY <1>0, <2>2, <2>c DEF Wake, Leads, Recording
  <2>3. CASE Hit(c)
    BY <1>0, <2>3, <2>c DEF Hit, Peeking, Leads, Recording
  <2>4. CASE Miss(c)
    <3>1. Blank(c) # None
      BY DEF Blank, RowSet, Shapes
    <3>2. QED
      BY <1>0, <2>4, <2>c, <3>1 DEF Miss, Peeking, Leads, Recording
  <2>5. CASE Release(c) \/ Unlock(c)
    BY <2>5, <2>d DEF Release, Unlock
  <2>6. CASE ChainPasses(c) \/ ChainInjects(c) \/ ChainRewraps(c) \/ ChainFails(c)
    BY <1>0, <2>6, <2>c DEF ChainPasses, ChainInjects, ChainRewraps, ChainFails,
         Leads, Recording
  <2>7. CASE ChainDrops(c) \/ Panics(c)
    BY <2>7 DEF ChainDrops, Panics, NoUnwinding
  <2>8. CASE Fetch(c)
    <3>1. PICK rs \in Sources(c) :
            rec' = IF tap[c] /\ rows[c] = None
                   THEN [rec EXCEPT ![c] = Scanned(c, rs)]
                   ELSE rec
      BY <2>8 DEF Fetch
    <3>2. Scanned(c, rs) # None
      BY <1>0, <2>8, SourcesType DEF Fetch
    <3>3. QED
      BY <1>0, <2>8, <2>c, <3>1, <3>2 DEF Fetch, Leads, Recording
  <2>9. CASE FetchFails(c) \/ Write(c)
    BY <1>0, <2>9, <2>c DEF FetchFails, Write, Leads, Recording
  <2>10. CASE AfterRead(c)
    BY <1>0, <2>10, <2>c DEF AfterRead, Commits, RecorderInv, Leads, Recording
  <2>11. CASE AfterExec(c)
    BY <1>0, <2>11, <2>c DEF AfterExec, Eligible, RecorderInv, Leads, Recording
  <2>12. QED
    BY <1>2, <2>1, <2>2, <2>3, <2>4, <2>5, <2>6, <2>7, <2>8, <2>9, <2>10, <2>11
       DEF Step
<1>3. ASSUME UNCHANGED <<callVars, flightVars>> PROVE NoOrphanFlight'
  BY <1>0, <1>3 DEF NoOrphanFlight, Leads, Recording, key
<1>4. QED
  BY <1>1, <1>2, <1>3, OthersLocal DEF vars

(* Unless a call is unwound by a panic, or a hook drops its context, every *)
(* leader hands its key back: the flight table holds only calls that are   *)
(* still on their way to flight.done.                                      *)
THEOREM NoFlightIsOrphaned == NoUnwinding => (Spec => []NoOrphanFlight)
<1> SUFFICES ASSUME NoUnwinding PROVE Spec => []NoOrphanFlight
  OBVIOUS
<1>1. Init => NoOrphanFlight
  BY DEF Init, NoOrphanFlight
<1>2. FlightInv /\ NoOrphanFlight /\ [Next]_vars => NoOrphanFlight'
  BY OrphanNext
<1>3. QED
  BY <1>1, <1>2, FlightInvariant, PTL DEF Spec

-----------------------------------------------------------------------------
(* The plugin implements SingleLoader. *)

(* Initially nobody is loading and nobody has loaded.                      *)
LEMMA LoaderInit == Init => Loader!Init
  BY DEF Init, Loader!Init, Loading, Loaded, Recording

(* A step of c in which c neither begins nor ends recording is a stutter.  *)
LEMMA LoaderStutter ==
  ASSUME TypeOK,
         \A d \in Calls : /\ Recording(d)' = Recording(d)
                          /\ Recording(d) => key(d)' = key(d)
                          /\ (rec'[d] # None) = (rec[d] # None)
  PROVE  UNCHANGED Loader!vars
  BY DEF Loader!vars, Loading, Loaded

(* Every step of the plugin begins a load, ends one, or does neither.      *)
LEMMA LoaderNext ==
  ASSUME Singleflight, FlightInv, [Next]_vars
  PROVE  [Loader!Next]_(Loader!vars)
<1> USE DEF Goto, callVars, flightVars, dbVars, TypeOK
<1>0. TypeOK /\ RecorderInv /\ LeaderInv
  BY DEF FlightInv
<1>1. ASSUME NEW c \in Calls, Start(c) \/ BindFails(c) PROVE UNCHANGED Loader!vars
  <2>1. \A d \in Calls : /\ Recording(d)' = Recording(d)
                         /\ Recording(d) => key(d)' = key(d)
                         /\ (rec'[d] # None) = (rec[d] # None)
    BY <1>0, <1>1 DEF Start, BindFails, Recording, RecorderInv, key, InBefore
  <2>2. QED
    BY <1>0, <2>1, LoaderStutter
<1>2. ASSUME NEW c \in Calls, Step(c) PROVE [Loader!Next]_(Loader!vars)
  <2>a. /\ \A d \in Calls : key(d)' = key(d)
        /\ \A d \in Calls \ {c} : Recording(d)' = Recording(d) /\ rec'[d] = rec[d]
    BY <1>0, <1>2, StepLocal DEF key, Recording
  <2>b. key(c) \in Keys
    BY <1>0, <1>2, StepStarted, RequestType
  <2>c. ASSUME Recording(c)' = Recording(c), (rec'[c] # None) = (rec[c] # None)
        PROVE  UNCHANGED Loader!vars
    BY <1>0, <2>a, <2>c, LoaderStutter
  <2>d. ASSUME Recording(c), ~Recording(c)', rec'[c] # None
        PROVE  Loader!EndLoad(c, key(c))
    <3>1. \A k \in Keys :
            Loading(k)' = IF k = key(c) THEN Loading(k) \ {c} ELSE Loading(k)
      BY <2>a, <2>d DEF Loading
    <3>2. Loaded' = Loaded \cup {c} /\ c \in Loading(key(c))
      BY <2>a, <2>d DEF Loaded, Loading
    <3>3. QED
      BY <2>b, <3>1, <3>2 DEF Loader!EndLoad
  <2>1. CASE Acquire(c) \/ Wake(c) \/ Hit(c) \/ Release(c)
    BY <1>0, <2>1, <2>c DEF Acquire, Wake, Hit, Release, Peeking, Recording,
         RecorderInv, InBefore, InFlightCode
  <2>2. CASE Miss(c)
    <3>1. CASE pc[c] = "waiterPeek"
      BY <1>0, <2>2, <2>c, <3>1 DEF Miss, Recording
    <3>2. CASE pc[c] = "leaderPeek"
      <4>1. ~Recording(c) /\ rec[c] = None
        BY <1>0, <3>2 DEF Recording, RecorderInv, InBefore, InFlightCode
      <4>2. Blank(c) # None
        BY DEF Blank, RowSet, Shapes
      <4>3. Recording(c)' /\ rec'[c] # None
        BY <1>0, <2>2, <3>2, <4>2 DEF Miss, Recording
      <4>4. \A d \in Calls : Recording(d) => key(d) # key(c)
        BY <1>0, <3>2, <4>1 DEF LeaderInv, Leads
      <4>5. Loader!BeginLoad(c, key(c))
        <5>1. \A k \in Keys :
                Loading(k)' = IF k = key(c) THEN {c} ELSE Loading(k)
          BY <2>a, <4>1, <4>3, <4>4 DEF Loading
        <5>2. Loaded' = Loaded /\ c \notin Loaded /\ Loading(key(c)) = {}
          BY <2>a, <4>1, <4>3, <4>4 DEF Loaded, Loading
        <5>3. QED
          BY <2>b, <5>1, <5>2 DEF Loader!BeginLoad
      <4>6. QED
        BY <2>b, <4>5 DEF Loader!Next
    <3>3. CASE pc[c] = "plainPeek"
      BY <1>0, <3>3 DEF LeaderInv
    <3>4. QED
      BY <2>2, <3>1, <3>2, <3>3 DEF Miss, Peeking
  <2>3. CASE ChainPasses(c) \/ ChainInjects(c) \/ ChainRewraps(c) \/ ChainFails(c)
    BY <1>0, <2>3, <2>c DEF ChainPasses, ChainInjects, ChainRewraps, ChainFails,
         Recording
  <2>4. CASE ChainDrops(c) \/ Panics(c)
    <3>1. rec'[c] = rec[c] /\ pc[c] \in {"chain", "query"}
      BY <1>0, <2>4 DEF ChainDrops, Panics
    <3>2. CASE Recording(c)
      <4>1. ~Recording(c)' /\ rec'[c] # None
        BY <1>0, <2>4, <3>1, <3>2 DEF ChainDrops, Panics, Recording, Eligible,
             RecorderInv
      <4>2. Loader!EndLoad(c, key(c))
        BY <2>d, <3>2, <4>1
      <4>3. QED
        BY <2>b, <4>2 DEF Loader!Next, Loader!EndLoad
    <3>3. CASE ~Recording(c)
      BY <2>c, <3>1, <3>3 DEF Recording
    <3>4. QED
      BY <3>2, <3>3
  <2>5. CASE Fetch(c)
    <3>1. PICK rs \in Sources(c) :
            rec' = IF tap[c] /\ rows[c] = None
                   THEN [rec EXCEPT ![c] = Scanned(c, rs)]
                   ELSE rec
      BY <2>5 DEF Fetch
    <3>2. Scanned(c, rs) # None /\ (tap[c] => rec[c] # None)
      BY <1>0, <2>5, SourcesType DEF Fetch, RecorderInv
    <3>3. QED
      BY <1>0, <2>5, <2>c, <3>1, <3>2 DEF Fetch, Recording
  <2>6. CASE FetchFails(c) \/ Write(c)
    BY <1>0, <2>6, <2>c DEF FetchFails, Write, Recording
  <2>7. CASE AfterRead(c)
    BY <1>0, <2>7, <2>c DEF AfterRead, Commits, RecorderInv, Recording
  <2>8. CASE Unlock(c)
    <3>1. Recording(c) /\ ~Recording(c)' /\ rec'[c] # None
      BY <1>0, <2>8 DEF Unlock, RecorderInv, Recording
    <3>2. Loader!EndLoad(c, key(c))
      BY <2>d, <3>1
    <3>3. QED
      BY <2>b, <3>2 DEF Loader!Next, Loader!EndLoad
  <2>9. CASE AfterExec(c)
    BY <1>0, <2>9, <2>c DEF AfterExec, Eligible, RecorderInv, Recording
  <2>10. QED
    BY <1>2, <2>1, <2>2, <2>3, <2>4, <2>5, <2>6, <2>7, <2>8, <2>9 DEF Step
<1>3. ASSUME UNCHANGED <<callVars, flightVars>> PROVE UNCHANGED Loader!vars
  BY <1>0, <1>3, LoaderStutter DEF Recording, key
<1>4. QED
  BY <1>1, <1>2, <1>3, OthersLocal DEF vars

(* With singleflight, every behaviour of the plugin is one in which each   *)
(* key is loaded by one call at a time and by a call at most once.         *)
THEOREM Refinement == Singleflight => (Spec => ImplementsSingleLoader)
<1> SUFFICES ASSUME Singleflight PROVE Spec => ImplementsSingleLoader
  OBVIOUS
<1>1. Init => Loader!Init
  BY LoaderInit
<1>2. FlightInv /\ [Next]_vars => [Loader!Next]_(Loader!vars)
  BY LoaderNext
<1>3. QED
  BY <1>1, <1>2, FlightInvariant, PTL DEF Spec, ImplementsSingleLoader, Loader!Spec

-----------------------------------------------------------------------------
(* Isolation. *)

(* Every value the cache, a recorder or a call outside transactions holds  *)
(* has been committed: if rs holds rows, they show one of the writes vs.   *)
Committed(rs, vs) == rs.shape # "none" => rs.val \in vs

DataInv ==
  /\ \A k \in Keys : db[k] \in committed[k]
  /\ \A k \in Keys : store[k] # None => Committed(store[k], committed[k])
  /\ \A c \in Calls :
       pc[c] # "idle" /\ rec[c] # None => Committed(rec[c], committed[key(c)])
  /\ \A c \in Calls :
       pc[c] # "idle" /\ ~req[c].inTx /\ rows[c] # None => Committed(rows[c], committed[key(c)])
  /\ \A c \in Calls : pc[c] = "idle" => rows[c] = None

IsolationInv == FlightInv /\ DataInv

(* The last write of a key is a statement that has been executed, and      *)
(* rows read before it are accounted for.                                  *)
WriterInv ==
  \A k \in Keys :
    /\ db[k] = None => committed[k] = {None}
    /\ db[k] # None => req[db[k]].op = "Exec" /\ pc[db[k]] \in {"after", "done"}
    /\ dirty[k] # None => /\ req[dirty[k]].op = "Exec"
                          /\ req[dirty[k]].inTx
                          /\ pc[dirty[k]] \in {"after", "done"}

(* An outdated value of key k is accounted for when it is stored by h.     *)
Excused(k, h) == NotYetInvalidated(db[k], k) \/ h \in exposed

(* h is about to store what it recorded.                                   *)
Holding(h) ==
  pc[h] = "after" /\ ~err[h] /\ rec[h] # None /\ rec[h].shape # "none"

HolderAccounted(h) ==
  Holding(h) /\ rec[h].val # db[key(h)] => Excused(key(h), h)

HolderInv ==
  \A c \in Calls :
    /\ rec[c] # None => rec[c].by = c
    /\ pc[c] \in {"chain", "query"} /\ rec[c] # None => rec[c].shape = "none"
    /\ HolderAccounted(c)

StaleInv == IsolationInv /\ WriterInv /\ HolderInv /\ StaleOnlyByOverlap
-----------------------------------------------------------------------------
(* Initially there are no rows, in the store or with a call.               *)
LEMMA IsolationInit == Init => IsolationInv
  BY FlightInit DEF Init, IsolationInv, DataInv

(* The rows of a scan outside transactions hold a committed write. *)
LEMMA ScannedCommitted ==
  ASSUME IsolationInv, NEW c \in Calls, pc[c] # "idle", ~req[c].inTx,
         NEW rs \in Sources(c)
  PROVE  Committed(Scanned(c, rs), committed[key(c)])
<1> USE DEF TypeOK
<1>0. TypeOK /\ DataInv /\ key(c) \in Keys
  BY RequestType DEF IsolationInv, FlightInv
<1>1. Committed(rs, committed[key(c)])
  <2>1. CASE rows[c] # None
    BY <1>0, <2>1 DEF Sources, DataInv
  <2>2. CASE rows[c] = None
    BY <1>0, <2>2 DEF Sources, Visible, DataInv, Committed
  <2>3. QED
    BY <2>1, <2>2
<1>2. rs \in RowSet
  BY <1>0, SourcesType
<1>3. QED
  BY <1>1, <1>2 DEF Scanned, Committed, RowSet, Shapes

(* What has been committed stays committed. *)
LEMMA CommittedGrows ==
  ASSUME TypeOK, [Next]_vars, NEW k \in Keys
  PROVE  committed[k] \subseteq committed'[k]
<1> USE DEF Goto, callVars, flightVars, dbVars, TypeOK
<1>1. ASSUME NEW c \in Calls, Start(c) \/ BindFails(c) PROVE UNCHANGED committed
  BY <1>1 DEF Start, BindFails
<1>2. ASSUME NEW c \in Calls, Step(c), ~Write(c) PROVE UNCHANGED committed
  BY <1>2 DEF Step, Acquire, Wake, Hit, Miss, Release, ChainPasses, ChainInjects,
       ChainRewraps, ChainFails, ChainDrops, Panics, Fetch, FetchFails,
       AfterRead, Unlock, AfterExec
<1>3. ASSUME NEW c \in Calls, Write(c) PROVE committed[k] \subseteq committed'[k]
  BY <1>3 DEF Write
<1>4. ASSUME NEW j \in Keys, Commit(j) \/ Rollback(j)
      PROVE  committed[k] \subseteq committed'[k]
  BY <1>4 DEF Commit, Rollback
<1>5. ASSUME NEW ks, Remove(ks) PROVE UNCHANGED committed
  BY <1>5 DEF Remove
<1>6. QED
  BY <1>1, <1>2, <1>3, <1>4, <1>5
     DEF Next, Finished, InvalidateQuery, InvalidateNamespace, Flush, Forget, vars

(* Every step keeps the store, and the calls outside transactions, to      *)
(* rows that were committed.                                               *)
LEMMA IsolationNext ==
  ASSUME IsolationInv, FlightInv', [Next]_vars PROVE DataInv'
<1> USE DEF Goto, callVars, flightVars, dbVars, TypeOK
<1>0. TypeOK /\ RecorderInv /\ DataInv /\ TypeOK'
  BY DEF IsolationInv, FlightInv
<1>g. \A k \in Keys : committed[k] \subseteq committed'[k]
  BY <1>0, CommittedGrows
<1>1. ASSUME NEW c \in Calls, Start(c) \/ BindFails(c) PROVE DataInv'
  <2>1. rows'[c] = None /\ rec'[c] = None /\ UNCHANGED <<rows, rec, store, db, committed>>
    BY <1>0, <1>1 DEF Start, BindFails, DataInv, RecorderInv
  <2>2. \A d \in Calls \ {c} : req'[d] = req[d] /\ key(d)' = key(d) /\ pc'[d] = pc[d]
    BY <1>0, <1>1 DEF Start, BindFails, key
  <2>3. pc'[c] # "idle"
    BY <1>0, <1>1 DEF Start, BindFails
  <2>4. QED
    BY <1>0, <2>1, <2>2, <2>3 DEF DataInv, Committed
<1>2. ASSUME NEW c \in Calls, Step(c) PROVE DataInv'
  <2>a. /\ req' = req
        /\ \A d \in Calls \ {c} : pc'[d] = pc[d] /\ rec'[d] = rec[d] /\ rows'[d] = rows[d]
    BY <1>0, <1>2, StepLocal
  <2>b. \A d \in Calls : key(d)' = key(d)
    BY <2>a DEF key
  <2>c. pc[c] # "idle" /\ key(c) \in Keys
    BY <1>0, <1>2, StepStarted, RequestType
  <2>i. pc'[c] # "idle"
    BY <1>0, <1>2 DEF Step, Acquire, Wake, Hit, Miss, Peeking, Release,
         ChainPasses, ChainInjects, ChainRewraps, ChainFails, ChainDrops,
         Panics, Fetch, FetchFails, Write, AfterRead, Unlock, AfterExec
  <2>d. ASSUME \A k \in Keys : db'[k] \in committed'[k],
               \A k \in Keys : store'[k] # None => Committed(store'[k], committed'[k]),
               rec'[c] # None => Committed(rec'[c], committed'[key(c)]),
               ~req[c].inTx /\ rows'[c] # None => Committed(rows'[c], committed'[key(c)])
        PROVE  DataInv'
    <3>1. \A rs \in RowSet, k \in Keys :
            Committed(rs, committed[k]) => Committed(rs, committed'[k])
      BY <1>g DEF Committed
    <3>2. ASSUME NEW d \in Calls, pc'[d] # "idle", rec'[d] # None
          PROVE  Committed(rec'[d], committed'[key(d)])
      <4>1. CASE d = c
        BY <2>d, <3>2, <4>1
      <4>2. CASE d # c
        <5>1. /\ pc[d] # "idle" /\ rec[d] # None
              /\ rec'[d] = rec[d] /\ rec[d] \in RowSet
          BY <1>0, <2>a, <3>2, <4>2
        <5>2. key(d) \in Keys /\ Committed(rec[d], committed[key(d)])
          BY <1>0, <5>1, RequestType DEF DataInv
        <5>3. QED
          BY <3>1, <5>1, <5>2
      <4>3. QED
        BY <4>1, <4>2
    <3>3. ASSUME NEW d \in Calls, pc'[d] # "idle", ~req[d].inTx, rows'[d] # None
          PROVE  Committed(rows'[d], committed'[key(d)])
      <4>1. CASE d = c
        BY <2>d, <3>3, <4>1
      <4>2. CASE d # c
        <5>1. /\ pc[d] # "idle" /\ rows[d] # None
              /\ rows'[d] = rows[d] /\ rows[d] \in RowSet
          BY <1>0, <2>a, <3>3, <4>2
        <5>2. key(d) \in Keys /\ Committed(rows[d], committed[key(d)])
          BY <1>0, <3>3, <5>1, RequestType DEF DataInv
        <5>3. QED
          BY <3>1, <5>1, <5>2
      <4>3. QED
        BY <4>1, <4>2
    <3>4. \A d \in Calls : pc'[d] = "idle" => rows'[d] = None
      BY <1>0, <2>a, <2>i DEF DataInv
    <3>5. QED
      BY <2>a, <2>b, <2>d, <3>2, <3>3, <3>4 DEF DataInv
  <2>e. ASSUME UNCHANGED <<store, db, rec, rows>> PROVE DataInv'
    BY <1>0, <1>g, <2>b, <2>c, <2>d, <2>e, <2>a DEF DataInv, Committed
  <2>1. CASE Acquire(c) \/ Wake(c) \/ Release(c)
    BY <2>1, <2>e DEF Acquire, Wake, Release
  <2>2. CASE Hit(c)
    BY <1>0, <1>g, <2>a, <2>b, <2>c, <2>d, <2>2 DEF Hit, DataInv, Committed
  <2>3. CASE Miss(c)
    <3>1. rec'[c] = rec[c] \/ rec'[c] = Blank(c)
      BY <1>0, <2>3 DEF Miss
    <3>2. QED
      BY <1>0, <1>g, <2>a, <2>b, <2>c, <2>d, <2>3, <3>1
         DEF Miss, Blank, DataInv, Committed
  <2>4. CASE ChainPasses(c) \/ ChainRewraps(c) \/ ChainFails(c) \/ ChainDrops(c)
             \/ Panics(c)
    BY <2>4, <2>e DEF ChainPasses, ChainRewraps, ChainFails, ChainDrops, Panics
  <2>5. CASE ChainInjects(c)
    BY <1>0, <1>g, <2>a, <2>b, <2>c, <2>d, <2>5 DEF ChainInjects, DataInv, Committed
  <2>6. CASE Fetch(c)
    <3>1. PICK rs \in Sources(c) :
            /\ rows' = [rows EXCEPT ![c] = Scanned(c, rs)]
            /\ rec' = IF tap[c] /\ rows[c] = None
                      THEN [rec EXCEPT ![c] = Scanned(c, rs)]
                      ELSE rec
      BY <2>6 DEF Fetch
    <3>2. ~req[c].inTx => Committed(Scanned(c, rs), committed[key(c)])
      BY <2>c, ScannedCommitted
    <3>3. UNCHANGED <<store, db, committed>>
      BY <2>6 DEF Fetch
    <3>4. rows'[c] = Scanned(c, rs) /\ rec'[c] \in {rec[c], Scanned(c, rs)}
      BY <1>0, <3>1
    <3>5. rec'[c] # None => ~req[c].inTx
      BY <1>0, <3>1 DEF RecorderInv, Eligible
    <3>6. ~req[c].inTx => Committed(rows'[c], committed'[key(c)])
      BY <2>b, <3>2, <3>3, <3>4 DEF Committed
    <3>7. rec'[c] # None => Committed(rec'[c], committed'[key(c)])
      BY <1>0, <2>b, <2>c, <3>2, <3>3, <3>4, <3>5 DEF Committed, DataInv
    <3>8. /\ \A k \in Keys : db'[k] \in committed'[k]
          /\ \A k \in Keys : store'[k] # None => Committed(store'[k], committed'[k])
      BY <1>0, <3>3 DEF Committed, DataInv
    <3>9. QED
      BY <2>d, <3>6, <3>7, <3>8
  <2>7. CASE FetchFails(c)
    BY <2>7, <2>e DEF FetchFails
  <2>8. CASE Write(c)
    <3>1. UNCHANGED <<store, rec, rows>>
      BY <2>8 DEF Write
    <3>2. \A k \in Keys : db'[k] \in committed'[k]
      BY <1>0, <2>c, <2>8 DEF Write, DataInv
    <3>3. QED
      BY <1>0, <1>g, <2>b, <2>c, <2>d, <2>a, <3>1, <3>2 DEF DataInv, Committed
  <2>9. CASE AfterRead(c)
    <3>1. UNCHANGED <<rec, rows, db, committed>>
      BY <2>9 DEF AfterRead
    <3>2. ASSUME NEW k \in Keys, store'[k] # None
          PROVE  Committed(store'[k], committed'[k])
      <4>1. \/ store' = store
            \/ rec[c] # None /\ store' = [store EXCEPT ![key(c)] = rec[c]]
        BY <2>9 DEF AfterRead, Commits
      <4>2. \/ store'[k] = store[k]
            \/ rec[c] # None /\ k = key(c) /\ store'[k] = rec[c]
        BY <1>0, <2>c, <4>1
      <4>3. CASE store'[k] = store[k]
        BY <1>0, <3>1, <3>2, <4>3 DEF DataInv
      <4>4. CASE rec[c] # None /\ k = key(c) /\ store'[k] = rec[c]
        BY <1>0, <2>c, <3>1, <4>4 DEF DataInv
      <4>5. QED
        BY <4>2, <4>3, <4>4
    <3>3. QED
      BY <1>0, <2>a, <2>b, <2>c, <2>d, <3>1, <3>2 DEF DataInv, Committed
  <2>10. CASE Unlock(c)
    BY <2>10, <2>e DEF Unlock
  <2>11. CASE AfterExec(c)
    <3>1. UNCHANGED <<rec, rows, db, committed>>
      BY <2>11 DEF AfterExec
    <3>2. \A k \in Keys : store'[k] # None => Committed(store'[k], committed'[k])
      BY <1>0, <2>11 DEF AfterExec, DataInv, Committed
    <3>3. QED
      BY <1>0, <2>a, <2>b, <2>c, <2>d, <3>1, <3>2 DEF DataInv, Committed
  <2>12. QED
    BY <1>2, <2>1, <2>2, <2>3, <2>4, <2>5, <2>6, <2>7, <2>8, <2>9, <2>10, <2>11
       DEF Step
<1>3. ASSUME NEW k \in Keys, Commit(k) \/ Rollback(k) PROVE DataInv'
  <2>1. UNCHANGED <<callVars, store>>
    BY <1>3 DEF Commit, Rollback
  <2>2. \A j \in Keys : db'[j] \in committed'[j]
    BY <1>0, <1>3 DEF Commit, Rollback, DataInv
  <2>3. QED
    BY <1>0, <1>g, <2>1, <2>2, RequestType DEF DataInv, Committed, key
<1>4. ASSUME NEW ks, Remove(ks) PROVE DataInv'
  BY <1>0, <1>4 DEF Remove, DataInv, Committed, key
<1>5. CASE UNCHANGED vars
  BY <1>0, <1>5 DEF vars, DataInv, Committed, key
<1>6. QED
  BY <1>1, <1>2, <1>3, <1>4, <1>5
     DEF Next, Finished, InvalidateQuery, InvalidateNamespace, Flush, Forget

(* Everything the cache holds, and everything a call outside transactions  *)
(* is given, was committed.                                                *)
THEOREM IsolationInvariant == Spec => []IsolationInv
<1>1. Init => IsolationInv
  BY IsolationInit
<1>2. FlightInv /\ FlightInv' /\ IsolationInv /\ [Next]_vars => IsolationInv'
  BY IsolationNext DEF IsolationInv
<1>3. QED
  BY <1>1, <1>2, FlightInvariant, PTL DEF Spec

(* What an open or rolled back transaction wrote never enters the cache.   *)
THEOREM CacheHoldsCommitted == Spec => []NoDirtyEntry
<1>1. IsolationInv => NoDirtyEntry
  BY DEF IsolationInv, DataInv, Committed, NoDirtyEntry
<1>2. QED
  BY <1>1, IsolationInvariant, PTL

(* Outside transactions a call returns committed rows, cached or not.      *)
THEOREM ReadsAreCommitted == Spec => []ReadsCommitted
<1>1. IsolationInv => ReadsCommitted
  BY DEF IsolationInv, DataInv, Committed, ReadsCommitted
<1>2. QED
  BY <1>1, IsolationInvariant, PTL

-----------------------------------------------------------------------------
(* Staleness. *)

(* Every step keeps what is known of the last writer of a key: it is an    *)
(* Exec that has run its statement.                                        *)
LEMMA WriterNext ==
  ASSUME TypeOK, WriterInv, [Next]_vars PROVE WriterInv'
<1> USE DEF Goto, callVars, flightVars, dbVars, TypeOK
<1>a. ASSUME UNCHANGED dbVars,
             \A w \in Calls : pc[w] \in {"after", "done"} =>
               req'[w] = req[w] /\ (req[w].op = "Exec" => pc'[w] \in {"after", "done"})
      PROVE  WriterInv'
  BY <1>a DEF WriterInv
<1>1. ASSUME NEW c \in Calls, Start(c) \/ BindFails(c) PROVE WriterInv'
  BY <1>1, <1>a DEF Start, BindFails
<1>2. ASSUME NEW c \in Calls, Step(c) PROVE WriterInv'
  <2>a. req' = req /\ \A d \in Calls \ {c} : pc'[d] = pc[d]
    BY <1>2, StepLocal
  <2>b. key(c) \in Keys
    BY <1>2, StepStarted, RequestType
  <2>1. CASE Write(c)
    <3>1. /\ pc[c] = "query" /\ pc'[c] = "after" /\ req[c].op = "Exec"
          /\ \/ /\ req[c].inTx
                /\ dirty' = [dirty EXCEPT ![key(c)] = c]
                /\ UNCHANGED <<db, committed>>
             \/ /\ db' = [db EXCEPT ![key(c)] = c]
                /\ committed' = [committed EXCEPT ![key(c)] = @ \cup {c}]
                /\ UNCHANGED dirty
      BY <2>1 DEF Write
    <3>2. QED
      BY <2>a, <2>b, <3>1 DEF WriterInv
  <2>2. CASE AfterExec(c)
    BY <2>a, <2>2, <1>a DEF AfterExec
  <2>3. CASE AfterRead(c)
    BY <2>a, <2>3, <1>a DEF AfterRead
  <2>4. CASE Acquire(c) \/ Wake(c) \/ Hit(c) \/ Miss(c) \/ Release(c) \/ Unlock(c)
    BY <2>a, <2>4, <1>a DEF Acquire, Wake, Hit, Miss, Peeking, Release, Unlock
  <2>5. CASE ChainPasses(c) \/ ChainInjects(c) \/ ChainRewraps(c) \/ ChainFails(c)
             \/ ChainDrops(c) \/ Panics(c) \/ Fetch(c) \/ FetchFails(c)
    BY <2>a, <2>5, <1>a DEF ChainPasses, ChainInjects, ChainRewraps, ChainFails,
         ChainDrops, Panics, Fetch, FetchFails
  <2>6. QED
    BY <1>2, <2>1, <2>2, <2>3, <2>4, <2>5 DEF Step
<1>3. ASSUME NEW k \in Keys, Commit(k) \/ Rollback(k) PROVE WriterInv'
  BY <1>3 DEF Commit, Rollback, WriterInv
<1>4. ASSUME NEW ks, Remove(ks) PROVE WriterInv'
  BY <1>4, <1>a DEF Remove
<1>5. CASE UNCHANGED vars
  BY <1>5, <1>a DEF vars
<1>6. QED
  BY <1>1, <1>2, <1>3, <1>4, <1>5
     DEF Next, Finished, InvalidateQuery, InvalidateNamespace, Flush, Forget

(* The excuse of an outdated entry lasts, and a new write is an excuse,    *)
(* until the writer's After hook invalidates the key: then there is no     *)
(* entry left, and those who will still store old rows are exposed.        *)
LEMMA ExcuseKept ==
  ASSUME StaleInv, [Next]_vars, NEW k \in Keys, NEW h \in Calls,
         (db[k] # None /\ Excused(k, h)) \/ db'[k] # db[k]
  PROVE  \/ Excused(k, h)'
         \/ /\ store'[k] = None
            /\ db'[k] = db[k]
            /\ h \in OutdatedHolders /\ key(h) = k => h \in exposed'
<1> USE DEF Goto, callVars, flightVars, dbVars, TypeOK
<1>0. TypeOK /\ WriterInv
  BY DEF StaleInv, IsolationInv, FlightInv
<1>a. ASSUME db'[k] = db[k], exposed' = exposed,
             \A w \in Calls : pc[w] \in {"after", "done"} =>
               req'[w] = req[w] /\ (req[w].op = "Exec" => pc'[w] = pc[w])
      PROVE  Excused(k, h)'
  <2>1. PICK w \in Calls : w = db[k]
    BY <1>0, <1>a
  <2>2. req[w].op = "Exec" /\ pc[w] \in {"after", "done"}
    BY <1>0, <1>a, <2>1 DEF WriterInv
  <2>3. req'[w] = req[w] /\ pc'[w] = pc[w] /\ db'[k] = w
    BY <1>a, <2>1, <2>2
  <2>4. QED
    BY <1>a, <2>1, <2>3 DEF Excused, NotYetInvalidated, Invalidates
<1>1. ASSUME NEW c \in Calls, Start(c) \/ BindFails(c) PROVE Excused(k, h)'
  BY <1>0, <1>1, <1>a DEF Start, BindFails
<1>2. ASSUME NEW c \in Calls, Step(c), ~Write(c), ~AfterExec(c) PROVE Excused(k, h)'
  <2>a. req' = req /\ \A d \in Calls \ {c} : pc'[d] = pc[d]
    BY <1>0, <1>2, StepLocal
  <2>1. CASE Acquire(c) \/ Wake(c) \/ Hit(c) \/ Miss(c) \/ Release(c) \/ Unlock(c)
    BY <2>a, <2>1, <1>a DEF Acquire, Wake, Hit, Miss, Peeking, Release, Unlock
  <2>2. CASE ChainPasses(c) \/ ChainInjects(c) \/ ChainRewraps(c) \/ ChainFails(c)
             \/ ChainDrops(c) \/ Panics(c) \/ Fetch(c) \/ FetchFails(c)
    BY <2>a, <2>2, <1>a DEF ChainPasses, ChainInjects, ChainRewraps, ChainFails,
         ChainDrops, Panics, Fetch, FetchFails
  <2>3. CASE AfterRead(c)
    BY <2>a, <2>3, <1>a DEF AfterRead
  <2>4. QED
    BY <1>2, <2>1, <2>2, <2>3 DEF Step
<1>3. ASSUME NEW c \in Calls, Write(c) PROVE Excused(k, h)'
  <2>a. req' = req /\ \A d \in Calls \ {c} : pc'[d] = pc[d]
    BY <1>0, <1>3, StepLocal DEF Step
  <2>1. CASE db'[k] # db[k]
    <3>1. db'[k] = c /\ pc'[c] = "after"
      BY <1>0, <1>3, <2>1 DEF Write
    <3>2. QED
      BY <3>1 DEF Excused, NotYetInvalidated
  <2>2. CASE db'[k] = db[k]
    BY <1>3, <2>a, <2>2, <1>a DEF Write
  <2>3. QED
    BY <2>1, <2>2
<1>4. ASSUME NEW c \in Calls, AfterExec(c)
      PROVE  \/ Excused(k, h)'
             \/ /\ store'[k] = None
                /\ db'[k] = db[k]
                /\ h \in OutdatedHolders /\ key(h) = k => h \in exposed'
  <2>a. req' = req /\ db' = db /\ \A d \in Calls \ {c} : pc'[d] = pc[d]
    BY <1>0, <1>4, StepLocal DEF AfterExec, Step
  <2>b. PICK w \in Calls : w = db[k] /\ db'[k] = w
    BY <1>0, <2>a
  <2>c. exposed \subseteq exposed'
    BY <1>4 DEF AfterExec
  <2>1. CASE w # c
    BY <2>a, <2>b, <2>c, <2>1 DEF Excused, NotYetInvalidated, Invalidates
  <2>2. CASE w = c
    <3>1. CASE ~Invalidates(req[c], k) \/ req[c].inTx \/ c \in exposed'
      BY <2>a, <2>b, <2>2, <3>1 DEF Excused, NotYetInvalidated, Invalidates
    <3>2. CASE Invalidates(req[c], k) /\ c \notin exposed'
      <4>1. /\ store' = [j \in Keys |->
                           IF Invalidates(req[c], j) THEN None ELSE store[j]]
            /\ exposed' = exposed \cup
                 {d \in OutdatedHolders : Invalidates(req[c], key(d))}
        BY <1>4, <3>2 DEF AfterExec
      <4>2. QED
        BY <2>a, <3>2, <4>1
    <3>3. QED
      BY <3>1, <3>2
  <2>3. QED
    BY <2>1, <2>2
<1>5. ASSUME NEW j \in Keys, Commit(j) \/ Rollback(j) PROVE Excused(k, h)'
  <2>1. CASE db'[k] # db[k]
    <3>1. db'[k] = dirty[k] /\ dirty[k] # None /\ UNCHANGED callVars
      BY <1>0, <1>5, <2>1 DEF Commit, Rollback
    <3>2. req[db'[k]].inTx
      BY <1>0, <3>1 DEF WriterInv
    <3>3. QED
      BY <3>1, <3>2 DEF Excused, NotYetInvalidated
  <2>2. CASE db'[k] = db[k]
    BY <1>5, <2>2, <1>a DEF Commit, Rollback
  <2>3. QED
    BY <2>1, <2>2
<1>6. ASSUME NEW ks, Remove(ks) PROVE Excused(k, h)'
  BY <1>6, <1>a DEF Remove
<1>7. CASE UNCHANGED vars
  BY <1>7, <1>a DEF vars
<1>8. QED
  BY <1>1, <1>2, <1>3, <1>4, <1>5, <1>6, <1>7
     DEF Next, Finished, InvalidateQuery, InvalidateNamespace, Flush, Forget

(* Before the first commit there is nothing to be outdated by.             *)
LEMMA OutdatedWritten ==
  ASSUME StaleInv, NEW k \in Keys, NEW rs \in RowSet, rs.shape # "none",
         Committed(rs, committed[k]), rs.val # db[k]
  PROVE  db[k] # None
  BY DEF StaleInv, WriterInv, Committed

(* Every step keeps account of the calls that hold outdated rows.          *)
LEMMA HolderNext ==
  ASSUME StaleInv, [Next]_vars PROVE HolderInv'
<1> USE DEF Goto, callVars, flightVars, dbVars, TypeOK
<1>0. TypeOK /\ RecorderInv /\ DataInv /\ HolderInv
  BY DEF StaleInv, IsolationInv, FlightInv
<1>k. ASSUME NEW h \in Calls, UNCHANGED <<pc[h], rec[h], err[h], req[h]>>
      PROVE  HolderAccounted(h)'
  <2>1. SUFFICES ASSUME Holding(h)', rec'[h].val # db'[key(h)]
                 PROVE  Excused(key(h), h)'
    BY <1>k DEF HolderAccounted, key
  <2>2. Holding(h) /\ rec'[h].val = rec[h].val
    BY <1>k, <2>1 DEF Holding
  <2>3. PICK k \in Keys : k = key(h) /\ k = key(h)'
    BY <1>0, <1>k, <2>2, RequestType DEF Holding, key
  <2>4. Committed(rec[h], committed[k]) /\ rec[h] \in RowSet
    BY <1>0, <2>2, <2>3 DEF Holding, DataInv
  <2>5. \/ db[k] # None /\ Excused(k, h)
        \/ db'[k] # db[k]
    <3>1. CASE db'[k] # db[k]
      BY <3>1
    <3>2. CASE db'[k] = db[k]
      <4>1. rec[h].val # db[k] /\ rec[h].shape # "none"
        BY <2>1, <2>2, <2>3, <3>2 DEF Holding
      <4>2. db[k] # None
        BY <2>4, <4>1, OutdatedWritten
      <4>3. HolderAccounted(h)
        BY <1>0 DEF HolderInv
      <4>4. QED
        BY <2>2, <2>3, <4>1, <4>2, <4>3 DEF HolderAccounted
    <3>3. QED
      BY <3>1, <3>2
  <2>6. \/ Excused(k, h)'
        \/ /\ db'[k] = db[k]
           /\ h \in OutdatedHolders /\ key(h) = k => h \in exposed'
    BY <2>5, ExcuseKept
  <2>7. CASE Excused(k, h)'
    BY <2>3, <2>7 DEF Excused
  <2>8. CASE /\ db'[k] = db[k]
             /\ h \in OutdatedHolders /\ key(h) = k => h \in exposed'
    <3>1. h \in OutdatedHolders
      BY <2>1, <2>2, <2>3, <2>8 DEF Holding, OutdatedHolders
    <3>2. QED
      BY <2>3, <2>8, <3>1 DEF Excused
  <2>9. QED
    BY <2>6, <2>7, <2>8
<1>m. ASSUME NEW h \in Calls, UNCHANGED <<pc[h], rec[h], err[h], req[h]>>
      PROVE  /\ rec'[h] # None => rec'[h].by = h
             /\ pc'[h] \in {"chain", "query"} /\ rec'[h] # None => rec'[h].shape = "none"
             /\ HolderAccounted(h)'
  BY <1>0, <1>k, <1>m DEF HolderInv
<1>1. ASSUME NEW c \in Calls, Start(c) \/ BindFails(c) PROVE HolderInv'
  <2>1. \A h \in Calls \ {c} : UNCHANGED <<pc[h], rec[h], err[h], req[h]>>
    BY <1>0, <1>1 DEF Start, BindFails
  <2>2. rec'[c] = None
    BY <1>0, <1>1 DEF Start, BindFails, RecorderInv
  <2>3. QED
    BY <1>m, <2>1, <2>2 DEF HolderInv, HolderAccounted, Holding
<1>2. ASSUME NEW c \in Calls, Step(c) PROVE HolderInv'
  <2>a. \A h \in Calls \ {c} : UNCHANGED <<pc[h], rec[h], err[h], req[h]>>
    BY <1>0, <1>2, StepLocal
  <2>b. SUFFICES /\ rec'[c] # None => rec'[c].by = c
                 /\ pc'[c] \in {"chain", "query"} /\ rec'[c] # None => rec'[c].shape = "none"
                 /\ Holding(c)' => rec'[c].val = db'[key(c)]
    <3>1. key(c)' = key(c)
      BY <1>0, <1>2, StepLocal DEF key
    <3>2. QED
      BY <1>m, <2>a, <2>b, <3>1 DEF HolderInv, HolderAccounted
  <2>1. CASE Acquire(c) \/ Wake(c) \/ Hit(c) \/ Release(c) \/ Unlock(c)
    BY <1>0, <2>1 DEF Acquire, Wake, Hit, Peeking, Release, Unlock, Holding,
         HolderInv, RecorderInv, InBefore, InFlightCode
  <2>2. CASE Miss(c)
    BY <1>0, <2>2 DEF Miss, Peeking, Blank, Holding, HolderInv, RecorderInv,
         InBefore, InFlightCode
  <2>3. CASE ChainPasses(c) \/ ChainInjects(c) \/ ChainRewraps(c) \/ ChainFails(c)
             \/ ChainDrops(c) \/ Panics(c)
    BY <1>0, <2>3 DEF ChainPasses, ChainInjects, ChainRewraps, ChainFails,
         ChainDrops, Panics, Holding, HolderInv
  <2>4. CASE Fetch(c)
    <3>1. PICK rs \in Sources(c) :
            rec' = IF tap[c] /\ rows[c] = None
                   THEN [rec EXCEPT ![c] = Scanned(c, rs)]
                   ELSE rec
      BY <2>4 DEF Fetch
    <3>2. CASE tap[c] /\ rows[c] = None
      <4>1. Eligible(req[c])
        BY <1>0, <3>2 DEF RecorderInv
      <4>2. rs = [val |-> db[key(c)], shape |-> "all", by |-> c]
        BY <3>2, <4>1 DEF Sources, Visible, Eligible
      <4>3. rec'[c].val = db[key(c)] /\ rec'[c].by = c
        BY <1>0, <3>1, <3>2, <4>2 DEF Scanned
      <4>4. QED
        BY <1>0, <2>4, <4>3 DEF Fetch, Holding
    <3>3. CASE ~(tap[c] /\ rows[c] = None)
      BY <1>0, <2>4, <3>1, <3>3 DEF Fetch, Holding, HolderInv
    <3>4. QED
      BY <3>2, <3>3
  <2>5. CASE FetchFails(c)
    BY <1>0, <2>5 DEF FetchFails, Holding, HolderInv
  <2>6. CASE Write(c)
    BY <1>0, <2>6 DEF Write, Holding, HolderInv, RecorderInv, Eligible
  <2>7. CASE AfterRead(c) \/ AfterExec(c)
    BY <1>0, <2>7 DEF AfterRead, AfterExec, Holding, HolderInv
  <2>8. QED
    BY <1>2, <2>1, <2>2, <2>3, <2>4, <2>5, <2>6, <2>7 DEF Step
<1>3. ASSUME UNCHANGED callVars PROVE HolderInv'
  BY <1>m, <1>3 DEF HolderInv
<1>4. QED
  BY <1>1, <1>2, <1>3, OthersLocal DEF vars

(* Every step keeps the bound on the staleness of the entries.             *)
LEMMA OverlapNext ==
  ASSUME StaleInv, [Next]_vars PROVE StaleOnlyByOverlap'
<1> USE DEF Goto, callVars, flightVars, dbVars, TypeOK
<1>0. TypeOK /\ RecorderInv /\ DataInv /\ HolderInv /\ StaleOnlyByOverlap
  BY DEF StaleInv, IsolationInv, FlightInv
<1>s. ASSUME NEW k \in Keys, store'[k] # None
      PROVE  \/ store'[k] = store[k]
             \/ \E c \in Calls : AfterRead(c) /\ key(c) = k /\ Holding(c)
                                 /\ store'[k] = rec[c] /\ db' = db
             \/ store'[k].shape = "none"
  <2>1. ASSUME NEW c \in Calls, Start(c) \/ BindFails(c) PROVE store' = store
    BY <2>1 DEF Start, BindFails
  <2>2. ASSUME NEW c \in Calls, Step(c), ~AfterRead(c), ~AfterExec(c)
        PROVE  store' = store
    BY <2>2 DEF Step, Acquire, Wake, Hit, Miss, Release, ChainPasses,
         ChainInjects, ChainRewraps, ChainFails, ChainDrops, Panics, Fetch,
         FetchFails, Write, Unlock
  <2>3. ASSUME NEW c \in Calls, AfterExec(c) PROVE store'[k] = store[k]
    BY <1>0, <1>s, <2>3 DEF AfterExec
  <2>4. ASSUME NEW c \in Calls, AfterRead(c)
        PROVE  \/ store'[k] = store[k]
               \/ key(c) = k /\ Holding(c) /\ store'[k] = rec[c] /\ db' = db
               \/ store'[k].shape = "none"
    BY <1>0, <2>4 DEF AfterRead, Commits, Holding
  <2>5. ASSUME NEW j \in Keys, Commit(j) \/ Rollback(j) PROVE store' = store
    BY <2>5 DEF Commit, Rollback
  <2>6. ASSUME NEW ks, Remove(ks) PROVE store'[k] = store[k]
    BY <1>0, <1>s, <2>6 DEF Remove
  <2>7. QED
    BY <2>1, <2>2, <2>3, <2>4, <2>5, <2>6
       DEF Next, Finished, InvalidateQuery, InvalidateNamespace, Flush, Forget, vars
<1>1. SUFFICES ASSUME NEW k \in Keys, store'[k] # None, store'[k].shape # "none",
                      store'[k].val # db'[k]
               PROVE  \E h \in Calls : store'[k].by = h /\ Excused(k, h)'
  BY DEF StaleOnlyByOverlap, Excused
<1>2. CASE store'[k] = store[k]
  <2>1. PICK h \in Calls : h = store[k].by /\ h = store'[k].by
    BY <1>0, <1>1, <1>2 DEF RowSet
  <2>2. /\ store[k] \in RowSet /\ store[k].shape # "none"
        /\ Committed(store[k], committed[k])
    BY <1>0, <1>1, <1>2 DEF DataInv
  <2>3. \/ db[k] # None /\ Excused(k, h)
        \/ db'[k] # db[k]
    BY <1>0, <1>1, <1>2, <2>1, <2>2, OutdatedWritten DEF StaleOnlyByOverlap, Excused
  <2>4. Excused(k, h)'
    BY <1>1, <2>3, ExcuseKept
  <2>5. QED
    BY <2>1, <2>4
<1>3. ASSUME NEW c \in Calls, AfterRead(c), key(c) = k, Holding(c),
             store'[k] = rec[c], db' = db
      PROVE  \E h \in Calls : store'[k].by = h /\ Excused(k, h)'
  <2>1. rec[c] \in RowSet /\ rec[c].by = c /\ store'[k].by = c
    BY <1>0, <1>3 DEF HolderInv, Holding
  <2>2. Committed(rec[c], committed[k]) /\ rec[c].val # db[k]
    BY <1>0, <1>1, <1>3 DEF DataInv, Holding
  <2>3. db[k] # None /\ Excused(k, c)
    BY <1>0, <1>3, <2>1, <2>2, OutdatedWritten DEF Holding, HolderInv, HolderAccounted
  <2>4. Excused(k, c)'
    BY <1>1, <2>3, ExcuseKept
  <2>5. QED
    BY <2>1, <2>4
<1>4. QED
  BY <1>1, <1>2, <1>3, <1>s

(* Whatever is cached is up to date, but for the windows listed in         *)
(* NotYetInvalidated and for the rows stored by exposed calls.             *)
THEOREM StalenessBounded == Spec => []StaleOnlyByOverlap
<1>1. Init => WriterInv /\ HolderInv /\ StaleOnlyByOverlap
  BY DEF Init, WriterInv, HolderInv, HolderAccounted, Holding, StaleOnlyByOverlap
<1>2. IsolationInv /\ WriterInv /\ HolderInv /\ StaleOnlyByOverlap /\ [Next]_vars
        => WriterInv' /\ HolderInv' /\ StaleOnlyByOverlap'
  BY WriterNext, HolderNext, OverlapNext DEF StaleInv, IsolationInv, FlightInv
<1>3. QED
  BY <1>1, <1>2, IsolationInvariant, PTL DEF Spec

-----------------------------------------------------------------------------
(* Complete answers. *)

(* Nobody supplies rows or replaces the row wrapper in the cache's place.  *)
NobodyInterferes == Env \cap {"inject", "rewrap"} = {}

(* The query of a key with several rows is cached by Get only or by Select *)
(* only: the two share the entry, since computeKey leaves the operation    *)
(* out of the key (cache.go:287).                                          *)
OneOperationPerKey ==
  \A r, s \in Requests :
    UsesCache(r) /\ UsesCache(s) /\ r.key = s.key /\ r.key \in MultiRow
      => r.op = s.op

(* How much of the answer request r asks for. *)
WantedBy(r) == IF r.op = "Get" /\ r.key \in MultiRow THEN "first" ELSE "all"

(* An entry holds what every request that may hit it asks for. *)
EntryInv ==
  \A k \in Keys : store[k] # None =>
    \A r \in Requests : UsesCache(r) /\ r.key = k => store[k].shape = WantedBy(r)

(* A call has rows before its query only from a hit, which leaves no       *)
(* recorder, and what it has after its query is what it asked for.         *)
AnswerInv ==
  \A c \in Calls :
    /\ pc[c] \in InBefore \/ rec[c] # None => req[c].cached
    /\ pc[c] \in (InBefore \ {"release"}) \cup {"idle"} => rows[c] = None
    /\ pc[c] \in {"release", "chain", "query"} =>
         /\ rows[c] # None => rows[c].shape = WantedBy(req[c])
         /\ rec[c] # None => tap[c] /\ rows[c] = None
    /\ pc[c] \in {"after", "unlock", "done"} /\ ~err[c] /\ req[c].op # "Exec" =>
         rows[c] # None /\ rows[c].shape = WantedBy(req[c])
    /\ pc[c] = "after" /\ ~err[c] /\ rec[c] # None =>
         rec[c].shape = WantedBy(req[c])

CompleteInv == FlightInv /\ EntryInv /\ AnswerInv

(* What a call scans is what it asked for, once it is scanned.             *)
LEMMA ScannedComplete ==
  ASSUME TypeOK, AnswerInv, NEW c \in Calls, pc[c] = "query", NEW rs \in Sources(c)
  PROVE  Scanned(c, rs).shape = WantedBy(req[c])
<1>1. key(c) \in Keys /\ req[c] \in Request /\ key(c) = req[c].key
  BY RequestType DEF key
<1>2. CASE rows[c] # None
  <2>1. rs = rows[c] /\ rs \in RowSet /\ rs.shape = WantedBy(req[c])
    BY <1>2 DEF Sources, AnswerInv, TypeOK
  <2>2. QED
    BY <1>1, <2>1 DEF Scanned, WantedBy, RowSet
<1>3. CASE rows[c] = None
  <2>1. rs \in RowSet /\ rs.shape = "all"
    BY <1>3, SourcesType DEF Sources
  <2>2. QED
    BY <1>1, <2>1 DEF Scanned, WantedBy, RowSet
<1>4. QED
  BY <1>2, <1>3

(* Every step keeps the answers complete.                                  *)
LEMMA AnswerNext ==
  ASSUME NobodyInterferes, CompleteInv, [Next]_vars PROVE AnswerInv'
<1> USE DEF Goto, callVars, flightVars, dbVars, TypeOK, InBefore, InFlightCode
<1>0. TypeOK /\ RecorderInv /\ EntryInv /\ AnswerInv
  BY DEF CompleteInv, FlightInv
<1> DEFINE A(c) ==
      /\ pc[c] \in InBefore \/ rec[c] # None => req[c].cached
      /\ pc[c] \in (InBefore \ {"release"}) \cup {"idle"} => rows[c] = None
      /\ pc[c] \in {"release", "chain", "query"} =>
           /\ rows[c] # None => rows[c].shape = WantedBy(req[c])
           /\ rec[c] # None => tap[c] /\ rows[c] = None
      /\ pc[c] \in {"after", "unlock", "done"} /\ ~err[c] /\ req[c].op # "Exec" =>
           rows[c] # None /\ rows[c].shape = WantedBy(req[c])
      /\ pc[c] = "after" /\ ~err[c] /\ rec[c] # None =>
           rec[c].shape = WantedBy(req[c])
<1>a. ASSUME NEW c \in Calls PROVE A(c)
  BY <1>0 DEF AnswerInv
<1>b. SUFFICES ASSUME NEW d \in Calls PROVE A(d)'
  BY DEF AnswerInv
<1>k. ASSUME UNCHANGED <<pc[d], req[d], rows[d], rec[d], tap[d], err[d]>>
      PROVE  A(d)'
  BY <1>a, <1>k DEF WantedBy
<1>1. ASSUME NEW c \in Calls, Start(c) PROVE A(d)'
  <2>1. CASE c # d
    BY <1>0, <1>1, <1>k, <2>1 DEF Start
  <2>2. CASE c = d
    <3>1. PICK r \in Requests :
            /\ req' = [req EXCEPT ![c] = r]
            /\ pc' = [pc EXCEPT ![c] =
                        CASE ~UsesCache(r) -> "chain"
                          [] UsesCache(r) /\ Singleflight -> "acquire"
                          [] OTHER -> "plainPeek"]
      BY <1>1 DEF Start
    <3>2. rows'[c] = None /\ rec'[c] = None
      BY <1>0, <1>1, <1>a DEF Start, RecorderInv
    <3>3. /\ pc'[c] \in {"chain", "acquire", "plainPeek"}
          /\ pc'[c] # "chain" => req'[c].cached
      BY <1>0, <3>1 DEF UsesCache
    <3>4. QED
      BY <2>2, <3>2, <3>3
  <2>3. QED
    BY <2>1, <2>2
<1>2. ASSUME NEW c \in Calls, BindFails(c) PROVE A(d)'
  <2>1. CASE c # d
    BY <1>0, <1>2, <1>k, <2>1 DEF BindFails
  <2>2. CASE c = d
    BY <1>0, <1>2, <2>2 DEF BindFails, RecorderInv
  <2>3. QED
    BY <2>1, <2>2
<1>3. ASSUME NEW c \in Calls, Step(c) PROVE A(d)'
  <2>a. req' = req
    BY <1>0, <1>3, StepLocal
  <2>b. CASE c # d
    BY <1>0, <1>3, <1>k, <2>b, StepLocal
  <2>c. CASE c = d
    <3>a. key(d) \in Keys /\ req[d] \in Requests /\ key(d) = req[d].key
      BY <1>0, <1>3, <2>c, StepStarted, RequestType DEF key
    <3>1. CASE Acquire(d) \/ Wake(d) \/ Release(d) \/ Unlock(d) \/ AfterRead(d)
               \/ AfterExec(d)
      BY <1>0, <1>a, <2>a, <3>1
         DEF Acquire, Wake, Release, Unlock, AfterRead, AfterExec, RecorderInv
    <3>2. CASE Hit(d)
      <4>1. UsesCache(req[d]) /\ rec[d] = None
        BY <1>0, <1>a, <3>2 DEF Hit, Peeking, RecorderInv, UsesCache
      <4>2. store[key(d)].shape = WantedBy(req[d])
        BY <1>0, <3>2, <3>a, <4>1 DEF Hit, EntryInv
      <4>3. /\ pc'[d] \in {"release", "chain"}
            /\ rows'[d] = store[key(d)] /\ rec'[d] = None
        BY <1>0, <3>2, <4>1 DEF Hit
      <4>4. QED
        BY <2>a, <4>1, <4>2, <4>3 DEF UsesCache
    <3>3. CASE Miss(d)
      <4>1. rows[d] = None /\ req[d].cached /\ rec[d] = None
        BY <1>0, <1>a, <3>3 DEF Miss, Peeking, RecorderInv
      <4>2. QED
        BY <1>0, <2>a, <3>3, <4>1 DEF Miss, Peeking
    <3>4. CASE ChainPasses(d) \/ ChainFails(d) \/ ChainDrops(d) \/ Panics(d)
      BY <1>0, <1>a, <2>a, <3>4 DEF ChainPasses, ChainFails, ChainDrops, Panics
    <3>5. CASE ChainInjects(d) \/ ChainRewraps(d)
      BY <3>5 DEF ChainInjects, ChainRewraps, NobodyInterferes
    <3>6. CASE Fetch(d)
      <4>1. PICK rs \in Sources(d) :
              /\ rows' = [rows EXCEPT ![d] = Scanned(d, rs)]
              /\ rec' = IF tap[d] /\ rows[d] = None
                        THEN [rec EXCEPT ![d] = Scanned(d, rs)]
                        ELSE rec
        BY <3>6 DEF Fetch
      <4>2. pc[d] = "query" /\ pc'[d] = "after" /\ req[d].op # "Exec"
        BY <1>0, <3>6 DEF Fetch
      <4>3. Scanned(d, rs).shape = WantedBy(req[d]) /\ Scanned(d, rs) # None
        BY <1>0, <4>2, ScannedComplete, SourcesType
      <4>4. rec[d] # None => tap[d] /\ rows[d] = None /\ req[d].cached
        BY <1>a, <4>2
      <4>5. tap[d] => req[d].cached
        BY <1>0, <1>a DEF RecorderInv
      <4>6. rows'[d] = Scanned(d, rs)
        BY <1>0, <4>1
      <4>7. rec'[d] # None => rec'[d] = Scanned(d, rs) /\ req[d].cached
        BY <1>0, <4>1, <4>4, <4>5
      <4>8. QED
        BY <2>a, <4>2, <4>3, <4>6, <4>7
    <3>7. CASE FetchFails(d) \/ Write(d)
      BY <1>0, <1>a, <2>a, <3>7 DEF FetchFails, Write, RecorderInv, Eligible
    <3>8. QED
      BY <1>3, <2>c, <3>1, <3>2, <3>3, <3>4, <3>5, <3>6, <3>7 DEF Step
  <2>d. QED
    BY <2>b, <2>c
<1>4. ASSUME UNCHANGED callVars PROVE A(d)'
  BY <1>4, <1>k
<1>5. QED
  BY <1>1, <1>2, <1>3, <1>4, OthersLocal DEF vars

(* Every step keeps the entries complete: what a call stores is what every *)
(* call that may hit it asks for.                                          *)
LEMMA EntryNext ==
  ASSUME OneOperationPerKey, CompleteInv, [Next]_vars PROVE EntryInv'
<1> USE DEF Goto, callVars, flightVars, dbVars, TypeOK
<1>0. TypeOK /\ RecorderInv /\ EntryInv /\ AnswerInv
  BY DEF CompleteInv, FlightInv
<1>1. SUFFICES ASSUME NEW k \in Keys, store'[k] # None,
                      NEW r \in Requests, UsesCache(r), r.key = k
               PROVE  store'[k].shape = WantedBy(r)
  BY DEF EntryInv, UsesCache, Eligible
<1>2. store'[k] = store[k] => store'[k].shape = WantedBy(r)
  BY <1>0, <1>1 DEF EntryInv
<1>3. ASSUME NEW c \in Calls, Start(c) \/ BindFails(c) PROVE store' = store
  BY <1>3 DEF Start, BindFails
<1>4. ASSUME NEW c \in Calls, Step(c), ~AfterRead(c), ~AfterExec(c)
      PROVE  store' = store
  BY <1>4 DEF Step, Acquire, Wake, Hit, Miss, Release, ChainPasses,
       ChainInjects, ChainRewraps, ChainFails, ChainDrops, Panics, Fetch,
       FetchFails, Write, Unlock
<1>5. ASSUME NEW c \in Calls, AfterExec(c) PROVE store'[k] = store[k]
  BY <1>0, <1>1, <1>5 DEF AfterExec
<1>6. ASSUME NEW c \in Calls, AfterRead(c), store'[k] # store[k]
      PROVE  store'[k].shape = WantedBy(r)
  <2>1. /\ Commits(c) /\ ~err[c] /\ pc[c] = "after"
        /\ store' = [store EXCEPT ![key(c)] = rec[c]]
    BY <1>6 DEF AfterRead
  <2>2. key(c) = k /\ store'[k] = rec[c] /\ rec[c] # None
    BY <1>0, <1>6, <2>1 DEF Commits
  <2>3. UsesCache(req[c]) /\ req[c] \in Requests
    BY <1>0, <2>1, <2>2, RequestType DEF Commits, UsesCache, AnswerInv
  <2>4. rec[c].shape = WantedBy(req[c])
    BY <1>0, <2>1, <2>2 DEF AnswerInv
  <2>5. WantedBy(req[c]) = WantedBy(r)
    BY <1>1, <2>2, <2>3 DEF OneOperationPerKey, WantedBy, key
  <2>6. QED
    BY <2>2, <2>4, <2>5
<1>7. ASSUME NEW j \in Keys, Commit(j) \/ Rollback(j) PROVE store' = store
  BY <1>7 DEF Commit, Rollback
<1>8. ASSUME NEW ks, Remove(ks) PROVE store'[k] = store[k]
  BY <1>0, <1>1, <1>8 DEF Remove
<1>9. QED
  BY <1>2, <1>3, <1>4, <1>5, <1>6, <1>7, <1>8
     DEF Next, Finished, InvalidateQuery, InvalidateNamespace, Flush, Forget, vars

(* When one operation only caches the query of a key and no other plugin   *)
(* supplies rows or replaces the wrapper, Get and Select return the rows   *)
(* they ask for, hit or miss.                                              *)
THEOREM AnswersAreComplete ==
  NobodyInterferes /\ OneOperationPerKey => (Spec => []AnswersComplete)
<1> SUFFICES ASSUME NobodyInterferes, OneOperationPerKey
             PROVE  Spec => []AnswersComplete
  OBVIOUS
<1>1. Init => EntryInv /\ AnswerInv
  BY DEF Init, EntryInv, AnswerInv, InBefore, InFlightCode
<1>2. FlightInv /\ EntryInv /\ AnswerInv /\ [Next]_vars => EntryInv' /\ AnswerInv'
  BY EntryNext, AnswerNext DEF CompleteInv
<1>3. AnswerInv => AnswersComplete
  BY DEF AnswerInv, AnswersComplete, Wanted, WantedBy, key
<1>4. QED
  BY <1>1, <1>2, <1>3, FlightInvariant, PTL DEF Spec
=============================================================================
