# RainbowSquirrel in TLA+

RainbowSquirrel is a Go library over `database/sql`: it binds named arguments,
runs statements through a chain of plugins, scans rows into Go values, nests
transactions on savepoints, and has a cache plugin. This directory holds TLA+
models of it, the TLC configurations that check them, and proofs for TLAPS.
Source positions are given as `file:line` under `src/`.

## 1. Inventory

| Component | State | Operations | Module |
|---|---|---|---|
| Cache plugin (`cache/cache.go`, `cache/source.go`) | a recorder and a row wrapper in the context of a call; the store; the flight table | `Before`, `After`, `CacheKey`, `InvalidateQuery`, `Invalidate`, `InvalidateNamespace`, `Flush` | `CachePlugin` |
| Flight (`cache/flight.go`) | a mutex, a map from keys to channels | `acquire`, the wait function, `done` | `CachePlugin`, abstractly `SingleLoader` |
| Memory store (`cache/store.go`) | a mutex, a map, an LRU list, deadlines | `Get`, `Set`, `Delete`, `DeletePrefix`, `Flush` | `MemoryStore`, abstractly `TTLMap` |
| Transactions (`core.go`) | `closed` of every `Tx`, savepoint names, one `*sql.Tx` | `BeginTx`, `Begin`, `Exec`, `Commit`, `Rollback` | `NestedTx`, abstractly `TxTree` |
| Execution flow and plugins (`core.go`, `config.go`, `plugin.go`) | the registered plugins, `executed`, an `ExecInfo` per call | `Use`, `begin`, `execOp`, `queryOp`, `getOp`, `selectOp`, `runBefore`, `runAfter`, `Rows.Close` | `PluginChain` |
| Placeholder parser (`bind.go`) | an index into the query | `parsePlaceholders` | `Placeholders` |
| Argument binding (`bind.go`) | none | `bindForExec`, `bindNamed`, `bindNamedMany`, `positionalArgs`, `Rebind` | `Bind`, over `Values` |
| Row scanning (`scan.go`) | the destination; a recorder, if the rows were wrapped | `scanOne`, `scanSlice`, `scanStructRow`, `scanMapRow`, `scanScalarRow` | `Scan` |
| Type metadata (`meta.go`) | a process-wide `sync.Map` | `getTypeInfo`, `buildTypeInfo`, `lookupBind`, `lookupScan` | `TypeInfo` |
| Value conversion (`convert.go`) | none | `ConvertAssign`, the converters | `Convert` |
| Cache codec (`cache/codec.go`) | none | `Encode`, `Decode` | `Codec` |
| Redis store (`cache/redis/redis.go`) | in Redis | `Get`, `Set`, `Delete`, `DeletePrefix`, `Flush`, `scanDel` | `RedisStore` |
| Options (`config.go`) | tag name, mapper, strict mode, NULL handling | | parameters of `Scan`, `Bind`, `PluginChain` |
| Driver detection, errors, logging (`core.go`, `errors.go`, `log/`) | none | | not modelled |

**How they interact.** An operation of `DB` or `Tx` takes a snapshot of the
plugins, binds its argument, runs the `Before` hooks, queries unless a hook has
supplied the rows, wraps the rows if a hook left a wrapper in the context, scans
and closes them, and runs the `After` hooks in reverse. The cache plugin works
through these hooks only: its `Before` supplies cached rows, or leaves a recorder
and a wrapper; the scan feeds the recorder; its `After` stores what was recorded.
Calls of different goroutines meet in the store, in the flight table, in the
database, in the metadata of types, and in `config`; a hit can also share the
memory of the entry with its caller.

**What is hard.** *Concurrency*: a cached read spans some ten steps, at each of
which another call may run; the flight table and the store are locked separately.
*Failure*: each step can fail or panic, and what must be undone (the flight) is
undone in one place, `After`. *Ordering*: an invalidation races with reads that
have the old rows in hand; hooks run in mirrored orders; placeholders are numbered
after lists have been expanded. *Boundaries*: LRU capacity, deadlines, unterminated
literals, integers at the end of their range. *Two ways to one result*: a row is read
directly by `database/sql`, or as raw cells that the library converts, or from
cells that were encoded and decoded. `PROJECT.json` lists the hazards line by line,
with the properties that would catch each, or the reason why none does.

**What makes each part correct.**

- Cache plugin: one loader a key, no waiter left behind, a flight ended by its
  owner only; no uncommitted row cached or answered; stale entries only for the
  reasons the code admits; a read gets all it asked for.
- Memory store: map and list agree, the capacity holds, the least recently used
  entry goes, an expired entry is never answered.
- Transactions: Tx values behave as a tree; rolled back work never becomes
  durable; a Tx ends once.
- Plugin chain: one chain for all calls, mirrored hooks, `After` exactly once
  with the outcome of the call.
- Redis store: a prefix deletion that succeeds has removed what it was called for;
  stores in one database keep apart.
- Scanning, conversion, metadata, codec: a read gives the same values directly,
  recorded and replayed; an integer is kept or refused; metadata belongs to the
  configuration that uses it; callers reach into entries through a `[]byte` only.
- Parser and binding: the placeholders are those of SQL's lexical structure; each
  one stands for its value; the cache key determines the arguments.

## 2. The models

`MC*` modules give constants their values. Two of them compose: `MCStores` holds
a memory store and a Redis store, of which a cache has one (`remote` chooses it),
and `MCStatements` the parser and the binding (`bound` chooses which is at work).
Each state machine keeps its own `Spec`; the definitions of the Redis store and of the
binding are prefixed, so that `MCStores` and `MCStatements` can extend both parts. `Recursion` is mathematics, for the
proofs: a nonempty set of numbers has a least one, and a function defined by
recursion on the numbers exists. `BindProofs` adds what holds of sequences put one after
the other, which `PlaceholdersProofs` uses too. Definitions marked *mutant* in comments are faulty
variants of the one after them; nothing refers to them. They document which fault each property would notice.

### CachePlugin, with SingleLoader

One call is one `Get`, `Select` or `Exec`; `pc[c]` says where it is, and each
access to shared state is a step of its own:

| State | In the code |
|---|---|
| `acquire`, `wait` | the loop of `Before` (`cache.go:223-238`) |
| `leaderPeek`, `waiterPeek`, `plainPeek` | `tryHit` by the leader, after a wait, without singleflight |
| `release` | `flight.done` after a hit (`cache.go:227`) |
| `chain` | the `Before` hooks of other plugins |
| `query` | the statement, or the query with its scan and close |
| `after`, `unlock` | `After`; its deferred `flight.done` (`cache.go:272`) |
| `panicked` | the call was unwound |

`flight` and `closed` are the flight table and the closed channels, `rec` and
`tap` the recorder and the wrapper in the context, `rows` is `info.Rows`, `err`
whether `info.Err` is set. Rows are kept as the write they show, and as all, the
first, or none of the rows of the answer. The store is the atomic store of the
`Store` interface; it may forget at any time. The database (external) holds per
key the last committed write and at most one uncommitted one. `committed`,
`exposed` and the field `by` are history. `Env` selects what the surroundings
may do, so that a run can leave panics out.

`SingleLoader` is the promise of singleflight: a key has one loader at a time, and
a call loads at most once. The mapping takes as loading the calls between their
miss and the end of their `After`.

### MemoryStore, with TTLMap

Each operation runs under the mutex and is one action on `items` and `lru`; `now`
is the clock. `TTLMap` knows neither deadlines nor order: a value has some time left,
which a tick of the clock takes away, or has for ever. It loses what is deleted, what
is over, and at most one other entry at each `Set`. The mapping (`Live`) gives a key
the value the store would answer now, and says by itself what is over (after the
deadline, not at it), so a wrong comparison in `Get`, a lost test for the zero time,
or a deadline kept by a `Set` is no step of `TTLMap`. `used` is history: all keys by
last use.

### NestedTx, with TxTree

A goroutine calls a method (`ensureOpen` passes), sends its statements, then sets
`closed`: separate steps, between which others act on the same Tx, its parent or
its children. `Ancestry` is the least set of ancestors of a Tx. The database (external)
is a log of writes and savepoints, with the
standard meaning of `SAVEPOINT`, `RELEASE` and `ROLLBACK TO`. A statement may
fail, and the context of `BeginTx` may be cancelled. With `InnermostOnly` the
application uses the innermost open Tx only; then `NestedTx` implements `TxTree`.
`Exec` stands for its statement, which may fail; `Query`, `Get` and `Select` through
a Tx make the same test of `closed` and change nothing here.

### RedisStore

Redis is external: a command is atomic, and a SCAN iteration returns every key
that is there from its first to its last command, and maybe others, in batches of
any size, the empty one included. `Get`, `Set` and `Delete` are a command each.
`DeletePrefix` and `Flush` begin a sweep, whose `Scan` and `Del` are steps of their
own; either may fail. `Flush` of a store without a prefix is one command. `Under`
and `Matched` separate what starts with a prefix from what the glob made of it
matches. `old` is history: the keys due to a sweep that nobody has set since.

### PluginChain

Registration and operations run concurrently; a hook is a step. Errors may come
from binding, hooks, the statement and the scan; hooks and the main path may
panic; and the error handler may panic, which `runAfter` does not recover when
it happens in the deferred function (`core.go:265`): such a call counts as unwound.
`before` and `after` are history: the hooks that ran, and what each `After` was told.

### Placeholders

`parsePlaceholders` over classes of bytes: quotes, name characters, and the marks
`- / * : ?` and newline. An action is one turn of the outer or of an inner loop.
The reference, `Lexed`, is an automaton that reads each byte once and never looks
ahead (`Automaton`, a recursive function on the bytes read), so a wrong look-ahead of
the parser shows. `AsPositional` is the rewriting of names to
question marks, after which the text is parsed again.

### Bind, with Values

A query is a sequence of lexemes, a value a record with what the code asks by
reflection: its kind, its elements, whether it is zero. `BindForExec` and what it
calls are operators; the state machine writes a query of any lexemes and makes one
call. `IsArg` says what an argument of each kind has: a scalar is no list, an
object is one. A `driver.Valuer` whose kind is a slice is a scalar to `bindNamed`, but
`bindForExec` refuses it when slices are not expanded. The reference `Meant` replaces each name by the value of its field, without
positions or question marks; in a batch it expands no list. `bindArgs` are the arguments of the cache key;
`InvalidationFindsKey` compares them with those of `BindNamed`, which the
invalidation uses. A parenthesis inside a literal, which `bindNamedMany` takes for
a real one, is not a lexeme of the model.

### Scan, with Convert, TypeInfo and Codec

`Scan` is the way of a result to the variable of the caller: reads of one query
follow one another, each with a target and a configuration of its own, directly,
with a recorder (a miss), or from the entry an earlier one left (a hit). `ScanRow`
is `Next` and `Scan` of one row; `Finish` stores what was recorded; `SourceFails`
is an error of the database between rows; `Overwrite` is a caller that writes to the
`[]byte` a hit gave it. A target that is a pointer is given a new value first, which is
then read into by its kind (`scan.go:79`), so that a NULL into a `*string` is a pointer
to "". A target `time.Time` is a struct to the code, with no field a column could be
read into: it stays zero, or the read fails in strict mode.

- `Convert` is `convertAssign`. A cell has a Go type and a content; a text says
  what it parses as. Integers have two widths, floats are counted in halves. What
  the processor makes of a float that no integer holds is a choice of the build
  (`build`). `Direct` is the conversion of `database/sql` (external), which fills
  the fields `canFastScan` selects.
- `TypeInfo` flattens a struct, reads its tags and fills the lookups, as
  `buildTypeInfo` does; `typeCache` is the process-wide cache, keyed by type, tag
  name and the code of the mapper, so that two closures of one function collide.
  `MetadataFits` allows that collision, and asks of all metadata found that it was made
  for its own type and tag name by a mapper with the code of the caller's.
- `Codec` is the layout of an entry, as tokens; `Writes` and `Reads` say which
  cells have a tag and what becomes of a time.

## 3. The runs

| Run | Bounds | Shows |
|---|---|---|
| `CacheFlight` | 3 calls, 2 keys, all errors, forgetting, invalidation | the flight is handed back, nobody waits for ever, reads are complete, `SingleLoader` is implemented |
| `CacheFaults` | 4 calls, 1 key, plugins that fail, drop the context, supply rows, rewrap or panic | never two loaders |
| `CacheTx` | 4 calls, 1 key, two namespaces, no singleflight, failing queries and store | isolation, bounded staleness |
| `Stores` | memory: 3 keys, 2 values, capacity 2, a time-to-live from -2 to 2 (0 and less ask for none), clock to 4; Redis: 2 stores, 2 names, 2 sweeps | a bounded LRU map that implements `TTLMap`; prefixes are cleared, stores keep apart |
| `TxNested` | 1 goroutine, 4 Tx, 2 writes | the tree of transactions |
| `TxConcurrent` | 2 goroutines, 3 Tx, 1 write | ending is exclusive |
| `PluginChain` | 2 calls, 2 plugins | one chain, mirrored hooks, once each |
| `Statements` | every query of up to 5 bytes of 9 classes; every query of up to 5 lexemes of 5 with some 60 arguments, lists expanded | the parser and the binding against their references; the parser ends |
| `RowPath` | 2 reads; 31 cells, 22 types and 8 shapes of struct, 6 configurations, among them two closures of one mapper and a mapper of other code; up to 2 columns and 2 rows | the three ways to read agree, and what they share is not mixed up |
| `CachePanic` | 2 calls, panics | **violated** `EveryReadReturns` |
| `CacheMixedOps` | 2 calls, `Get` and `Select` of one key | **violated** `AnswersComplete` |
| `NullColumns` | as `RowPath` | **violated** `NullsBecomeZero` |

**Why the bounds suffice.** A lost wakeup or an orphaned flight takes a leader, a
waiter and one more call that becomes the next leader; two loaders take two calls
after a third has failed. Keys only meet in `InvalidateNamespace` and `Flush`, so
two are enough; where the hazard is one key, four calls are spent on it. Staleness
takes a reader, a writer, and a second writer or reader. Eviction needs one key
more than the capacity, and a use that reverses the order of insertion. A clock of four
instants has one before, at and after the deadline of a value that lives for one, and
room to set it again in between. Three
nested transactions hold a chain and siblings. Two sweeps, two names under the
prefix and other clients give a SCAN something to miss and an empty batch to stop
at. The longest look-ahead of the parser is two bytes, and five hold two
constructs side by side. Five lexemes hold a group of two names in parentheses,
and one name between two others. Two reads are one that leaves an entry, or
metadata, and one that finds it; the cells of `MCRowPath` lie on each side of each
bound of an integer type, and each type, cell and shape is met by each way of reading.
The first row shows the conversions, a second one the places within an entry.

**Fairness.** `CachePlugin!FairSpec` has weak fairness of every call's own steps:
the Go scheduler runs each goroutine that can run, and the driver answers. Starting
a call, ending a transaction, and the API are not fair. Only finitely many calls
exist, so a waiter is not overtaken for ever; the code gives no such guarantee for
an endless stream of new leaders. `StatementsSpec` has weak fairness of the
parser's loop, which waits for nothing.

**Deadlock** is checked for `CacheFlight`, `CacheTx` and `Stores`, where a
state without a next step would be a fault (`Finished` marks the proper end). The
other runs stop by design when all calls are made, the transaction is over or the
query is parsed or bound, the reads are made; in `CacheFaults` a panic leaves
waiters behind, which is the subject of `CachePanic`. Symmetry over calls and plugins is used where a run checks invariants only.

## 4. Where the code and its comments part

1. `CachePanic`. When a panic unwinds a leader after its miss (a driver, or a scan
   into a field of a nil embedded pointer, `scan.go:155`, `meta.go:286`), `After`
   does not run, the flight stays in the table, and each later cached read of
   the key waits for ever. `cache.go:236` expects waiters to compete.
2. `CacheMixedOps`. `Get` records the one row it reads, under the key that
   `Select` of the same query uses; the `Select` then answers with one row.
3. `NullColumns`. A struct field of a basic type is scanned by `database/sql`
   (`scan.go:157`), which refuses NULL whatever `nullToZero` says; the same row,
   recorded or replayed by the cache, reads as zero. `config.go:124` promises the zero.

`After` invalidates whenever an `Exec` has run its course, failed or not
(`cache.go:251-260` does not look at `info.Err`), where `cache.go:41` and `cache.go:113`
say "after every successful Exec" and "after a successful Exec". The model follows the
code; as an entry deleted too often is no wrong answer, no run is about it.

Further disagreements are among the hazards in `PROJECT.json`: invalidation precedes
the commit (`cache.go:254`), `InvalidateQuery` computes its key with the default
configuration (`cache.go:162`), the fragment of a batch ends at the first `)` after
the last name, so that `VALUES (:a, now())` is cut inside (`bind.go:300`, against
`bind.go:289`), a Tx used while a nested one is open loses its writes to the nested
rollback (`core.go:123`), a `uint` wraps silently in a signed field
(`convert.go:196`), and a hit's `[]byte` is the memory of the entry
(`codec.go:234`). Where a property names such a gap it says that there is no other.

## 5. What is proved

Every theorem is about all values of the constants, and rests only on the
assumption of its module on them.

| Module | From | Theorem | Property |
|---|---|---|---|
| `CachePluginProofs` | `CacheAssumptions` | `TypeCorrect` | `TypeOK` |
| | | `SingleLoaderPerKey` | `OneLoaderPerKey` |
| | | `WaitersCanWake` | `NoLostWakeup` |
| | | `OwnersRelease` | `OnlyOwnerReleases`, with singleflight |
| | | `NoFlightIsOrphaned` | `NoOrphanFlight`, if no call panics and no plugin drops the context |
| | | `Refinement` | `ImplementsSingleLoader`, with singleflight |
| | | `CacheHoldsCommitted`, `ReadsAreCommitted` | `NoDirtyEntry`, `ReadsCommitted` |
| | | `StalenessBounded` | `StaleOnlyByOverlap` |
| | | `AnswersAreComplete` | `AnswersComplete`, if `NobodyInterferes` and `OneOperationPerKey` |
| `StoreProofs` | `StoreAssumptions` | `TypeCorrect`, `ListsMatchMaps`, `CapacityIsKept` | `TypeOK`, `ListMatchesMap`, `WithinCapacity` |
| | | `OldestIsEvicted`, `Refinement` | `EvictsOldest`, `ImplementsTTLMap` |
| | `RedisAssumptions` | `RedisTypeCorrect`, `PrefixGetsCleared`, `StoresStayApart` | type, `PrefixIsCleared`, `StoresApart` |
| `PluginChainProofs` | `ChainAssumptions` | `TypeCorrect`, `ChainIsShared` | type, `OneChain` |
| | | `HooksAreMirrored`, `HooksAreTold` | `HooksMirrored`, `HooksSeeOutcome` |
| `NestedTxProofs` | `TxAssumptions` | `TypeCorrect` | `TypeOK` |
| | | `ClosedLeavesNothing`, `EndsOnlyOnce` | `ClosedIsGone`, `EndsOnce` |
| | | `RollbackIsFinal`, `OuterStaysWhole` | `RolledBackNeverDurable`, `OuterUnaffected`, both if `InsideOut` |
| | | `IsATree` | `ImplementsTxTree`, if `InsideOut` |
| `PlaceholdersProofs` | `ByteClasses` | `PlacesAreApart` | `PlacesInOrder` |
| | | `FoundAsLexed` | `FindsThePlaceholders` |
| | | `BindingReadsTheSame` | `StableUnderBinding` |
| `BindProofs` | `BindAssumptions` | `CallsBindAsMeant`, `BatchesRepeatTheGroup` | `BindsAsMeant`, `BatchRepeatsGroup` |
| | | `KeysDetermineArgs` | `KeyDeterminesArgs` |
| | | `InvalidationsFindKeys` | `InvalidationFindsKey` |
| `ScanProofs` | `Widths` | `IntegersAreKept` | an integer is kept, of one conversion |
| | | `ConvertedAlike` | the library and `convertAssign` agree, for one cell |
| | `Widths`, `ResultsAssumption` | `BoundIsReadBack`, `MetadataIsOwn` | `LookupsAgree`, `MetadataFits` |
| | | `FastPathChangesNothing` | `DirectAgrees` |
| | | `HitsAreFaithful` | `HitsAgree` |
| | | `IntegersStay`, `OnlyBytesAreShared` | `IntegersKept`, `OnlyBytesShared` |

**The cache plugin.** `OneLoaderPerKey` speaks of two calls and says nothing of the
flight table, so it is not inductive. `FlightInv` is: a call with a recorder has
missed, and is eligible (`RecorderInv`); with singleflight a call that leads is
the one registered under its key (`LeaderInv`), which makes two leaders of a key
equal; a waiter's leader is closed or registered (`WaiterInv`). The registered
leader is why `FlightDone`, which closes whatever it finds, can only end the
caller's own flight: `OwnersRelease`, and `Refinement`, follow from the same invariant.
`NoOrphanFlight` is proved on top of it, for surroundings that never unwind a call
past its `After`.

Isolation rests on `DataInv`: what is stored, recorded or in the hands of a call
outside a transaction is committed, since `Eligible` keeps calls in transactions
away from recorder and store. Staleness needs more: `WriterInv` relates the value
of the database to the call that wrote it, `HolderInv` says that a call about to
store outdated rows is excused, because its writer has not invalidated yet or
has, after which the holder is in `exposed`; when it stores, the excuse carries over to
the entry.

`AnswersComplete` is false of the code as it stands (`CacheMixedOps`), so its theorem
has hypotheses: no other plugin touches the rows (`NobodyInterferes`), and a key is
read by `Get` only or by `Select` only (`OneOperationPerKey`). The invariant then says of
each answer on its way, in rows, recorder or store, which part of the rows it is.

**The memory store.** List and map hold the same keys, none of them twice, and no
more than the capacity (`ListMatchesMap` with the length of the list); the list is in
the order of use. `Without`, which takes a key out of a list, is shown to keep the
others in order by least counterexample. For `Refinement`, the
deadline that `Set` computes is the time that `TTLMap` gives the value (`FreshEntry`), an entry
that `Get` finds old is one the mapping already shows as nothing (`OldIsOver`), and what leaves
the map otherwise is the one entry evicted, or what was deleted (`LossStep`); a step of the clock
takes one from the time left of all.

**The chain.** The place of a call in its chain says how many hooks have run:
`HooksBefore` and `HooksAfter` tie `ix` to the two histories, and `Outcome` ties what an
`After` was told to the error of the call. That calls share a chain needs the flag
`executed`: once it is set the registered plugins do not change.

**Transactions.** A Tx is past its end, in the database, from the statement that ends
it on (`PastEnd`), and this lasts: a savepoint is set once (`SavepointInv`), and the
session does not come back. A goroutine between the statement and the flag, and a
flag that is set, each mean that the Tx is past its end; the statement takes one
that is not, so that only one goroutine gets through, although all may have passed the test.

That work is lost with the transaction it was done in, and with no other, holds if one
goroutine uses a transaction, and its innermost open Tx only (`InsideOut`; what happens
otherwise is the hazard at `core.go:123`). `TreeInv` says then: the open Tx are a path from the root;
the savepoints of those that are open lie in the log in the order of that path; and a
write after a savepoint was made in its Tx, or in one begun within it. So what
`ROLLBACK TO` cuts from the log is the work of the Tx that rolls back and of its
descendants, and every step maps to one of `TxTree`.

**The Redis store.** What is due to a sweep and still there is owed by the SCAN
iteration, or in the batch about to be deleted (`SweepInv`); at the end nothing is
owed. What lies under a store's keys was set by its kin (`OwnInv`).

**The parser.** A placeholder ends before the byte the parser looks at, or before
the name it reads; a name begins and goes on within the query; and the parser only
goes forward. An unterminated comment leads past the end, where nothing is found.
For `FoundAsLexed`, the parser and the automaton agree before each byte the parser
looks at (`LexInv`): the automaton, having read the bytes before it, is in the mode the
loop of the parser stands for, and has found the same placeholders. A turn of a loop
is one or two steps of the automaton, which is where a look-ahead has to be right.

The second reading, of the text that binding has written (`BindingReadsTheSame`), is
compared with the first byte by byte (`MirrorsStep`). After n bytes of the query, the
automaton on the text so far (`Cut`) is in the same mode, and has as many places, all
positional (`Mirrored`). While the query may be in a name, from its colon on, the text
ends before the colon, in a mode that takes a mark as a placeholder (`Waits`); the end
of the name adds the mark, or it was no name and what was held back is read as it is.

**Binding.** The only state is what was called, and what came of it (`Faithful`); the
theorems are about the operators. A text *spells* a meaning with some arguments if it
reads as that meaning, mark by mark, and has as many marks as there are arguments
(`Spells`). Two texts that do so do so one after the other, though the numbers of the
marks of the second move (`SpellsConcat`), and so do any number of texts
(`SpellsFlatten`): a list with its commas, a query of words and names, and the copies of
a group, for which `GroupFound` says that the code has found it. What is sent is a
function of the arguments of the key (`Sent`: each list expanded), whatever the call. The
theorems hold with and without slice expansion; the run has it on.

**Rows.** `IntegersAreKept` compares the tests of `convertToInt` and `convertToUint`
with the ranges, for any two widths. `ConvertedAlike` compares the two conversions
cell by cell. For direct reads this is lifted to rows (the column that goes wrong first
is the least of a set of numbers): what a direct read has given so far is what it makes
of the rows (`DirectInv`), with the metadata it found. What a key of the metadata cache
finds was built for a configuration that gives that key (`CacheInv`), hence of the same
type and tag name, by a mapper with the same code.

Reads through the cache need the entry between them. `OutInv` says of every read that
what it gave is what it makes of the rows of its source (`GivenSoFar`). `EntryInv` says
of the entry, a sequence of tokens, that the cell laid at each place is the database's,
and `HitInv` the same of what a hit replays, unless a caller has written through a
`[]byte` into that very place (`Laid`, `Replayed`). The entry is a concatenation of
rows, and `FlattenIs` says which token stands where in it.

**Only model-checked.**

- Liveness, `EveryReadReturns` and `ReadsToTheEnd`: `ENABLED` and fairness are beyond
  the proof system's reach.

## 6. What is not modelled

- Contexts, so neither cancellation of a wait (`cache.go:232`) nor of a query; the
  context of `BeginTx` is there, as the rollback it causes.
- Two cache plugins in one chain, which share the context key (`cache.go:200`).
- The hash in a cache key, taken as injective, and `json.Marshal` of its arguments.
- In rows: time layouts and zones (`Encode` cuts the offset to minutes and drops the name
  of the zone, `codec.go:139`), a `[]byte` that is nil, targets of type
  `float32`, struct elements by pointer, embedding deeper than one level, unsafe
  offsets (a field is at its place), callers' own `RowSource` values, entries that
  `Encode` did not write.
- In a batch, the second reading of the fragment by itself (`bind.go:399`):
  `StableUnderBinding` is about a whole query.
- A second `Close` of live rows, which `sync.Once` turns into nothing (`plugin.go:128`); a
  statement through a Tx that another goroutine has ended, which the database answers.
- The characters of `snakeCase`; lexical forms beyond the classes of bytes above.
- Driver detection, logging and error values, which keep no state; formatting.

`CachePlugin` keeps rows as the write they show and the part of the answer they are, and
`Scan` keeps their values: the first is about who may store and answer, the second
about what a stored answer is worth.

What would extend this next: two cache plugins in one chain, with the recorder of
one under the key of the other in the context.
