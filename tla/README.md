# Verification of the Open Data Hub Go SDK

TLA+ models of the packages in this repository, the TLC runs that check them on
small instances, and proofs checked by TLAPS. Every definition that stands for
code is listed in `PROJECT.json` under `map` with the lines it models.

## 1. The system

The SDK is what data collectors, transformers and elaborations of the Open Data
Hub are written with. A collector (`dc`) posts raw payloads to a raw writer; a
message per payload reaches the transformers' queues; a transformer (`tr`)
fetches the raw document through the bridge (`rdb`), overlays reference records
(`reftable`, `merge`) on what it makes of it, leaves unchanged entities out
(`tr.Cache`, `clib.Cache`) and writes to the Content API (`clib`) or to the
time series writer (`bdplib`). An elaboration (`elab`) reads the time series and
writes derived ones back. `qmill` is the queue, `tel` the telemetry.

| Component | State | Operations | What makes it correct |
|---|---|---|---|
| `reftable.Table` | `data`, `stamps`, `ready`, `lastReconcile`, `lastErr`, `stale` under a lock; the walk's `next` | `bootstrap`, `refresh`/`reconcile`, `handleNotification`/`apply`, `notify`, `Health`, `Get`/`All` | readers see whole refreshes only; event time decides; nothing is missed for good; stale tables are reported; `OnChange` fires for every edit |
| `reftable.Set` | `started`, `cancel`, the wait group | `Start`, `Close`, `Healthy` | all tables or none; one refresher each; `Close` returns and leaves none |
| `rdb` | none | `Get`, `GetCompacted` | an error is never a page |
| `tr.Tr`, `tr.CTr` | the delivery under way | `Start`, `handleDelivery` | a message is acknowledged only when it was handled; nothing wedges the queue |
| `tr.Cache` | hash per entity | `Changes`, `CommitAll`, `Forget` | it never remembers what the target does not hold |
| `merge` | none; changes its target in place | `Compile`, `Apply`, `ApplyAll`, `Set`, `MergePatch` | a pure function of target, records and rules; records are only read |
| `clib` cache | hash per entity | `LoadExisting`, `HasChanged`, `Set`, `Delete` | a load is complete or an error; what is left out is in the Content API |
| `clib` client, tags | the attempts of a call | `Get`, `Put`, `Post`, `SyncTags` | a retried request has one effect and its caller the right answer; every tag is created once |
| `bdplib` | `ProvenanceUuid`, `token`, `tokenExpiry` | `PushData`, `Sync*`, `GetStations`, `getToken` | an expired token is renewed; data carries its provenance |
| `elab` station follower | bucket, worker pool | `Elaborate`, `flush` | each station once, in a bucket that covers it; returns when all is done |
| `elab` wide type follower | last timestamp per station | `Elaborate` | nothing elaborated twice, nothing lost in silence |
| `dc`, `ms` | input channel, spans of a collection | `Start`, `Publish`, `End`, `FailOnError`, `GracefulShutdown` | every input is stored once and in order but for one per death; no span leaks; no sender waits for ever |
| `qmill` | the broker's exchanges, queues and bindings; the message under way | `NewQmill`, `PreparePublisher`, `Publish`, `Subscribe` | nothing declared refers to nothing; services start in any order; what is published is settled |
| `tel` | providers, pending spans | `NewTelemetry`, `Shutdown`, `OnError`, `OnSuccess` | spans end, and are exported |

The components meet in these places: the refreshers of all tables of a `Set` run
at once and share its context; a transformer reads tables while they refresh; a
record read from a table is handed to `merge`, by reference; the goroutines of
the station follower push through one `BdpImpl`; the followers read from the
time series what earlier rounds of their own wrote there; processes that share a
file of tags sync it side by side; and services that never call one another
declare, on one broker, the exchanges and queues the others use.

The hard behaviours, listed line by line under `hazards` in `PROJECT.json`: a
collection or store that changes while it is paged through, notifications that
are lost, repeated and reordered, requests that are never answered, processes
that die between a write and its acknowledgement or between two declarations,
requests carried out after they were given up, writes that fail in part,
values shared by reference, half-open intervals, and goroutines on unlocked
state.

## 2. Modules

| Module | Models | Variables and actions ↔ code |
|---|---|---|
| `RefRecord` | `record.go`, `accepts` | a document is a key, a value, an event time and a kind (upsert, delete, malformed, other schema); keys are 1..n in page order |
| `RefTable` | `reftable.go` | one action per stretch between lock, unlock, request and callback: `ReadPage`, `ReadLastPage`, `Swap`, `SetReady`, `RecordSuccess`, `RecordFailure`, `MoveCounter`, `CloseReady`, `OnChange`, `TakeNotification`, `FetchReply`, `Apply`, `Ack`; the environment publishes, removes, hangs, restarts and lets time pass |
| `RefView` | abstract | a view that is replaced as a whole by what a collection served during one refresh, or patched in one key; `RefTable` implements it |
| `RefSet` | `set.go` | `Start` with the mutex held over bootstrap, subscribe and launch; `Close` in its two steps; a refresher per table that works, hangs or leaves |
| `Transformer` | `tr.go`, `ctr.go`, `cache.go` | broker queue, delivery loop, handler with `Diff`, `Push`, `Commit`, settlement and span; `Fetches` chooses `Tr` or `CTr` |
| `PagedLoad` | `clib/cache.go` | `GetPage` per request, in any total order or none, `Finish` with the count check |
| `ContentClient` | `clib/client.go`, `tags.go`, `cache.go` | a call is `Send`, any of `Serve`, `Refuse`, `Hangup` and `Unanswered`, then `Retry` or its end; `SyncTags` posts tag after tag, `Push` goes around the cache; the server may carry out an attempt late |
| `Overlay` | `merge`, as pure functions | documents as functions from paths to labels |
| `Merge` | `merge.go`, `path.go`, `patch.go` | on a heap of objects and arrays with sharing: a step per rule (`SkipRule`, `Clear`, `Replace`), and for a rule that merges a step per call of `MergePatch`, per member, in any order as Go ranges over maps, and per return |
| `BdpClient` | `bdplib/client.go`, `auth.go` | per goroutine: check the uuid, get a token, post, stamp, post; the answer to a token request, storing its expiry and reading the token to return are steps of their own |
| `Elab` | `elab.go` | the interval a station has to catch up on, and the estimate of what lies in it; both followers extend it |
| `WideFollower` | `followtypewide.go`, `elab.go` | `RequestState`, then per chunk `RequestHistory`, `Handle`, `PushResults`, with a failing twin of each |
| `StationFollower` | `follow.go`, `elab.go` | the loop over types and stations, and the flushes beside it, which end or hang |
| `Collector` | `dc.go`, `collection.go`, `ms.go`, `telemetry.go` | the pump as one action per call in its loop (`Receive`, `Handled`, `Post`, `Published`, `Collected`), the failures of each, the deferred close, senders, the end of the process and the next one |
| `Topology` | `qmill.go` | `Declare` per declaration in the order of `forceDeclarations`, `StartFails`, `Open`; `Publish`, `Deliver`, `Forward`, `Ack`, `Nack`; `Options[s]` is what the options of `NewQmill` set; a broker that refuses what differs |

`MCx` modules give the constants of `x` their values. `xProofs` modules hold the
theorems about `x`, `IngestProofs` those about `Transformer` and `Merge`,
`ClibProofs` those about `PagedLoad` and `ContentClient`, and `ElabProofs` those
about the two followers; modules that are proved about together name their
specifications apart (`MergeSpec`, `LoadSpec`, `WideSpec`, `StationSpec`).
Definitions with an underscore, such as `Order_ReferencesLast`, are
the definition before the underscore with a plausible bug; no specification uses
them; `PROJECT.json` pairs each with the property that catches it.

What is abstracted: JSON, hashing, URLs and log lines; hashes are taken to be
injective. Data are a few model values. In `Transformer` the consumer's handler
is written as the comments of `cache.go` tell consumers to write one; that it
calls `Forget` after a write that failed but may have reached the target is
assumed beyond them. The consumer that pushes in `ContentClient` is assumed too,
as the repository has none. In
`WideFollower` a handler gives one result per measurement, each station is of a
type of its own and there is one base type, since rounds of different types
share nothing. In `StationFollower` a bucket without stations is
flushed too, as in the code; its request has an empty interval and no filter of
stations (`elab.go:351`), and whatever it is answered concerns none. In `BdpClient` a string is read and
written whole, although the code has a data race there, and two neighbouring
accesses are one step: a token that is found unexpired is used, and an expiry
that is computed is stored. `StampData` stands for `PushData`, which stamps what
carries no provenance yet, and for `SyncEvents`, which stamps everything. In
`Collector` building a request is one step that
may fail, and an input is a pair of sender and number. In `Topology` the broker
and watermill are external; a topic key is compared whole, since a wildcard only
binds more, and the broker does not count deliveries; `FailOnError` is a `Nack`
followed by a `Die`, and a restart of the broker while a message is held is a
`ConnectionLost` followed by a `BrokerRestart`. `Overlay` is total: a rule that
fails is only in `Merge`, and the two are compared where none does. In `Merge` a slice has no
spare capacity, as slices of up to two elements decoded from JSON have none, and
there is at least one source, since without any there is nothing to do.

## 3. Runs

Bounds are the values in the `.cfg` files; those that are not constants of the
code are commented as `bound` where they are declared.

| Run | Instance | Shows |
|---|---|---|
| `reftable` | 3 keys, 5 documents, a page per key, a budget of 2 pages | regular swaps, no torn value and stamp, `OnChange` called exactly for edits by sweeps and for every notification that is applied, counter right, no regression by the queue; refinement of `RefView`; convergence, walks end, staleness is reported |
| `refset` | 2 tables, 2 starters, 2 closers, 2 calls each | all or nothing, one refresher, `Close` of a started set returns and leaves nothing |
| `transformer` | 2 entities, 2 values, 2 waiting messages | cache never ahead of the target, acknowledged means written, the target catches up |
| `pagedload` | 5 ids, pages of 2, 3 edits | accepted loads are complete, stable ones accepted |
| `content_client` | 2 processes, 2 tags, a pusher with 2 values, one retry, one late attempt | tags appear in order with their first definition and one creator each; the cache is ahead of the store only after a late attempt; repeated `SyncTags` creates every tag |
| `merge` | 2 sources; a table of 1 or 2 rules, then one of 1; 3 sources of values and up to 6 destinations with 2 policies, apart or one within the other in both orders; nested documents; arrays in arrays | the heap ends as the pure overlay says; which records can change; what fails, fails at something in the target that is in the way, or panics at an index directly after an index; what was there before the failed rule is kept |
| `merge_records` | 2 sources of one rule | *violation*: a later source writes into an earlier one's record |
| `wide_follower` | 2 stations, 3 times, chunks of 2, 2 failures | losses are explained, nothing twice, everything not excused is elaborated |
| `station_follower` | 4 stations of 2 types, every state of progress, pool of 2 | each station once and covered, with no flush left running; `Elaborate` returns unless a request is never answered |
| `bdp_client` | 2 goroutines, 6 ticks, lifetime 4, margin 2, latency 1, 2 failures | data without provenance only after a failure; expired tokens are renewed unless the server refused |
| `collector` | 2 senders of 2 inputs, one with a span of its own, 2 lives | the raw writer has what the pump took in order, but for one input per death; no span leaks; no sender waits for ever |
| `topology` | 4 services on 2 exchanges and 2 queues, 2 messages, 2 faults | what is declared stands and refers to nothing missing; all services come up; what is published is settled |

A run checks no `TypeOK`: all of them are theorems (those of `Merge`, the followers
and `PagedLoad` are called `MergeTypeOK`, `WideTypeOK`, `StationTypeOK` and
`LoadTypeOK`).

Why the bounds are enough. Two keys are the least with a key read and a key to
be read during a walk, and five documents give two keys an edit, and between
them a tombstone, a backfill and a refused document; one page per key puts every
write between two pages. The third key makes a collection that may be too large
for a budget of two pages. Two starters and two closers make every pair of calls
of `Set` overlap. Five ids in pages of two make three pages, one of them short,
with an edit at each gap. Chunks of two over three times with two stations give
chunks that begin inside another station's interval, and a gap that a later
chunk passes. Three stations of one type fill, overflow and close a bucket. Two
rules and two sources are the least that can share a value or collide. Two
processes and two tags let each create one while the other meets it, and one
retry with one late attempt gives a request that is carried out twice. Two
senders let one wait while the other's input fails, and two lives let a request
of the first be carried out in the second. The four services are the shapes a
service can have: one that declares its exchange, one that publishes to
another's, one whose queue is bound to another's exchange, and one that gets
what the others reject or cannot route; two faults let one die while another is
already down.

Deadlock checking is off where the model ends: `Set`s that are closed, loads and
overlays that are done, elaborations that returned, clocks at their bound, the
last life of a process, and services with nothing left to deliver.

## 4. Fairness

- `RefTable`: weak fairness of each step of the refresher goroutine, which Go
  schedules, of `Tick`, and of the reply to a request that is not hung; a walk
  ends by its own timeout (`reftable.go:351`). Strong fairness of `Refresh`:
  `select` chooses at random among ready cases (`reftable.go:580`), so a ticker
  that is ready again and again is not passed over for ever. No fairness of
  publishers, notifications, faults or restarts.
- `RefSet`: weak fairness of goroutines; strong fairness of a refresher's exit,
  by the same `select`. Requests under a cancelled context return.
- `Transformer`: weak fairness of its loop and of the broker; none of faults.
- `WideFollower`: weak fairness of its steps, since elaborations are run on a
  schedule; none of measurements or faults.
- `StationFollower`: weak fairness of the loop and of the end of each flush none
  of whose requests hangs. The clients set no deadline (`client.go:225`,
  `auth.go:78`, `elab.go:314`), so any flush may hang (`FlushHangs`); it then
  keeps its place in the pool and in the wait group for ever. `Returns` excuses
  that by name: the loop waits for one that hangs (`Held`), or every place in
  the pool is taken by one (`Exhausted`).
- `ContentClient`: weak fairness of each call, of `SyncTags`, which a service
  repeats at every start until it returns nil, and of the pusher. None of what
  the server does late, nor of failures, which cease at `calm`.
- `Collector`: weak fairness of the pump, whose handler is assumed to return,
  and of the restart of a process that is down. None of the raw writer: the
  request has no deadline (`collection.go:147`), and `SendersAreReleased`
  excuses one that is never answered.
- `Topology`: weak fairness of a service's start, which whoever runs it repeats,
  and of the delivery and settlement at a subscriber. None of publishers or
  faults.

`BdpClient` states no liveness, so it assumes no fairness.

Liveness properties say "once disturbances cease": `<>[][~Disturbance]_vars`, a
variable that says so (`calm`), or a bound on faults.

## 5. Proofs

Assumptions are the named `ASSUME`s of the modules, no more.

`RefTableProofs` proves, for any keys, documents, page size and budgets, what
`reftable` checks, the refinement included. None of the
properties is inductive. Its invariant is a conjunction of: `TypeOK`;
`ControlInv` (what each program counter implies of `ready`, `readyCh`, `delta`
and `msg`); `KeyInv` (a document served for a key is one of that key, and was
offered during the walk); `WalkInv` (a key at or below the cursor has been read
and holds what one offered document gives, a key above it is not in `next`);
`StampBelongsToValue`; and `ConsumerInv` (where the consumer may be behind). The
argument for `SwapIsRegular` is that the cursor only moves to a key that was
served, so at the last page every key is either read or was absent from the
rest, hence `NoRev` was offered.

`RefSetProofs`, for any number of tables and of goroutines that call `Start` and
`Close`: a set is bootstrapped as a whole or not at all, each table has at most
one refresher, and a `Close` that found the set started leaves none. The
invariant says what the stage of the goroutine inside `Start` implies for the
tables (`StageInv`, `RunInv`), and that there is one such goroutine, as it holds
the mutex.

`IngestProofs` is about two modules. `Transformer`: types, the cache is never ahead
of the target, and what is acknowledged is written. The invariant adds what a
handler knows between `Diff` and `Commit`: entities outside `changes` are equal
to the document in the target already. A second invariant gives `NewestIsKept`,
the safety core of `CatchesUp`: the newest document is in the target, or
unsettled, or was dropped by a `Nack`. It says that the last document among the
unsettled deliveries, the one being handled first, is the newest (`EndsWith`);
that a handler writes only while some document is unsettled, so that an older one
delivered again is never the last word; and that when none is left the target
holds the newest.

`Merge`, for any documents, records and tables, of any depth and length: types;
which records can change (`OnlySharedRecordsChange`); and why an overlay fails
(`FailureIsExplained`): where the target has something in the way
(`FailsWhereBlocked`), or with a panic, at an index directly after an index
(`OnlyNestedArraysPanic`). That a record which no rule has shared stays as it was
is not inductive, as the heap might already lead from the target into it.
`MergeInv` excludes that: no reference from outside such a record leads into it
(`Shielded`), and no call of `MergePatch` builds in it (`CallsInv`); a rule reads
from it a scalar, or an object that it merges, hence copies, member by member
(`Copied`), and the objects below it are copied by the calls below. Each operation on the heap
has a lemma that it keeps this (`StoreKeeps`, `NewKeeps`, `SetKeeps`, ...). Paths
have any length, so a lemma about one goes from each step to the next: what
holds before the first and carries over holds up to the last (`UpTo`, from the
well-foundedness of the numbers). For `FailsWhereBlocked` the walk of `Set` has
to be followed through what it stores itself: filling a null or growing an array
on the way leads no earlier step elsewhere (`RewriteReaches`), so the value that
stopped it is found under the same path in the target left behind.
`ApartRulesCommute` is about `Overlay`: two rules trade places, for every document
and all records, if neither destination leads through the other and they agree on
the containers they share. That is what the promise that order does not matter
(`merge.go`) takes, where no rule fails; `OrderIsIrrelevant` in section 6 is what
goes wrong without it.

`ClibProofs` is about two modules. `PagedLoad`, for any collection, page size and
order: types; a load that succeeds without deletions is complete; and one that
nothing disturbs is not refused. For completeness the invariant is that
everything cached is in the collection unless something was deleted, so equal
cardinality means equality (`FS_Subset`). For acceptance (`StableInv`) it is that,
while undisturbed, the total still holds and the cache is what the pages served
so far have, the first entities in the order of the ids; the last page has the
last entity, since positions are counted without gaps (`PlacesAreCounted`,
`PagesHoldAll`). `ContentClient`, for any number of processes, tags, retries and
late attempts: the four safety properties of `content_client`. The invariant says
of every POST of a tag, whether its process waits for it or it is late, that all
earlier tags exist, and of every answer on its way to a process that the item
holds what the process asked for, or was changed by somebody else.

`ElabProofs` is about the followers, for any stations, times, chunk lengths,
buckets, pools and failures. `WideFollower`: types, and both invariants of
`wide_follower`. Neither is inductive: that nothing is elaborated twice rests on
the order in which the chunks of a round pass over time. The invariant follows
the measurements that are open, neither elaborated nor excused: they lie after
all that was elaborated and, unless in hand, after the mark of their station
(`OpenInv`, with `MarkInv` and `WalkInv` on what a mark and a batch are); and the
chunks walked have left nothing open of the interval the round began with
(`RoundInv`, `ChunkInv`). `StationFollower`:
types, and that each station that is behind is flushed in just one bucket, which
covers its interval. The invariant is that a station that was walked and is
behind is in a bucket (`CollectedInv`), the one being filled or a launched one, no
two of which share a station (`ApartInv`), and that every bucket covers its
stations, whatever order they were added in (`BucketInv`).

`BdpClientProofs`, for any number of goroutines: types; data goes out unstamped
only after a failure, because a goroutine about to stamp finds the uuid set or a
failure behind it; and no expired token is used unless the server refused.
`ClientAssumption` has `2 * Latency <= Margin`: the 600 seconds hold two token
requests, which is what lets goroutines overlap. The invariant (`Fresh`) is that
the expiry never exceeds that of the token, and that a goroutine which has
stored a token but not its expiry sees none asked for more than a latency before
its own.

`CollectorProofs`, for any number of senders, inputs and lives: both invariants
of `collector`. Order is inductive only for all that is not lost, the input
being collected included; what makes it so is that a request not yet carried out
(`PostedIsUnderWay`) is of the input being collected, which is the last one
taken, or of one that is lost, and that what was taken is neither what a sender
waits with nor what it will send (`TakenIsPast`).

`TopologyProofs`, for any services, options and messages: types, the
declarations of `topology`, `NothingMissedOnceUp`, that a message published
once a subscriber has been up reaches its queue, and `RoutedIsKept`, that in each
queue it went to it waits, or is with a subscriber, until it is settled. The invariant follows a service
through its declarations (`MadeSoFar`); it is kept since no step takes a
declaration back, and gives the references since `Order` puts first what is
referred to. `RoutedIsKept` is inductive given the types; its lemmas say what
each change to a queue, an arrival, a delivery, a return, keeps in it.

`NewestIsKept`, `NothingMissedOnceUp` and `RoutedIsKept` belong to no run: they
are the safety behind `CatchesUp` and `PublishedIsSettled`, which the runs check
instead. Each holds on the instance of its run when added to the `.cfg`.

Only model-checked: liveness and everything about `ENABLED`, which TLAPS does
not do (`Converges`, `WalkEnds`, `StaleEventuallyCounted`, `CloseReturns`,
`CatchesUp`, `AllElaborated`, `Returns`, `TagsGetCreated`, `SendersAreReleased`,
`AllComeUp`, `PublishedIsSettled`); and two properties of `Merge`, `OverlayIsPure`
and `FailureKeepsTheRest`. That the heap ends as `Overlay` says, or up to the
failed rule does, is an induction over documents, and over the tables that
`FoldLeft` goes through, which the provers cannot do. Every other property of a
passing run is a theorem.

## 6. Disagreements found

`findings` in `PROJECT.json` has the code line, the quoted statement and the run
with the counterexample of one defect, `merge_records`.

The modules state some more formulas, each the stronger form of one that holds,
that the code does not satisfy. They belong to no run; each is refuted by TLC
when it takes the place of the properties in the `.cfg` named here.

| Formula | `.cfg` | What happens |
|---|---|---|
| `DeletedKeysStayDeleted` | `RefTable` | a sweep keeps no event time of a tombstone (`reftable.go:417`), so a late notification of an older document revives the key until the next sweep |
| `RefresherComesBack` | `RefTable` | the fetch of a notified document has no deadline (`reftable.go:620`); one that is never answered ends all sweeps |
| `CallbacksAreEdits` | `RefTable` | a notification repeated with an equal event time is applied once more and called back, though nothing changed (`reftable.go:537`) |
| `EveryCloseReturns` | `RefSet` | a `Close` that overlaps a `Start` finds nothing to cancel and waits for the refreshers that start afterwards (`set.go:134`) |
| `FailedSpansSayError` | `Transformer` | `OnSuccess` follows `OnError` (`tr.go:78`) |
| `NothingSilentlyMissing` | `PagedLoad` | a deletion between two pages hides an entity, and the deleted one makes up for it in the count (`cache.go:176`) |
| `OrderIsIrrelevant` | `Merge`, with `Tables <- Overlapping` | destinations are told apart by their text (`merge.go:137`), so one may lie within another; then "application order does not matter" (`merge.go:164`) fails, as the later rule decides |
| `OverlayIsPure` | `Merge`, with `Tables <- Rereading` | a record read by three rules of one table: the first stores an object of it in the target, the second writes into that object, and the third reads it again (`merge.go:187`) |
| `ReplaceOwnsTheDestination` | `Merge`, with `Tables <- WholeDocument` | replacing the document only copies keys into it (`path.go:147`) |
| `NothingPanics` | `Merge` | `$.a[0][0]` indexes the empty array just created (`path.go:168`) |
| `ReturnsAnyway` | `StationFollower` | a request of a flush that is never answered keeps its place in the pool and the wait group (`follow.go:163`): no client has a deadline |
| `BucketsStaySmall` | `StationFollower` | the overflow check adds estimates for different intervals (`follow.go:160`) |
| `OnlyFailedChunksAreLost` | `WideFollower` | intervals are half-open, a failed station is marked up to the end of its chunk, inclusive (`followtypewide.go:284`): the measurement at the end of a failed chunk is passed over |
| `ExpiredIsRenewed` | `BdpClient` | a refusal renews the expiry of the old token (`auth.go:101`) |
| `CacheIsTrue` | `ContentClient` | a write given up after a timeout may be carried out after a later one (`client.go:162`), so the cache calls the older entity the current one |
| `StartReturnsItsError` | `Collector` | the range ends when the input channel was closed, and the deferred close closes it again (`dc.go:72`): Start panics instead of returning its error (`dc.go:92`) |
| `PendingIsFlushed` | `Collector` | neither the panic of `FailOnError` ("flushes pending spans", `ms.go:30`) nor `Shutdown`, which has no providers to shut down (`telemetry.go:160`), exports what the batcher holds |
| `DirectRoutesByDestination` | `Topology`, with `Options <- DirectOptions` | only a topic exchange is given the destination as routing key (`qmill.go:47`); on a direct one every message has the empty key |

## 7. Not modelled

`Lookup` and `Static`, `urn`, ids, data types and mocks have no state of their
own. Of `tel` the parts a process meets are in `Collector`, `Transformer` and
`RefTable`; the rest, the logger and the HTTP middlewares wire a library. URL
building, JSON decoding and message payloads are conversions no property depends
on. Of `clib`'s client `PutMultiple`, which nothing in the repository calls, and
the OAuth transport of a library are left out; of `qmill` the options only the
broker acts on (delivery limits, expiry) and wildcards in topic keys. A zero
`ChunkDuration`, the building of data maps and CSV files are left out.

A composition of `Collector` with `Topology`, from the sender to the
transformer's acknowledgement, was written and dropped: with one input, one
fault and one restart it has over two million states, too many for its liveness
to be checked, and its safety is that of the parts, which share only the message
the raw writer publishes. A composition of `RefTable`, `Merge` and `Transformer`
shares only records read under the table's lock; that they may be written
through is the finding `merge_records`.

## 8. Plan

In order of importance; all but the last are done.

1. `RefTable` with `RefView`, its run and `RefTableProofs`.
2. `RefSet` and `RefSetProofs`.
3. `Transformer` with its cache, its part of `IngestProofs`.
4. `PagedLoad`, its part of `ClibProofs`.
5. `WideFollower`, `StationFollower` and `ElabProofs`.
6. `Merge` against `Overlay`, its part of `IngestProofs`.
7. `BdpClient` and `BdpClientProofs`.
8. `ContentClient`, its part of `ClibProofs`.
9. `Collector` and `CollectorProofs`.
10. `Topology` and `TopologyProofs`.
11. The safety behind the liveness of `Transformer` and `Topology`, as theorems.
12. Delivery limits and wildcard keys in `Topology`.
