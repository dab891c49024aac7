# A TLA+ verification development for majordomo-steward

majordomo-steward is an LLM proxy.  It forwards requests to providers, logs
them in PostgreSQL, and keeps an org's Butler (the control plane) informed:
usage records, replay and eval results go up; jobs, keys and experiments come
down.  The specifications here cover how a request is served and what happens
between it and Butler, in both directions: caches in front of tables that change,
goroutines that share channels and maps, statements and calls that fail half way,
shutdowns in an order that matters, crashes and restarts.

Contents: 1 inventory · 2 plan · 3 modules and code · 4 runs · 5 bounds ·
6 fairness · 7 proofs · 8 abstractions · 9 where code and documents disagree ·
10 what is not modelled

## 1. Inventory

| component | state it keeps | operations | talks to |
|---|---|---|---|
| Request log writer (`requestlog/writer.go`, the tail of `proxy/handler.go`) | `logChan` (capacity 1000), `done`, the write loop; tables `llm_requests`, `claude_request_details`, `claude_sessions` | `WriteRequestLog`, `writeLoop`, `writeLog`, `Close` | handlers (channel), sketches (calls), PostgreSQL |
| Metadata key sketches (`repositories/hll_manager.go`) | map of HyperLogLog sketches with dirty flags and counts; `llm_requests_metadata_keys` | `AddValue`, `Flush`, `LoadFromDB`, `Stop` | write loop and flush loop share the map under a mutex |
| Usage reporter (`stewardclient/reporter.go`, `repositories/steward.go`) | `stopCh`, `doneCh`; its queue is `llm_requests.synced_to_butler` | `run`, `flush`, `send`, `Stop` | PostgreSQL, Butler |
| Results reporter (`stewardclient/resultsreporter.go`, `repositories/replay.go`, `eval.go`) | `synced_at` and `updated_at` of six tables | `flushAll` and its four flushes, the worker's writes | PostgreSQL, Butler, the co-located worker |
| Worker manager, org registration, managed poller (`steward/workers.go`, `services/org_registration.go`, `api/admin_handler.go`, `stewardclient/managed.go`) | `active` map under a mutex; `registered_orgs`; Butler's assignments | `StartOrg`, `StopOrg`, `StopAll`, `LoadFromDB`, register, deregister, poll, claim | all workers; Butler; admins |
| Process life cycle (`cmd/majordomo-steward/main.go`, `steward/steward.go`, `server/server.go`) | the process itself | `Build`, `Start`, `ShutdownWithTimeout` | everything above |
| Work ticker (`stewardclient/workticker.go`, `replaysync.go`, `evalsync.go`) | the items claimed in this tick; jobs at Butler | `run`, `tick`, `fetchWork`, `dispatch`, `markResult` | Butler, run tables |
| Cursor and snapshot syncers (`keysync.go`, `experimentsync.go`, `cloudsync.go`, `providerkeysync.go`) | cursors in memory (zero after a restart), local copies | fetch page, upsert, advance; fetch all, upsert all | Butler, PostgreSQL, called by the ticker |
| API keys and proxy keys (`auth/resolver.go`, `auth/proxy_resolver.go`) | LRU caches with a TTL; three tables | resolve, revoke, map, sync | proxy handler, admin API |
| Active metadata keys (`repositories/active_keys_cache.go`, `metadata_keys.go`) | a cache with a TTL | get, activate, deactivate, invalidate | log writer, admin API |
| Experiment router (`proxy/experimentrouter.go`, `repositories/experiments.go`) | cached lists per org | `Route`, `OverrideModel` | proxy handler, experiment sync |
| Pricing (`pricing/service.go`) | the price table, the refresh loop | load, refresh, merge, `Calculate`, `Close` | a price list by HTTP, a file |
| Proxy handler (`proxy/handler.go`, `deprecatedmodels`, `provider/`) | one request | detect, check, override, translate, forward, relay, log | all of the above, providers |
| Body storage (`storage/s3_user.go`, the handler's config caches) | config caches, one client per owner | look up, upload | PostgreSQL, S3 or GCS |
| Claude Code sessions | session rows | open, add totals, end | log writer |
| Configuration, secrets, HTTP plumbing, listings | none, or read once | stateless conversions and I/O | |

**Hard behaviours**, by component; every one has a line in `PROJECT.json`
under `hazards`.

* *Request log*: the goroutine that logs a request is awaited by nobody; the
  channel drops when full; `Close` signals the write loop and does not wait for
  it; a row and what is derived from it are separate statements.
  *Correct if* logs are stored at most once and in order, nothing vanishes
  without a warning unless something failed, and totals never exceed the rows.
* *Sketches*: a flush takes the dirty entries under the lock and writes them
  after unlocking, while the write loop counts and registers keys.  *Correct
  if* no use of a key is counted twice and a persisted sketch never shrinks.
* *Usage reporter*: a POST can be served after its sender gave up, a reply can be
  lost, the mark can fail, the process can die.  *Correct if* a row is
  marked only after Butler has it, under its own org, each row gets there in
  the end, and repeats are bounded by what failed.
* *Results reporter*: a row is marked by id, whatever has been written to it since
  it was read.  *Correct if* a change is lost only where it raced with a flush.
* *Worker manager*: "store, then start" and "stop, then remove" interleave.
  *Correct if* rows and workers agree whenever nothing is under way.
* *Life cycle*: the reporters are stopped before the log writer.  *Correct if*
  the rows a shutdown leaves behind are reported after the restart.
* *Work ticker and syncers*: a job is claimed, worked on in several statements, and
  answered, with one deadline over all of it; a cursor is one timestamp.  *Correct
  if* a job is acked only when what it asked for is in the local tables, a run
  never appears without its set, and every job is answered in the end.
* *Caches* (keys, proxy keys, experiments, active keys, body configs): a verdict is
  read, the table changes, the verdict is stored.  *Correct if* what is
  answered was true at most an entry's life and a query ago, and every exception
  can be named.
* *Pricing*: a refresh replaces the table and merges the file in two critical
  sections.  *Correct if* the list decides, then the file, then the alias.
* *Proxy handler*: three rewritings, each of which starts from the client's body.
  *Correct if* the row tells what was sent.
* *Streams*: a stream may be cut anywhere.  *Correct if* what came whole is charged.

## 2. Plan

Done, in this order: `MetadataKeys`, `RequestLog` with `UsageLog` above it;
`Reporter` with `ReliableDelivery` above it; `UsagePipeline`, which composes
the two; `ResultsReporter`; `OrgWorkers`; `ReporterProofs`.  Then the way down and
the way in: `WorkTicker` (with the cursor and snapshot syncers it calls) and
`JobQueue` above it; `KeyResolver`, `ProxyKeys`, `ExperimentRouter`, `ActiveKeys`,
`BodyStorage` for the caches; `Pricing`, `ProxyHandler`, `StreamedUsage` for a
request; a record that Butler rejects in `Reporter` and the limit on scores in
`ResultsReporter`; `PricingProofs` and `ResultsReporterProofs`.  Then the proofs of
everything else the passing runs check for safety: `OrgWorkersProofs`,
`RequestLogProofs`, `WorkTickerProofs`, the rest of `ReporterProofs`,
`UsagePipelineProofs` on top of two of them, and `ServingProofs`.

To come:

1. Proofs: more that holds end to end, as `NothingIsMadeUp` does; and the parts
   of `Serving` whose other constants are those of `MCServing` (section 7) for any
   values of these too.
2. Composition: `ProxyHandler` with the caches it asks, where its answers are now
   arbitrary, and `WorkTicker` with the first half of `ResultsReporter`.
3. `ClaudeSessions`: creation, reuse and end of a session by concurrent requests.

## 3. Modules and the code

Every definition that stands for code has an entry in `PROJECT.json` under `map`.

**`MetadataKeys`** models `HLLManager`.  `hlls` is its map, `toFlush` the local
map of `Flush` and `flusher` the position of `flushLoop`; `keyRows` is the table.
`AddValue` and `RegisterKey` are operators without a guard, since the write loop
calls them; `FlushTick`, `FlushLast` and `FlushRow` are the flush loop's steps.
A sketch is the set of the values it has seen, its estimate the size of the set.
The sketch written is the one in memory *at the time of the write*, because the
code copies the pointer and not the sketch.

**`RequestLog`** extends it with the handlers, `logChan`, the write loop and the
process.  `handler[r]` follows a request from `ServeHTTP` ("serving") to its
`logRequest` goroutine ("logging") and its end ("returned", or "dropped" when the
channel was full).  `loop` is the write loop with the log in its hands; each SQL
statement of `writeLog` is a step, and each can fail.  `proc` goes through the
steps of `ShutdownWithTimeout` and `Writer.Close` in the code's order; once it is
"closed" every statement fails.  `Crash` is possible anywhere; `Restart` is
`LoadFromDB`.  **`UsageLog`** is what the writer promises, with two variables:
accepted logs leave the queue from its head, into the table or lost.

**`Reporter`** models one reporter per org on the shared table.  `rep[o]` is the
goroutine (position, batch in hand, `stopCh`), `post[o]` the HTTP call it waits on,
`late` the calls it no longer waits on, `butler` a count of ingestions per org and
record.  `Poison` are the records Butler rejects whenever it sees them: the page
that holds one is refused (`Refused`), and `EveryRowIsReported` says what else that
holds up: no row of another org and none that is a page or more ahead of it.  `owed` and
`clean` are history variables of the final flush.
**`ReliableDelivery`** is the abstract at-least-once delivery it implements.

**`UsagePipeline`** instantiates `RequestLog` and `Reporter` on the same `rows`,
`proc` and `deaths`.  Its actions are those of the two components, restricted by
what `Server` does with both: workers start in `Build`, requests come after that,
a shutdown stops one reporter after the other, waits for each, and only then
closes the log writer; a crash takes everything.  Its steps on the log are
`RequestLog`'s own, some of them restricted, so what holds of the log alone holds here.
`ImplementsReporter` says that what `Reporter` assumes of the table and of the end of
the process is what the log writer and the shutdown do, and `WholeWay` what the two
come to together: what Butler holds is what the writer accepted.

**`ResultsReporter`** models the tables of replay and eval as versions: a row is the
number of the last write to it, what Butler sees is the version that was *read*,
what is marked is the row.  The worker that writes results is not in the
repository; its steps are the write operations the repositories offer it.  The
four tables are flushed in the code's order, one page of each per flush.

**`OrgWorkers`** models `registered_orgs` (`table`), `WorkerManager.active`, the admin
requests (each with a store step and a start step, or a stop step and a remove
step), the managed poller and Butler's assignments, `LoadFromDB`, and
`ShutdownWithTimeout` up to `StopAll`.  `raced` is a history variable: the orgs
for which a registration and a deregistration were under way together.

**`WorkTicker`** models the ticker goroutine `wt` with the items of its tick, the job
it works on and the rows in its hands.  `butler` holds Butler's rows with their
stamps, `jobs` its queue, `local` the steward's tables, `cursor` the two syncers'
cursors.  A page, a statement of an upsert, an ack: each is a step and each can
fail, and `Expire` makes every later call of the tick fail.  Rows are committed with
a stamp that may tie with others or lie in the past.  `owed` remembers what a job
asked for when it was claimed and `missed` what a cursor passed over, so that
**`JobQueue`**, the abstract queue, can say: acked only when in effect.

**`KeyResolver`**, **`ProxyKeys`**, **`ExperimentRouter`**, **`ActiveKeys`** and
**`BodyStorage`** each model one row (or one owner's configs), the cache in front of it,
and a few concurrent lookups with the steps the code has between the cache and the
table.  Time is kept as *ages*: an entry has time left, a change has an age,
and ages beyond what any property distinguishes are one (`Cap`).  No clock is
needed, so the models are finite without a bound on time.  `Tick` waits for a lookup
that has used up `MaxLookup`, `MaxFetch` or `MaxUpload`: this is what the constants mean.
In `BodyStorage` a request that has closed the registered client has yet to make the new
one, which may fail (`CreateFails`): the closed client is then still registered, and `stuck`
remembers it.  An upload may fail on an open client too (`UploadFails`).
`ExperimentRouter` also has `ArmsGetTheirShare`, which compares the arithmetic of the
weighted draw with the share each arm should have, for all weights of a small set.

**`Pricing`** has the startup (`loadPricing`), the refresh loop with its two critical
sections and `Calculate`.  **`ProxyHandler`** is one request: `q` what it is, `up`
what goes upstream, `tags` what the row will say, `pc` the step of `ServeHTTP`.  The
resolvers and the router are any of their answers.  The providers it tells apart are
those that the steps treat differently; `openai` and `azure` stand for fireworks,
together and the other OpenAI-compatible ones.  **`StreamedUsage`** is one answer:
events relayed and captured, a cut between events or within one (for Bedrock, also one
that leaves too little of a frame to tell its length), and the parser of each format.
The parsers differ in what they take: the last count of a stream, for Anthropic the
input of `message_start` and the output of `message_delta`, for Bedrock nothing if a
frame is cut, for a Gemini array its last element, whatever that carries.

**`MC*`** modules give the constant operators (which org a request belongs to, its
metadata, the parent of a result) for the configurations of the same name, and the
families of behaviours (section 5).  `MCServing` sets the parts of serving a request
side by side: they share no variable, a behaviour picks a part at the start
and only that part moves, so one run checks all of them and the state space is the
sum of theirs.  Its assumption `MCServingAssumption` evaluates the assumptions of every
part and `ArmsGetTheirShare`.
Definitions marked `mutant` in the modules are deliberate bugs; `PROJECT.json`
lists, for every property, one that it must catch.

## 4. Runs

| run | what it asks | answer |
|---|---|---|
| `RequestLog` | Do concurrent requests, both loops, shutdown, crash, restart and a failing statement keep log, totals and sketches in agreement (`DerivedMatchesLog`), and does everything end? | yes |
| `RequestLog_close` | Does `Close` drain the channel, as its comment says? | no (9.1) |
| `RequestLog_flush` | Does `Flush` persist every dirty sketch, as its comment says? | no (9.2) |
| `Reporter` | Is delivery to Butler at least once, in order, under the right token, and repeated only when something failed? Does the final flush drain what it found? What does a rejected record hold up? | yes; only its own org's queue from the page on that it is in |
| `UsagePipeline` | From the request to Butler, is nothing made up, sent for another org or repeated without a failure (`WholeWay`)? Do the reporters keep to their specification in company? And is what is served, or at least stored, reported in the end? | yes |
| `UsagePipeline_shutdown` | Does a shutdown leave nothing to report? | no (9.3) |
| `ResultsReporter` | Is a change lost only by racing with a flush? Does a failing table hold up the next? Does a score travel with its result? | yes; no; yes, unless more scores are unsynced than one fetch returns |
| `ResultsReporter_end` | Does every run's final status get to Butler? | no (9.4) |
| `OrgWorkers` | Do rows and workers agree (`WorkersMatchRegistrations`) under concurrent admins, the poller, faults, a crash and a shutdown? | yes, outside overlapping operations |
| `WorkTicker` | Is a job acked only when its work is in effect, through partial upserts, lost replies, an expired tick and a restart? Is every job answered? | yes, but for the rows a cursor passes over |
| `Serving` | How stale can each cache get, where do bodies go, what does a row say of a rewritten request and of a cut stream? | within the times and exceptions each property names (5.5 million states, two minutes) |
| `Serving_experiment` | Was a row's experiment applied to its request? | not always (9.5) |

What each property says is in the comment above it.  The action property
`SketchesOnlyGrow` is guarded by `hllLoaded`: a process whose `LoadFromDB` failed
starts with empty sketches and overwrites the stored ones, which the code accepts
with a warning.

## 5. Bounds

Counters are bounded by guards and every bound is a constant.

* `MaxFaults` bounds failing statements and calls *in total*, `MaxDeaths` crashes
  and restarts.  One or two of each are enough for the interesting pairs (a lost
  reply followed by a failing mark; a crash while a late POST is under way).
  Liveness is checked in behaviours where failures eventually stop.
* `RequestLog`: three requests and a channel of two, so that the channel fills up
  while the loop has a log in its hands; one metadata key used by two requests with
  different values; one session; one log of Claude Code without a session.
* `Reporter` explores three families of behaviours: one org with three rows in
  pages of two, so that a full page is followed by a partial one; two orgs with a
  row each and a row of no org; and an org with a rejected record among others.  Two
  faults and one death.
* `UsagePipeline`: two requests, a channel and a page of one, no metadata (which
  `RequestLog` checks alone): each component's limits are met at once.
* `ResultsReporter`, three families: two reporters on the replay tables; the eval
  tables with one score that is scored twice, two faults and a death; two scores
  where one is all a fetch returns.  Pages of one row.
* `OrgWorkers`: one org under two tokens and two concurrent admin requests.  The
  orgs do not interact: every operation names one.
* `WorkTicker`: two jobs in pairs, so that every type occurs and most share a tick;
  two rows of each cursor table in pages of one, two changes at Butler (which can tie
  or come late), three offers, one fault, one death.
* `Serving`: two concurrent lookups, a TTL of one and queries and uploads of at most
  one time unit.  All that matters is which of the two is over first, and whether the
  sum is exceeded, and one unit each decides that: ages go up to the sum and one or
  two beyond.  Four models; three weightings of two arms; three events of a stream.

`CHECK_DEADLOCK FALSE` is set where the process may stay down, since nothing in the
repository restarts it, and where a request is answered and done.

## 6. Fairness

Weak fairness of each goroutine's next step: the Go scheduler runs a goroutine
that can run, tickers tick, and `database/sql` and `net/http` calls return (the
client has a timeout of 30 s, statements end with an error once the pool is
closed).  The shutdown sequence of `main.go` goes on once begun.  Nothing is
assumed of clients, operators sending SIGTERM, the worker, or Butler's assignments;
Butler is assumed to serve a request that reaches it and is still waited for.
`Restart` is fair only in `UsagePipeline` and `OrgWorkers`, whose liveness
properties name the case of a steward that stays down; `RequestLog`'s need no
restart.  In `Reporter`, `ResultsReporter` and `WorkTicker` a goroutine that is off is
started again: this is the assumption that its org stays registered.

`WorkTicker` assumes one thing more of Butler: a job that was claimed and never
answered is offered again.  The code never repeats an ack or a fail, so without it
a lost reply leaves the job claimed for good.  With nothing failing,
`JobsSettle` does not use it.

The `Serving` parts have safety properties only: each says what a lookup that
returns may return, and a lookup returns when its query does.

## 7. Proofs

Every safety invariant, action property and refinement that a passing run checks is
also a theorem, for every value of the constants that the module's assumption allows
(for the `Serving` parts, see below).  Each rests on an inductive invariant: what
is claimed, with what must be known of the states in between for a step to keep
it.  The proof modules name its parts, and have one lemma per action or group of
actions.  Where an invariant was in doubt TLC tried it on an instance before its proof.

| module | assumption | theorem | states |
|---|---|---|---|
| `RequestLogProofs` | `RequestLogAssumption`, `MaxFaultsAssumption` | `TypeCorrect`, `LogsAreNotLostSilently`, `DerivedNeverRunsAhead` | `TypeOK`, `NoSilentLoss`, `DerivedMatchesLog` |
| | | `WriterIsAUsageLog`, `StoredAtMostOnce`, `FlushesNeverForget` | `ImplementsUsageLog`; no two rows of a request; `SketchesOnlyGrow` |
| `ReporterProofs` | `ReporterAssumption` | `TypeCorrect`, `SyncedRowsAreAtButler`, `NoRowOfAnotherOrg` | `TypeOK`, `SyncedWasIngested`, `OwnOrgOnly` |
| | | `ReportedInOrder`, `StopDrains`, `RepeatsArePaidFor` | `SyncedIsPrefix`, `FinalFlushDrains`, `DuplicatesArePaidFor` |
| | | `AtLeastOnce` | `ImplementsReliableDelivery` |
| `UsagePipelineProofs` | `UsagePipelineAssumption` | `ReportersAreReporters`, `NothingIsMadeUp` | `ImplementsReporter`, `WholeWay` |
| `ResultsReporterProofs` | `ResultsReporterAssumption` | `TypeCorrect`, `NothingIsLostUnraced` | `TypeOK`, `LostOnlyByRace` |
| `OrgWorkersProofs` | `OrgWorkersAssumption` | `TypeCorrect`, `WorkersFollowRegistrations`, `ShutdownStopsWorkers` | `TypeOK`, `WorkersMatchRegistrations`, `NoWorkersAfterStopAll` |
| `WorkTickerProofs` | `WorkTickerAssumption`, `WorkTickerTables` | `TypeCorrect`, `RunsComeWhole`, `TickerIsAJobQueue`, `NeverOlder` | `TypeOK`, `RunComesWithItsSet`, `ImplementsJobQueue`; local rows never go back |
| `PricingProofs` | `PricingAssumption` | `PricesAreRight` | `Pricing!PricesFollowTheLists` |
| `ServingProofs` | `MCServingAssumption` | `TypeCorrect`, `RevokedKeysStop`, `ExperimentsEnd`, `ActiveKeysAreExplained` | `TypeOK`, `CredentialsAreFresh`, `RoutedAsPublished`, `WrongOnlyByRaceOrFailure` |
| | | `PricesAreOfTheLists`, `BodiesAreStored`, `RowsTellTheModel`, `StreamsAreCharged` | `PricesFollowTheLists`, `BodiesGoWhereTheyBelong`, `TagsTellWhatWasSent`, `UsageLostOnlyByCut` |
| | none | `TrafficFollowsWeights` | each arm is drawn as often as its weight says |

**`RequestLogProofs`**.  `OncePlaced` says that a log is in at most one of channel, hand
and table, and in none before its handler has returned; with `LoopOK` (a log is
stored from its insertion to the end of `writeLog`) it gives `StoredAtMostOnce` and
the refinement.  `DerivedMatchesLog` is not inductive: a count leaves the map in
memory for the flush in progress and then for the table, and a stored log has been
counted for some of its keys and not yet for the others.  `CountOK` counts the three places
and the log in hand together; `SketchOK` says that each sketch in the table is within
the one in memory (for a process that has loaded them), which also gives
`SketchesOnlyGrow`; `SessionOK` has a session's total fall short of its rows only
after a failure or a death.

**`ReporterProofs`** has two invariants.  The first is
`TypeOK /\ BatchIsOwn /\ LateIsOwn /\ AckedWasIngested /\ IngestedIsOwn /\
SyncedWasIngested`.  `SyncedWasIngested` alone is not inductive: marking is safe
because the batch in hand has been ingested (`AckedWasIngested`), for the org it
belongs to (`BatchIsOwn`).  That in turn rests on the reply "ok" standing for the
very batch in hand, which is part of `TypeOK` (`InHand`).  `LateIsOwn` is needed
because Butler may ingest a POST long after its sender has gone on, and
`IngestedIsOwn` because the abstract specification delivers stored records only.
`BatchIsOwn` follows from the WHERE clause of the query (lemma `PageIsOwn`) and
survives because rows are never deleted and never change their org.

The second, on top of it, is `OInv`.  What a reporter has in hand is the first
pending rows of its org (`BatchIsPrefix`), none of them marked; marking a prefix of
what is pending keeps `SyncedIsPrefix`.  `FinalFlush` follows the rows owed to a final
flush through its pages: those not yet marked are in hand or pending.  `PaidFor`
counts, of each record, its ingestions *and* the late POSTs that may still ingest
it, against one plus the faults and deaths: a POST becomes late by a fault or a death, and
is then paid for before Butler serves it.

**`UsagePipelineProofs`** instantiates both proof modules on the composition's state.
Each step of the composition is one of the log or none, and one of the reporters
(with `MaxDeaths + 1` deaths, since a graceful exit takes the reporters with it
as a crash does) or none.  So the theorems of the components hold of the whole, without
being proved again.  The steps of the reporters need the log's invariant in one place:
a row is inserted once.  `WholeWay` combines them: what Butler holds is a stored row
of its org, of a log that was accepted, once but for one more time per failure or death,
and marked only if Butler holds it.

**`ResultsReporterProofs`**.  `IInv` says of each reporter that what it has in hand is
well typed (`Typed`), that each version in hand is the row's own or the row is in
`raced` (`Fresh`), and that while it marks, Butler has seen what it has in hand
(`Acked`).  `LostOnlyByRace` then survives a mark because the versions marked are the ones
posted, and a write because a write puts the row back among the unsynced.  One
part of the assumption is used in an unexpected place: that scores are in a table of
their own.  If a row could be in a batch both as a result and as a score, `Ingest` would
show Butler one of two versions.

**`OrgWorkersProofs`**.  `InStep` holds of every org that is not in `raced`: where a
registration is between its two steps the row is there, where a deregistration is
between its two the workers are gone and no registration is under way, and a
row whose org has no workers is under way or still to be loaded.  `Phases` says what each
state of the process rules out; `NoWorkersAfterStopAll` needs its last part, that
no admin request outlives the drain unless a fault let it.

**`WorkTickerProofs`**.  `HandOK` and `PassOK` say what the rows in hand and the cursor
stand for in the middle of a sync: every row of the table at or before the cursor
is in effect, in hand or in `missed`.  `OwedOK` and `PromiseOK` carry this to the ack: what
a job asked for when it was claimed is in effect once its sync is over without an
error.  `BundleOK` has the set and the items of a run written before the run.  The
proofs need the maximum of a set of stamps; it exists because strict inclusion of
finite sets is well-founded (lemma `Maximum`), which needs no induction.  The
assumption `WorkTickerTables` says that a row is in one table, but for the set and
the items which the eval runs of a set share.

**`PricingProofs`**, for any models, aliases (also chains and cycles of them, of which
one step is taken), lists and files.  Besides types the invariant says how the table was
built (`TableIsBuilt`): from the last list, and where the file was merged, with the
file's prices where the list has none.  `PricesFollowTheLists` follows by cases on
whether the model itself has a price.

**`ServingProofs`** has an invariant for each part of `MCServing` (`KeyInv`, `ProxyInv`,
`RouterInv`, `ActiveInv`, `BodyInv`, `HandlerInv`, `UsageInv`, and `PricingProofs` for
the prices), and one for a behaviour: that of its part.  Those of the caches say the same
in each: a cache entry that is wrong has been wrong no longer than the entry's age
and a lookup, and what a lookup holds, no longer than the lookup has taken.
The properties speak of answers only and are not inductive: an answer is as old as the
entry it came from.  `BodyInv` follows a config on through client and upload (`PathOK`).
Its hardest part is `ClosedOK`, for an upload that finds its client closed: its own
config and that of the request that closed the client have both been the owner's
not long ago, and at most one of them still is, so the owner's config did change.  It
holds of the clients that are not in `stuck`.  A closed client that is registered has
a request that closed it and is still about to replace it; only the failure of that
request's creation leaves it without one, and puts it in `stuck`.
`UsageInv` follows the counts of a stream: they add up to the total over the events that
came whole, but for the output of an Anthropic stream that had no `message_delta`.

These theorems hold for any `TTL`, `MaxLookup`, `MaxUpload` and set of concurrent
requests (`Actors`).  The other constants of a part (providers, models, weightings,
owners and their buckets) are fixed by `MCServing` and stand for the cases the code
distinguishes.  The lemmas on `BodyStorage` are for any owners, buckets and requests, and
`TrafficFollowsWeights` for any weights: it shows what `ArmsGetTheirShare` enumerates.
The sums it speaks of are a recursive function, whose values exist by
the argument of `Maximum`.

The search for `BodyInv` found a bound of `BodyStorage` too small: the request that closes
a client may have been as long on its way as the one that finds it closed, so the times of
two uploads add up.  TLC had not seen it, because with `MaxUpload` at 1 the smaller bound holds too.  The
module now has the sum, and TLC confirms it with `MaxUpload` at 2 as well.

Only model-checked, because the proof system does not reach them: everything with
fairness (`EveryRowIsReported`, `LogsSettle`, `ShutdownTerminates`,
`ServedIsReported`, `StoredIsReported`, `ResultsAreReported`,
`UnracedEndIsReported`, `ScoresGoWithTheirResult`, `AssignmentsAreClaimed`,
`JobsSettle`).  Nothing else that a passing run checks is left to TLC alone.

## 8. Abstractions

* Payloads are absent.  A log is its request, with its metadata values, session and
  org; a row of replay or eval, and any row synced from Butler, is the number of its
  last write.
* `created_at` order is insertion order: the single write loop inserts one row at a
  time, and `created_at` defaults to the time of the insertion.
* Butler and the network are modelled from how the code uses them: a POST is
  ingested as a whole or not at all, once or, after its sender gave up, later; only
  the status 200 (or 2xx where the code says so) counts.  `ResultsReporter` has no
  late POSTs: what they could add there is a version Butler has seen before.
* The placeholders `ANY($1)` over `[]uuid.UUID` in the marks of replay and eval rows
  are taken to work or fail like any other statement.
* A sketch is exact.  The estimate of a HyperLogLog is not.
* `StartOrg`, `StopOrg` and `StopAll` are atomic: they hold the manager's mutex
  throughout, including the wait for the workers' last flush.  `UsagePipeline` and
  `Reporter` model that wait.
* In `OrgWorkers` a decryption or Butler call that fails is a fault of the step it
  belongs to when it is followed by a change of state, and left out when the
  request then changes nothing.
* In the cache modules an entry leaves its LRU cache at any time; `last_used_at`,
  request counts and the background updates of them are left out, since
  nothing reads them back.
* The sticky choice of an arm, a hash of the session, is one of the arms the draw may
  choose.
* Prices are where they come from (list, file, none), not amounts.
* A count of tokens is cumulative within a stream, as the providers send it.
* An eval item does not change at Butler, since it is no more than its set and its
  request: the upsert that leaves a stored item alone (`repositories/eval.go:98`) and
  one that overwrites it come to the same.

## 9. Where code and documents disagree

1. *`Writer.Close`* (`requestlog/writer.go:61`): "Close drains the write channel,
   flushes HLLs, and closes the database."  It closes `done` and goes on; the write
   loop drains concurrently, and what it has not written when the pool is closed
   fails to insert.
2. *`HLLManager.Flush`* (`hll_manager.go:136`): "persists dirty HLLs to the
   database."  `writeLog` counts a key before it registers its row.  A flush in
   between updates no row, and the entry is no longer dirty: sketch and count
   stay in memory until the key's next use, the count for ever.
3. *`ShutdownWithTimeout`* (`steward.go:96-97`): "gracefully stops the server,
   drains all reporter queues, then closes the log writer."  Logs still in
   the writer's channel are inserted after the reporters' last flush.  They are
   reported after the restart (`StoredIsReported`).
4. *`FetchUnsyncedReplayRuns`* (`repositories/replay.go:253-254`): runs "whose
   status/summary has been updated since the last sync".  A run updated between
   the fetch and the mark gets a `synced_at` later than its `updated_at`, and its new
   status, possibly the final one, is never sent.
5. *`ServeHTTP`* (`proxy/handler.go`, where an assignment whose override failed is
   cleared): "so we don't tag the request log with an experiment that wasn't actually
   applied".  An override rewrites the body only.  A Bedrock or Gemini request has its
   model in the path, and for `anthropic-openai` the translation starts from the
   client's body again: the upstream gets the client's model and the row the
   experiment's tag.  The redirect of a deprecated model shares the flaw.

More observations, which contradict no document, or one only loosely:

* Scores are sent only along with an unsynced result, so one inserted after the scores
  were read is never sent; the comment on `flushEvalResults` calls scores of synced
  results out of scope.  They stay unsynced all the same, oldest first, and once there
  are as many as a fetch returns no later score is sent (`Crowded`).
* The fetches of `ResultsReporter` name no org, so with two registered orgs each one's
  reporter posts the rows of both with its own token.
* A registration that overlaps with a deregistration of the same org can leave workers
  without a row, or a row without workers (`raced`).  `StartOrg` does nothing for an
  org that is running, so a registration with a new token leaves the workers with the
  old one until a restart.
* The first tick "fetches state before serving requests" (`workticker.go:110-111`), but it
  comes after a random delay, in a goroutine nobody waits for before serving.
* `workticker.go:49-50` calls the items independent, but one deadline covers the whole
  tick, acks included.  A run that is handed out again overwrites the stored config.
* The snapshot syncers delete nothing: a config removed at Butler stays in use.
* A JSON body `null` makes `OverrideModel` write into a nil map; the panic ends the
  request (`experimentrouter.go:184`).
* The hash that tells storage configs apart leaves the secrets out: a rotated secret
  takes effect only when a client is made anew (`s3_user.go:134`).
* `getOrCreateClient` closes a GCS client before it makes the next one and leaves the old
  one registered if that fails (`s3_user.go:146-148,197-200`).  When the config goes back to
  the old one, every upload finds its hash and is lost on the closed client, until another
  config replaces it (`stuck`).
* A Gemini array whose last element has no `usageMetadata` is charged zero
  (`gemini.go:57-59`), and so is the output of an Anthropic stream that ends before its
  `message_delta`, though `message_start` has an output count too (`anthropic.go:31`).
* A proxy key's mapping has no expiry of its own: lookups for another provider renew
  the key's entry and with it a mapping that was deleted long ago (`revived`).
* `BackfillIndexedMetadata` and `CleanupIndexedMetadata` have no caller in the repository
  (`metadata_keys.go:119,152`): activating a key indexes only the rows that come after,
  and deactivating it leaves those before.
* `BATCH_MAX_SIZE` above 65535 gives the UPDATE more placeholders than PostgreSQL
  takes: every page would be sent again and again.

## 10. Not modelled

Section 2 lists what is still to come.  Left out for good: the backfill and cleanup of
metadata, which nothing calls, provider clients and
payload translation beyond what it does to overrides, configuration, encryption, JWTs,
CORS and middleware, migrations, listings.  They are stateless per request or read
once, and what matters about them (that a call can fail) is a fault of the step that
makes it.  The worker that executes replays and evals is not in the repository; neither
is Butler.
