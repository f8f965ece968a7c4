# A verification development for datapace-agent

The agent collects statistics and schema from one database and uploads them to the
Datapace platform, again and again, until it is told to stop. The TLA+ modules here
model what in it is hard to test: a retry loop against an unreliable network, a
scheduler whose cycles outlast its timer and race its shutdown, a process whose tasks
share a health state and may be signalled at any moment, an accumulator
that infers a schema under half a dozen caps, two collectors that read a database
while others change it, and a configuration that is expanded, parsed and checked in
several places. TLC checks them on small instances;
TLAPS proves the main results for every value of the constants.

All paths below are relative to the repository (`src/src/...` is the crate).

## The system and its parts

One process, one database, one platform. `main` loads the configuration, connects a
collector, builds an uploader, probes the database to seed the health state, spawns a
signal task and a health server, and runs the scheduler until the signal comes.

| part | state it keeps | operations | hard behaviours | what makes it correct |
|---|---|---|---|---|
| uploader (`uploader/mod.rs`) | per call: attempt, retry_delay, last_error; per client: timeout | `upload`, `send_heartbeat`, `test_connection` | lost and late requests, lost answers, timeouts, Retry-After, refusals | at-least-once, duplicates only in doubt, fresh signatures, the backoff schedule, every call returns |
| scheduler (`scheduler/mod.rs`) | the interval's deadline, the shutdown receiver | `run`, `collect_and_upload`, `update_health`, `fire_heartbeat`, `run_once` | cycles longer than the interval, missed ticks, shutdown at any moment, detached heartbeats | no burst, a fixed grid, graceful exit, shutdown is never lost, failures do not end the loop |
| health (`health/mod.rs`) | shared `HealthState` behind a RwLock | seeding, `update_health`, handler, server with graceful shutdown | written field by field by the loop, copied by requests | responses are whole and true, agree with the last cycle and heartbeat, are never too old |
| agent process (`main.rs`) | watch channel, spawned tasks | start-up, modes, signal task, exit | signal before, during and after a cycle; a server that cannot bind | health is seeded before it is served; a handled signal ends the process; the exit status is true |
| schema walker (`collector/mongodb/schema.rs`, `bson_type.rs`) | per path: counts, types, distinct set, reservoir, array length, position; overall: documents, bytes, caps | `observe_document`, `into_columns` | arrays repeat a path within a document, keys collide with nested paths, caps strike in the middle | counts equal those of the sample, rates are fractions, capped counts are flagged, memory is bounded |
| MongoDB collector (`collector/mongodb/mod.rs`, `stats.rs`, `providers.rs`) | client, database, provider | `new`, `collect`, `test_connection` | two listings, collections that come and go, commands that fail one by one | one table per listed collection, failures stay local |
| PostgreSQL collector (`collector/postgres/*.rs`) | pool of at most five, provider, version | `new` with a cold-start loop, `collect`, `test_connection` | five concurrent collections cancelled by the first error, DDL between statements | all or nothing, only torn where DDL ran |
| factory and errors (`collector/mod.rs`) | none | `create_collector`, error conversion | | every implemented type gets its collector |
| configuration (`config/mod.rs`) | none after load | `from_file`, `from_env`, `validate`, `expand_env_vars`, `parse_duration_secs`, `DatabaseType::from_url` | nested variables, values that YAML interprets, overflow, ordered substring tests | what is loaded is what the source says and passed every check; every refusal has its cause in the source |
| payload (`payload/mod.rs`) | none | builders | | its documented fields mean what they say |

How they interact: the scheduler owns the collector and the uploader and calls
`collect`, then `upload`, one after the other, never two cycles at once. Heartbeats are
detached tasks that share the uploader's client, hence its timeout. The scheduler writes
the health state, the health server's handlers copy it under the read lock. The signal
task reaches the scheduler and the server through one `watch` channel. The collector
feeds sampled documents to a schema walker, a fresh one per collection.

## The plan

In order of how much of the system's behaviour hangs on each; all of it is done:

1. `Delivery`, `Uploader`, `UploaderProofs`: the contract of `upload`, the retry loop
   that implements it, proofs.
2. `Loop`, `Scheduler`, `SchedulerProofs`: the loop, its timer, shutdown, heartbeats,
   health, and the promise it implements.
3. `SchemaWalker`, `SchemaWalkerMC`, `SchemaWalkerProofs`: the accumulator against counts
   over the sample, proofs for every document and cap.
4. `PostgresCollector`, `PostgresCollectorMC`, `PostgresCollectorProofs`: the cold-start
   loop and `collect` with DDL between the statements.
5. `Agent`, `AgentProofs`: the process, with `Loop` in place of the scheduler and
   `Delivery`'s contract in place of the uploader.
6. `MongoCollector`, `MongoCollectorProofs`: the two listings and the commands that fail
   one by one, against a changing database.
7. `DatabaseType`, `Config`, `ConfigMC`, `ConfigProofs`: type detection, the factory, durations in machine
   words, expansion of variables.
8. `Recursion`: lemmas that the proofs of several components share.

How the modules stand to each other: `Uploader` implements `Delivery` and `Scheduler`
implements `Loop`, each shown by a refinement mapping that is both model-checked and
proved. `Agent` takes `Loop`'s actions as they are (`Run!Begin`, `Run!End`, ...) and refines
`End` into the lock and the assignments of `update_health`. `Config` acts through
`DatabaseType`. The two collectors stand by themselves: what the scheduler sees of them is
that `collect` returns Ok or Err.

## Modules, state and code

**`Delivery`** is the abstract specification: per call a phase and the set of attempts of
which the platform stored the payload. A call may return ok only when a copy is stored;
copies may appear while the call is open and even after it has returned; an error says
nothing about what the platform holds.

**`Uploader`** is `Uploader::upload` with `send_request` and `signed_post`, and the network
and the platform around it. `pc`, `attempt`, `retryDelay`, `lastError` and `results` are
the loop's own variables and its return value; `deadline` is the timer that runs, of
reqwest's timeout or of the sleep. `network` holds the requests on their way, `answer`
the platform's answer on the open exchange, `copies` what the platform stored, `tries`
the history of the call for the properties. One action per thing that can happen:
`Upload` and `Retry` send, `ReceiveAnswer`, `ConnectionFails` and `TimesOut` end an
attempt through the same `AttemptEnds` (the match on the result), `PlatformHandles` and
`RequestLost` are the environment, `Tick` is time. A request outlives the exchange that
sent it, so a timed-out attempt may be stored later, even after the next one was.
Time is discrete and stops only at a due timer.

**`Scheduler`** is `Scheduler::run`. `pc` names the await the loop is at; `due` is the time
to the interval's next deadline (negative when late) as `MissedTickBehavior::Skip`
keeps it, `spent` the time in the cycle, `result` the `CycleResult`, `health` the shared
state, `heartbeats` the detached tasks by age, `shutdown` and `changed` the watch
channel's value and the receiver's unseen mark. `BeginRun` and `TickFires` start a
cycle, `CollectEnds` and `UploadEnds` are the two awaits in it, `RecordCycle` is
`update_health` and `fire_heartbeat`, `ObserveShutdown` is the other branch of
`select!`. Ages of past events (`starts`, `recordedAgo`) and the position on the grid
(`grid`) are history; measuring time relative to now keeps the state space finite
although the loop runs for ever.

**`SchemaWalker`** is the accumulator of `schema.rs`. Its recursion over a document is made
explicit: `todo` is the stack of the calls of `observe_path` to come, so that a step is
one call, the caps strike between steps and the invariants hold at every call. `paths`
maps the known paths to their `PathStats`. A path is the sequence of its segments, a key
with a dot in it the sequence of its parts, which is what joining with dots amounts to.
The hash that chooses a reservoir slot may be any index. A serialised value weighs one
unit of `distinct_bytes`. What there should be is computed from the sample itself: `Walks` is
a recursive function from a call to all the calls within it, `InSample` the occurrences of paths
that the documents so far come to, and counts, types, lengths and positions are counted over
those. `BsonAssumption` says what a BSON value is made of. **`SchemaWalkerMC`** gives it nine
documents and the values and strings in them.

**`PostgresCollector`** is `PostgresCollector::new` and `collect`. `phase`, `attempt`,
`backoff` and `lastError` are the cold-start loop's variables, one action per outcome of
its awaits (`ConnectSucceeds`, `ConnectFails`, `Sleep`, `GetVersion`, `DetectProvider`).
`Collect` starts the five futures of `try_join!`; `left` says how many statements each has
to go, and every statement is a step of its own (`StatsStatement`, `SchemaStatement`),
since the statements run on different connections and outside a transaction.
`StatementFails` is the error that drops the others, `Deliver` the join. The `catalog` is
the database's and `Ddl` changes it between any two steps; `touched` remembers what has
changed since `TABLE_INFO` was read. `TableInfo`, `ColumnInfo` and `IndexInfo` are what the
three statements of `queries.rs` return, join conditions and privileges included.
**`PostgresCollectorMC`** gives it two schemas with a table of the same name.

**`Loop`** is the abstract specification of `Scheduler::run`: cycles follow one another, each
ends by showing its outcome in the health state in one piece, the loop stops only
between two cycles, only when told to, and never before the first cycle is over.
`Scheduler` maps its `pc` to `at` and its health state to `shown`.

**`Agent`** is `main.rs` and `health/mod.rs` around `Loop`. `main` names the statement of `main`
that is next (the modes, `mode`, part after `create_collector`) and `exit` how the process
ended; each fallible statement is an action with an outcome. `handlers` is the task that
`main` spawns for signals: a signal kills the process until the handlers are installed,
which happens only when that task is first polled, and a failure to install them is a
panic, which in this build aborts. `shutdown` is the watch channel and `unseen` the mark of
the scheduler's receiver. `step` is where the scheduler is within a cycle: `CollectEnds` and
`UploadEnds` are the two awaits (`UploadEnds(TRUE)` needs a stored copy, as `Delivery` says),
and `LockHealth`, `WriteConnected`, `WriteStatus` are `update_health`, taken apart because
`health_handler` copies field after field as well: `ReadLock`, `CopyStatus`, `Answer`, `Respond`.
The server's own life is `SpawnServer`, `Bind`, `CloseServer`, `EndServer`. `probed`, `requested`,
`shown` and `evidence` are history: what the process did and what its last complete health
state rests on.

**`MongoCollector`** is `MongoCollector::new` and `collect`. `StartCollect` makes the first listing;
then `try_join!` polls the futures in any order: `TableStats` and `IndexStats` take the
collections of that listing one by one (`statsTodo`, `indexTodo`), `ListForSchema` makes the
second listing and `CollStats`, `Sample`, `ListIndexes` go through it (`schemaTodo`, `coll`,
`stats`). Every command may fail, about its collection only; `$sample`, `$indexStats` and
`listIndexes` may fail half-way, so they return part. Only a failed listing ends the
collection. `Change` lets other clients create, fill and drop a collection between any two
commands. A sample is the number of its documents: what the walker makes of them is
`SchemaWalker`'s subject. `PickSampleSize` is the code's clamp, with its ceiling written in
integers.

**`DatabaseType`** holds `from_url` as the sequence of its rules, in the code's order, over a
URL's scheme and the marks the code looks for anywhere in it, and `create_collector`'s
choice. **`Config`** is `from_file` and `from_env`. A text is a sequence of tokens, a token a
reference `${VAR}` or a piece of text; `ReadFile` finds the references of the document as it
was read (`captures`), each `Expand` is one round of the loop in `expand_env_vars`, which
replaces every occurrence in the text expanded so far; `Parse` is serde_yaml on that text, since the
file is read as YAML only after the values stand in it; `ReadEnvironment`, `Validate` and
`CreateCollector` are the rest. Of YAML, a value is modelled as far as one line goes: the signs
that mean something to it are pieces of their own (`Signs`). A ` #` cuts a plain value off there
(`Comments`), a double quote makes it end at the next (`Scalar`), and a `: `, a sign that no plain
value begins with, an anchor or tag after another, an unclosed quote and text after a closed one
are refused (`IsScalar`). An empty plain value is an error or the empty string; both are modelled. A missing
key without a default is refused, and so is any other setting of the wrong kind, a provider, database
type, level, format or metric that serde does not know or a number that is none
(`others`). serde_yaml itself is external. Values over several lines, single quotes and
backslashes are left out. Durations are computed modulo the machine word. What a document should mean
is computed from the document itself: `AtOnce` replaces every reference by its value,
`Meanings` follows references within values in the order in which the document names them.
**`ConfigMC`** gives it inputs and the pieces of text they consist of.

**`UploaderProofs`**, **`SchedulerProofs`**, **`SchemaWalkerProofs`**, **`PostgresCollectorProofs`**,
**`AgentProofs`**, **`MongoCollectorProofs`** and **`ConfigProofs`** hold the theorems.
**`Recursion`** holds what several of them need and the library states only for operators:
induction over the naturals, stated for sets; that a function defined by recursion meets its
definition; powers of two; finite images; sequences put together from other sequences.

Each decision that a property guards is an operator of its own; next to it stand
variants (`NextDue_Burst`, `SigningTime_Once`, ...) that a plausible slip would have
produced. Replacing the one by the other must break the property: this is how each
property is known to look at the code.

## What the runs check

| run | instance | shows |
|---|---|---|
| `uploader` | two calls, 2 retries each, statuses 202/403/429/500, Retry-After absent or 2 | type invariant; signatures on the wire are never older than the window; a payload is stored twice only when its first acceptance was not received; a refusal ends the call; the last failure is reported, and only after all retries; the length of a call is bounded; the loop implements `Delivery`, late requests of the first call arriving during the second included; every call returns although the platform may never answer |
| `scheduler` | period 3, cycles of 0 to 4, jitter 0 to 1, heartbeats of up to 4 | type invariant; the loop implements `Loop`; no burst; health and heartbeat agree; health not too old; shutdown always stops the loop; without it there is always another cycle |
| `scheduler_spacing` | period 3, cycles up to 1 | *violated*: two cycles may start closer than the interval |
| `schema_walker` | every sample of up to 4 of 9 documents; depth 3, 4 paths, 2 array elements, 2 distinct values, 1 sample, 3 units | type invariant; counts match the sample (lengths of arrays where no array is above), presence is a fraction, positions are dense, memory is bounded; what a column says is so: an uncapped distinct count is exact, a column that is not nullable is there in every document |
| `schema_null_rate` | up to 2 documents | *violated*: null_rate exceeds 1 for a path under an array |
| `schema_array_len` | the same | *violated*: a path below an array has no array_max_len, which is documented as the longest of its `[]` ancestors; the code keeps it at the array's own path |
| `postgres_collector` | two same-named tables in two schemas; six attempts, backoff 2 to 30 s, the code's own | type invariant; a schema is wrong only about tables that changed while it was read; every other index is complete; the sleeps of the cold start follow the schedule, the error kept is the latest failure's, and it gives up only after the last attempt, with its error |
| `postgres_indexes` | the same | *violated*: an index is listed with the columns and flags of its namesake in another schema |
| `agent` | the three modes, two concurrent health requests | type invariant; a response never mixes two updates; it says ok, or connected, only of what was so; the exit status tells what happened; health is answered even while a collection hangs; a handled signal ends the process, whenever it came |
| `mongo_collector` | two collections and a system collection, each of 2 or 9 documents or not there, samples of 3 to 4, one in 2; one collection fails, one change | type invariant (with the sample's limit); a payload is exact, and its parts agree, about every collection that did not change and of which nothing failed; failures stay local, the schema has exactly the listed tables; collect returns |
| `config` | every scheme with up to two marks; all combinations of missing, blank and given values; nested references; values with each of YAML's signs, settings of a wrong kind; intervals at every limit | type invariant; a file means its variables' values, in one pass or in the order of the document when values hold references; the interval is what was asked for; what is loaded passed every check and is what the source says, and every refusal has its cause there; the scheme decides the collector |
| `config_unset_secret` | the same | *violated*: with `DATAPACE_SIGNING_SECRET` unset, the documented file is accepted with the reference itself as the secret |

The *violated* runs are disagreements between the code and what its own comments and
documents say, one of them (`postgres_indexes`) a plain slip in a query;
`PROJECT.json` quotes the lines.

### Bounds

- Two retries give two waits, so the doubling, an override by Retry-After before or after it and
  a return to doubling occur; longer schedules and all other delays, a Retry-After of zero among them,
  are covered by the proofs (`BackoffFollowsSchedule`, `UploadTimeBounded`,
  `UploaderImplementsDelivery`). Two calls are enough for a late request to
  meet another call, and the calls share nothing else. `RequestTimeout = 1` and
  `TransitLimit = 1` let a request arrive before, at and after its timeout, and, when its connection
  broke, after the next attempt was sent or after its call returned.
- Cycles up to 4 against a period of 3 miss one tick and end between grid points; with
  `Skip` any lateness modulo the period is already reached. The proofs cover the rest.
- The walker's caps are set so that each of them is hit and exceeded by some sample:
  a fourth level of nesting, a fifth path, a third array element, a third distinct
  value, a fourth unit. Four documents let a path reach its cap, meet it again with an
  old and with a new value, and lag behind.
- Two tables are enough for a namesake and for a table that is read before and one that
  is read after a change; a table may change any number of times. Column names contain
  no comma, so the list of an index's columns survives its joining and splitting.
- Two requests overlap each other and an update at every point of both; more would only
  repeat it, and the proofs are for any number. Nothing else in `Agent` is bounded: cycles
  repeat for ever and the state space is finite.
- Samples of 3 to 4 out of 2 or 9 documents, one in 2: a collection below the minimum, which is
  sampled whole, and one that the maximum cuts (9 would give 5); the sizes between are proved. One change and one failing collection are enough to make
  any two of the four readings of a collection disagree; the other collection shows that the
  damage stays where it is. Between two collections the database may be any: the results
  are dropped then, so this restricts nothing.
- `Word` is 100000 in place of 2^64: products of the largest count and of counts just below and above
  the wrap of minutes and hours occur, exactly as they would at 2^64. Up to two references per value, three rounds
  deep, let a value be expanded after, before and within another one. The rules are swept
  by every scheme and mark they mention, alone and with a second mark.
- Heartbeats and network requests need no bound of their own: timeouts bound them.

Deadlock checking is off where a run ends for good: after the last call of `upload`,
after shutdown, after the last document, when the cold start or the connection has given
up, when the process has ended, when a collector is chosen or the configuration refused.

### Fairness

- `Uploader`: weak fairness of the timers (`Retry`, `TimesOut`), of `Tick`, and of the network
  (`Platform`: a request does not stay on the wire for ever). tokio polls a task whose
  timer fired. The platform owes no answer: it may lose everything.
- `Scheduler`: weak fairness of what the executor polls, of `Tick` and of heartbeats'
  ends (their client has a timeout). Strong fairness only for the shutdown branch:
  `select!` draws among ready branches at random, so a branch that is ready again
  and again is taken with probability one, while an overrunning cycle makes the tick
  ready every time. `CycleStep` is weakly fair: uploads return, as `uploader`
  shows, and collections are *assumed* to. `collect` has no timeout of its own; a
  query that hangs for ever stops everything, the reaction to shutdown included.
- `Agent`: tasks that can run do. Strong fairness where a condition comes and goes: the two
  sides of the RwLock, which tokio serves in the order they came, and the shutdown branch of `select!` as above. Nothing
  obliges the database or the platform to answer, which is why `RequestsAnswered` speaks of a
  hanging collection too, and `SignalEndsProcess` assumes in so many words that cycles do not
  stay open for ever.
- `MongoCollector`: weak fairness of the collection's own steps: the driver's commands return, with
  success or not.
- Nobody is obliged to signal, and the scheduler is not obliged to call `upload` again.

## What is proved

All proofs are checked by TLAPS, for every value of the constants within their named
assumptions (`UploaderAssumption`, `WindowAssumption`, `SchedulerAssumption`,
`WalkerAssumption`, `BsonAssumption`, `PostgresAssumption`, `MongoAssumption`, `ConfigAssumption`), which say
that counts and durations are natural numbers, that the values of Retry-After are finitely many
(they are machine words), that the period and the timeout are
positive, that a sample's minimum is no greater than its maximum, that the first backoff is no
longer than its cap, that the default interval fits
the machine word, that the inputs are files and variables of texts, that a document's fields and
an array's items are BSON values again, and that a request does not live in the network longer than the platform's
signature window (300 s on either side in the README of the repository).

`UploaderProofs`: type correctness; `SignaturesFresh`, from the invariant that a request
is no older than its life in the network and was signed when it was sent;
`RefusalEndsCall`, `LastFailureReported` and `BackoffFollowsSchedule`, from an
invariant that ties `attempt`, `retryDelay`, `deadline` and the history together at
each `pc`; `DuplicatesAreDoubts`, whose strengthening says that an attempt followed by
another was not answered with success; `UploadTimeBounded`, from the invariant (`TimeInv`) that
an open attempt was sent no later than the timeouts and doublings before it allow, that the clock
does not pass the open deadline, and that the next delay is no longer than the longest first delay
doubled as often as there were retries; and `UploaderImplementsDelivery`: initial states
and every step map to `Delivery` under phases read off `call`, `pc` and `results`.

`SchedulerProofs`: type correctness; `DeadlinesOnGrid`, from modular arithmetic on `due` and
`grid`, stated as lemmas; `NoBurstEver`, whose strengthening is that between
cycles the deadline is never earlier than the last start and at least a period after the
one before (`due + starts[1] >= 0`, `due + starts[2] >= Period`), preserved because a
late deadline moves past now; `HealthStaysFresh`, by
the ages at each `pc`; `HealthAndHeartbeatAgree` and `ExitIsGraceful`, by what a cycle
owes until it is recorded; and `SchedulerImplementsLoop`, whose strengthening is that the
health state always is one that main's probe or a cycle's outcome leaves, and that `result` is an
outcome while it waits to be recorded: every step then maps to a step of `Loop` or to none.

`SchemaWalkerProofs`: type correctness, `MemoryAlwaysBounded`, `PresenceAlwaysWithinSample` and
`PositionsAlwaysDense`, for every set of documents and all caps. The invariant says of a path that was not yet visited in this
document that its count is below the number of documents, which is why one more
occurrence cannot pass it, and of the values in all that once they exceed the ceiling the
walk is capped.

`CountsAlwaysMatchSample` and `ColumnsAlwaysHonest` hold the accumulator against the sample. Their
invariant (`AccountInv`) says that there are observations such that these, followed by what
the calls on the stack come to, are the occurrences of the sample, and such that what is kept is
what a count over these observations gives (`Accounted`): the known paths are the first
ones that fit, each has the position of its first occurrence, its numbers, types and lengths
are counted (`Tallied`), its distinct values are exact unless capped and its samples are its own
(`Honest`). A step moves the call on top of the stack to the observations and puts its parts on the stack,
which leaves the whole as it is (`WholeFacts`); the lemmas on one more observation say what
becomes of each count. Between two documents the stack comes to nothing and the
observations are the whole sample. The stack is needed in the invariant because the
caps strike by the order of the calls, across the levels of a document.

`PostgresCollectorProofs`: type correctness, and for every database `SchemaTornOnlyByDdl` and
`IndexesComplete`. The invariant says statement by statement what has been read so far of the
tables that did not change (`TablesRead`, `ColumnsRead`, `IndexesRead`); a statement adds its own
part, from lemmas on what grouping the rows by table and joining the indexes return, and
a change of the catalog takes its table out of all three. `ColdStartFollowsSchedule`: the backoff is
the capped power of two that belongs to the attempt, so the sleeps so far are the schedule's sum,
and the error kept is this attempt's only while it is slept over or after the last one.

`AgentProofs`: type correctness, `HealthResponsesAreWhole`, `HealthAnswersAreTrue` and `ExitStatusTrue`,
for any number of requests. The invariant has a part for main (which mode goes where, and
what has been done on the way), for the scheduler (`outcome` is true of what the cycle
found), for the health state (whole, published and true unless `update_health` is at it, and
then nobody reads) and for the requests (a half-made copy agrees with the state it is made
of). The properties are not inductive alone: a half-made copy is whole in the end only because
readers exclude the writer, and an answer is true only because the outcome was, before it was written.

`MongoCollectorProofs`: type correctness, `PayloadTornOnlyByChange` and `FailuresStayLocal`, for
every database and all limits of the sample. The invariant says of a collection that did not change and
of which nothing failed what each of the futures has of it, before and after it is done with it;
a change takes its collection out of the claim, a command adds its own part. `PickFacts` is
the arithmetic of the sample: within the limit, of the promised share.

`ConfigProofs`: type correctness, `OutcomesAlwaysTrue` and `IntervalAlwaysAsAsked`, for any files and
environments and every machine word. The invariant follows the source through the steps:
what was built says what its source says (`FromInput`), what has passed `validate` has no
defect, and a refusal leaves with its cause. What the theorem does not claim: that a loaded
configuration can be run with. `mysql://` and other known types load and then have no collector, and the
reference to an unset variable is text like any other, which is what `config_unset_secret` shows. `DurationFacts` is the arithmetic: a product that
leaves the word comes back as a smaller number. `FileAlwaysMeansItsValues`, for every document and
every nesting of references: the invariant (`TextInv`) is that the references still to
be replaced are the last of the document's, and that the text, with what those will come to
put in their place, is what the document means. A round of the loop keeps that, since
replacing one reference now and the others in its value later is replacing all of them in order; the `Spread` lemmas of
`Recursion` say so of sequences. `CollectorAlwaysFollowsScheme` follows the rules
of `from_url` to the first that matches, whatever marks the URL holds.

## What is only model-checked

Liveness (`EveryUploadReturns`, `ShutdownStops`, `KeepsCollecting`, `RequestsAnswered`,
`SignalEndsProcess`, `CollectReturns`) is beyond TLAPS. Every invariant that a passing run checks is also
proved, and so are the refinements. Where a definition recurses, over a document or the
references of a file, the induction is over a set of naturals, as the provers cannot instantiate
the library's theorems about operators.

## What is not modelled

- Formatting, logging, JSON and gzip, and the HMAC beyond the timestamp it covers.
- The SQL texts beyond what their joins and filters select, and BSON decoding, which run in
  the database and its drivers. The contents of statistics and settings, the provider's
  labels, and the connection pool's inside.
- Of the configuration, the values of the settings beyond credentials, URL and interval: log level and
  format, the health server's address, and those that are accepted and nothing reads (timeout, retries,
  pool, metrics, db_type). That serde refuses a value it does not know is modelled (`others`). Of the payload, the instance's hash and the
  serialisation; its builders only assign.
- The order of heartbeats at the platform: nothing in the repository reads them.

## Noted on the way, without a run

Disagreements between the code and its texts that the modelling met and that a glance
settles, or that the properties above already state as the code has it:

- A Retry-After of zero sets the delay to zero, and doubling keeps it there
  (`src/src/uploader/mod.rs:230`).
- A value that repeats when the distinct set is just full flags it as capped although the
  count is exact (`src/src/collector/mongodb/schema.rs:206`, `src/src/payload/mod.rs:328`).
- A number of minutes or hours beyond the machine word wraps to a shorter interval, or to
  one that validation accepts (`src/src/config/mod.rs:869`).
- `src/configs/agent.example.yaml` has no `signing_secret`, so a copy of it does not parse, and
  an `interval` where the code reads `interval_secs`, which is ignored.
- A quoted blank endpoint is accepted from a file and replaced by the default from the
  environment. An https URL with redshift.amazonaws.com in it goes to the PostgreSQL collector.
- Without a database in the URL the MongoDB collector reads `admin`; the comment speaks of the
  first non-system database (`src/src/collector/mongodb/mod.rs:43`). The factory's documentation calls MongoDB
  "coming soon" (`src/src/collector/mod.rs:140`), which the factory connects.
- When `run` returns, the process ends with it: responses and heartbeats in flight are cut off
  although the health server is said to shut down gracefully (`src/src/health/mod.rs:52`,
  `src/src/main.rs:158`).
