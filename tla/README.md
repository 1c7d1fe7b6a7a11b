# Belfry in TLA+

Belfry collects OpenTelemetry traces and logs on one machine.  A Daemon accepts
OTLP over HTTP, a writer worker commits it to a SQLite Telemetry Store, a query
worker reads the Store for a browser Workspace, and a command-line manager
starts, stops and maintains the Daemon through files in a state directory.  This
directory models what runs concurrently (ingestion, queries, the lifecycle, the
Store under its writers and readers, the renderer under its answers) and the pure
algorithms behind it, checks them with TLC on small instances, and proves the
safety of ingestion, of the query transport, of the Store, of the renderer and part
of the lifecycle's for every instance.

`PROJECT.json` maps every definition to the source lines it stands for, lists the
runs, the mutants that show each property can fail, the hazards the properties
are for, and the places where the code departs from its documentation.

## Inventory

| Component | Source | State | Operations | Hard behaviour | What makes it correct |
|---|---|---|---|---|---|
| OTLP admission | `ingestion/src/admission.ts`, `daemon/src/routes.ts` | capacity Ref (requests, bytes, accepting, writerFailure), ingestion queue, rejection queue and its counters, a Deferred per request | reserve, submitReserved, release, recordRejected, runRetention, shutdown; consumer and diagnosticConsumer fibers | fibers interleave at every await; client aborts; timeouts; writer failure noticed by four parties; shutdown drains with a deadline | the capacity is exact, nothing admitted is turned away or forgotten, no refusal is lost, shutdown ends |
| Writer transport and worker | `writer-transport.ts`, `writer-worker.ts`, `worker-protocol.ts` | pending map, closed flag; the worker's message chain and write connection | call, onMessage, onError, finalizers; ingest, maintenance, shutdown | late, lost and error answers; a worker that dies with messages in hand | 200 only after the commit, one commit per request, no commit after a refusal |
| OTLP decoding and bindings | `ingestion/src/otlp/decoder.ts`, `otlp-proto/generated/otlp.js` | none (pure) | decode, verify, fromObject, normalisation and refusal of a request | the liberties of senders: order, repetition, split messages, unknown fields, defaults, two encodings | one request means one batch, however it is encoded; identities are sound or the request is refused whole |
| Telemetry Store | `storage/src/storage.ts`, `writer.ts`, `retention.ts` | SQLite tables, projections, counters, retention_state | ingest, recordIngestionFailure, retain, initialize, reset | a crash between transactions; replacement of spans; the limits of the attribute index; retention that frees nothing | projections and summaries agree with the records, counters with the history, retention ends and removes the oldest first |
| Reads and pagination | `storage.ts`, `facets.ts`, `query-api/src/cursor.ts`, `query-handlers.ts`, `workspace/src/data-source.ts` | a cursor held by the client | search, list, facets with keyset cursors; collectPages | pages read while records are written and deleted | no record skipped or repeated that stays in the Store |
| Trace structure | `storage/src/record-model.ts`, `storage.ts` (getSpan), `workspace/src/model.ts` (waterfall) | none (pure) | analyzeStructure, orderSpanTree, the ancestry of getSpan, buildTraceWaterfall | missing parents, self-parents, cycles, truncation, collapsed spans | every span once, below its parent, every cycle marked; two views of a span agree |
| Query transport and worker | `daemon/src/query-transport.ts`, `query-worker.ts` | current and starting worker, pending map per worker, chain of turns, closed | call, ensureState, requestOn, dispose, close | lazy start, deadlines that kill the worker, aborts at any await, close while starting | one worker, one waiter, in order, nothing left behind after close |
| Daemon lifecycle | `daemon/src/lifecycle.ts` | startup lock, Daemon lock and registry files; processes | status, start, stop, restart, withStoppedDaemonLock, serve | processes interleave at every file-system call; kills; stale locks; reused PIDs; paths unlinked by name | no Daemon on a Store under maintenance, a serving Daemon can be found, only verified processes are signalled, locks are given back whatever fails |
| Daemon server | `daemon/src/server.ts`, `retention-schedule.ts` | scope of the listener, workers and retention loop | startDaemonServer, its finalizers | degraded start; order of shutdown | what is unavailable is refused, what is available works |
| Workspace | `workspace/src/model.ts`, `url.ts` | selection, queries, history, live range | transitionWorkspace; address to workspace and back | long sequences of actions | the address restores what is seen, the selection stays consistent |
| Web renderer | `apps/web/src/workbench.tsx` and what dispatches to it | the workspace, lists, details, requests under way, browser history | commitState, refresh, loadTraceDetail, effects, polling, popstate | late, aborted and superseded answers between a change and its effects | lists, details and address belong to the workspace shown |
| Configuration | `config/src/index.ts` | none; the configuration file | load, validate, `config init` | three sources consulted key by key; limits across settings; a file written beside its readers | precedence, no invalid value taken, no bad source hidden, init harms nobody |
| Telemetry model, migrations, command line, scripts | `telemetry/src`, `storage/src/migrations`, `apps/cli`, `scripts` | | | | schemas, schema text, flags and output, tooling |

Interaction: the HTTP routes call admission; admission talks to the writer worker
through the writer transport; the worker decodes a body and writes the Store; the
query handlers call the query transport, which talks to the query worker; both
workers share the Store file (the writer writes, the reader only reads); the
Daemon's retention loop goes through admission; the renderer's data source calls
the query handlers over HTTP, page by page; the lifecycle's `serve` owns the
Daemon, and the command line meets it only through files, a signal and the health
endpoint.

## Modules

| Module | Models |
|---|---|
| `WriterChannel` | the messages between the main thread and the writer worker, and the worker |
| `IngestionAdmission` | admission, the OTLP route, both queues and consumers, the retention loop and shutdown, over `WriterChannel` |
| `IngestionContract` | what an exporter may rely on: the abstract specification of ingestion |
| `IngestionProperties` | invariants, action and liveness properties, refinement, and the strengthenings used by the proofs |
| `IngestionProofs` | theorems: types and capacity, the contract, queues, rejections, shutdown and the writer's failure |
| `QueryTransport` | the query transport and its workers |
| `QueryService` | the abstract one-at-a-time query service |
| `QueryProperties` | the properties of the transport, that it implements `QueryService`, and the strengthenings |
| `QueryProofs` | theorems: the inductive invariant of the transport, and the refinement |
| `DaemonLifecycle` | manager and Daemon processes, the three files, kills, lock ages and PIDs |
| `LifecycleProperties`, `LifecycleProofs` | the properties of the lifecycle; its theorems |
| `SpanGraph` | what a trace is as a graph: roots, cycles, warnings and the trace row, by quantifiers |
| `TelemetryStore` | the transactions of the write connection, the retention loop, failures, restarts and reset |
| `StoreQueries` | the listings, facets, filters and orders of the readers, and a page after a cursor |
| `StorePaging` | a client that collects pages over a Store that changes |
| `StoreProperties` | the properties of the Store and of paging |
| `StoreProofs`, `RetentionProofs`, `PagingProofs` | theorems: tables, index and trace rows; sweeps, counters and references; records and pages |
| `OtlpMessages`, `OtlpBindings` | the tables of the generated bindings, and encode, decode, verify and fromObject over them |
| `OtlpDecoder` | JSON normalisation, the decoder's normalisation of spans and logs, refusals |
| `OtlpProperties` | exports with every liberty or fault of a sender, and what decoding promises of them |
| `TraceStructure` | getTrace, getSpan and the waterfall as they run, and that they find what `SpanGraph` defines |
| `Configuration` | the sources of a configuration, their checks and precedence, and `config init` |
| `ConfigurationProofs` | theorems: what loads and what a validation says, and `config init` |
| `Workspace` | the transitions of the Workspace, its address and the restoring of it |
| `Workbench` | the renderer around the Workspace: effects, requests, polling, history |
| `WorkbenchProperties`, `WorkbenchProofs` | the properties of the renderer; its theorems |
| `MCIngestion`, `MCQuery`, `MCLifecycle`, `MCStore`, `MCAlgorithms`, `MCWorkbench` | the instances for TLC |

`IngestionAdmission` composes with `WriterChannel`, `StorePaging` with `StoreQueries`
and `TelemetryStore`, `Workbench` with `Workspace`.  A definition whose comment
begins with "Mutant" is not part of a specification: it is the wrong version of the
definition after it, kept to show that a property notices the difference.

### Ingestion

A step is what one fiber does between two suspensions: a handler from one await
to the next, with every synchronous call it makes, or one event of the main
thread or of the worker.  In a step of `IngestionAdmission` the main thread's
part is written there and the channel's part in `WriterChannel`.

- `client`, `slot`, `deferred` are the HTTP fiber of a request: its answer, where
  its reservation is, and the Deferred it awaits.  `accepting`, `writerFailure`,
  `requests`, `bytes` are the capacity Ref; `queue` and `consumer` the ingestion
  queue and the consumer fiber; `rejections`, `rejectionsPending`, `recorder`,
  `unpersisted` the rejection side; `rounds`, `retaining` the retention loop;
  `phase`, `open`, `drainExpired` the shutdown.
- `call` holds the pending map and the settled calls, `inbox`, `job` and `outbox`
  the messages on both sides and the request in execution, `stored` and `rejected`
  what was committed.
- A call is known by its purpose instead of a random UUID; each is made once.
- The route always reserves the configured body limit, so that `bytes` is a
  multiple of `MaxCompressedBytes`.  `submit`, which reserves the actual size, is
  used by tests only.
- Answers are classes: `ok` is 200; `malformed` 400 and `too_large` 413 come from
  the worker; `refused` is any refusal of the main thread; `unavailable` is 503.
  `droppedDiagnostics` moves with `unpersistedRejectedRequests` and is left out.
- The model starts with an initialized worker.  Shutdown may begin while request
  fibers live, which is more than the server's scope order allows.  `checkpoint`
  of admission is not called by the Daemon.

### Query transport

A step is one event (a call, a message, a timer, an abort, an error event) with
the promise reactions that run before the next.  `turns` is the chain of
promises, `call` the state of each query, `live`, `current`, `starting` and
`pending` the workers.  Worker identities are reused after disposal, so late
messages of a disposed worker have a chance to be mistaken.  The first worker has
been initialized when the model starts, as the server awaits it.  `close`
terminates each worker in a step of its own, which is finer than the code.
`WorkerSwallows` is the worker whose message chain fails without an answer
(`query-worker.ts:46`).

### Daemon lifecycle

A step is one file-system call, signal or health request of one process; all
processes interleave.  `startupLock`, `daemonLock` and `registry` are the files:
an unlink removes whatever is at the path, and a Daemon writes its identity
through its open handle, which may no longer be that file.  `step` is a manager's
program counter, `goal` what it is doing (`await` is `waitForRunning`), `found`
the Daemon its last `status` found recorded.  `daemon` is each Daemon's progress
through `serve`.  A `scenario` says which command each process runs, which
processes have another service version, and which Daemons a user starts with
`daemon serve`.

Time is left out: a lock is either past the stale limit or not, a wait may time
out whenever it polls, and a health request may always fail.  A lock ages freely
once its owner is gone, and within the bound `MaxOverruns` while it runs.  The
startup lock and its owner's PID appear in one step.  An unrelated process may
take a dead Daemon's PID, but not between the health request and the signal that
follows it.  A manager's PID is not reused.  Registries are written by rename and
always decode.

### Telemetry Store and paging

A transaction is an operator from the tables to the tables; what happens between
two transactions is a step of its own.  `store` holds the tables as sets of
records: `spans`, `logs`, their attribute and search rows, `traces`, `services`,
`references` (resources and scopes), the counters, the number of diagnostics and
`retention_state`.  `retain` is three transactions (`MarkRunning`, `Sweep`,
`FinishRound`), each of which may fail, and the worker may end between any two;
`daemon` says whether it runs, recovers, is halted by a failed write or could not
be opened.  `gone` is history.

Ids are numbers, in the order SQL compares them.  An attribute is a pair that
`projectAttributes` lets through; which pairs are indexed is decided by
`AdmittedPairs`, as the code does before each batch.  The size of the file is the
number of records, so that `SizeBudget` stands for `retentionMaxBytes`; that a
file may stay over its budget although records are deleted (free pages that are
not returned) is left out.  A log's id is random and used once.  Retention uses
any cutoff of a small set: the clock need not be monotone.

`StorePaging` is `collectPages` over one listing at a time.  A cursor is the key of
the last row and the limit it was made with: the rest of the query a cursor is
bound to does not change within one collection.  `steady` is the rows that have
been there, with the same key, since before the first page.  SQL's ORDER BY is
`InOrder`: a row's place is the number of rows before it.

### OTLP decoding

The generated functions of one message differ only in its fields, so
`OtlpMessages` has the tables (ids, wire types, kinds, what verify asks, how
fromObject converts) and `OtlpBindings` one definition of each function over them.
Text is a word, the digits of a number or the encoding of bytes; bytes have a size
and an identity.  `OtlpDecoder` is `decodeOtlpRequest` after decompression, whose
outcome is given.  `OtlpProperties` encodes a request as senders may: fields
reversed, split, repeated, mistyped, explicit defaults, unknown fields, enum names,
hexadecimal in either case; or with a fault.

### Trace structure, configuration

`TraceStructure` runs the recursions of the code over every parent function on a
few spans; `SpanGraph` says by quantifiers what they should find.  `Configuration`
gives each setting a value below, in and above its range and of another type, from
each source, and interleaves `config init` (create, then write) with a load and a
validation of another process.  Durations in days are counted in minutes, sizes in
bytes within TLC's integers.

### Workspace and renderer

`Workspace` has one operator for each action of `transitionWorkspace`, and the two
directions of `url.ts`.  `Workbench` is the component: `ui` is its state, `entries`
and `at` the browser's history.  A thing that the user does is rendered, and its
effects run, before anything else happens, as React does for discrete events; an
answer or a tick only changes the state, and `RunEffects` is a later step.  Aborted
requests may still answer.  `only` stands for the filters one signal has and the
other has not.  A step through the history (`PopState`) comes at any moment, also
between a tick and its rendering.

## Runs

All runs use `CHECK_DEADLOCK FALSE`: requests, queries, commands, writes, exports
and events are finite and the Daemon ends.

| Run | Instance | Shows |
|---|---|---|
| `ingestion` | 2 requests, queue of 1, 1 error event or 1 retention round | `TypeOK`, `CapacityAccounting`, `ReservationHonoured`, `BacklogCounted`, `RejectionsAccounted`, `FailureStopsAdmission`, `DrainedShutdown` |
| `liveness` | 2 requests, queue of 2, fair | `ImplementsContract`, `AcceptedAnswered`, `ShutdownTerminates` |
| `query` | 3 queries, 2 worker identities, 1 error event, fair | `TypeOK`, `OneWorker`, `OneWaiter`, `ClosedClean`, `NoWorkerAfterClose`, `ImplementsService`, `QuerySettles`, `CloseReturns` |
| `lifecycle` | 2 commands, 3 Daemons, 1 kill, no overrun | `TypeOK`, `MaintenanceExclusive`, `Discoverable`, `SignalsVerified`, `LocksReturned` |
| `store` | 2 writes of 6 batches, 2 starts, 1 failure, 1 wake, 7 listings, pages of 1 | `ProjectionsMatchRecords`, `TracesMatchSpans`, `ReferencesExact`, `CountersTellHistory`, `PagesExact`, `SweepsOldest`, `RetentionSettles` |
| `algorithms` | 34 requests in 16 encodings, traces of 3 to 5 spans with any parents, one setting or a pair in each source | `EncodingsAgree`, `IdentitiesSound`, `TraceFaithful`, `DetailsAgree`, `ConfigurationSound`, `InitNeutral` |
| `workbench` | 3 events of 17 kinds, one tick or refresh, 4 addresses, one of a range that is not live, 2 Services of which an address keeps 1 | `ResultsCurrent`, `DetailCurrent`, `AddressRestores`, `SelectionKept` |
| `lifecycle_stop` | stop, start and maintenance | violation of `MaintenanceExclusive` |
| `paging_limit` | a trace of a span and three logs, two Services, pages of 2 to at most 3 results | violation of `PagingSucceeds` |
| `paging_duration` | a trace that ends before it starts and a running one, by duration, pages of 1 | violation of `PagesExact` |
| `otlp_enum` | spans of unknown kind or status code | violation of `AcceptedStorable` |
| `waterfall` | cyclic traces with one span collapsed | violation of `WaterfallTotal` |

Why the bounds are enough.

- *Ingestion.*  Two requests are the fewest that compete for one place
  (`ingestion`) and the fewest of which one waits in the queue behind another in
  execution (`liveness`); every call may time out, every client may
  abort and shutdown may begin at any step, so the races between them are all
  there.  One error event is enough to stop admission for good; a second finds the
  failure already recorded.  The retention round is there because it
  shares the channel and can fail the writer; the constraint `OneDisturbance` keeps
  the two apart.  What the two runs leave out, the theorems below have: each safety
  property of ingestion is proved for any queue, errors and rounds.
- *Queries.*  With three queries one is in execution, one has its turn next and one
  is behind it; two worker identities make every replacement a reuse of an identity
  after the next.
- *Lifecycle.*  Two commands meet the Daemon of an earlier one, each may spawn one,
  and any one process may be killed at any step; the scenarios are every pair of
  commands except a stop or restart beside a start, and `daemon serve` beside
  maintenance.  The excluded pairs are unsafe, and so are three commands that use
  the startup lock and an owner slower than the stale limit; `lifecycle_stop` and
  the list below say why.  `MaintenanceExclusive` and `Discoverable` are claimed of
  the scenarios of the run only; `SignalsVerified` and `LocksReturned` hold of any
  (theorems below).  The run leaves out commands that race, never a step of the
  code.
- *Store.*  A trace whose root is exported again in another version, a child that
  starts before its root, an orphan in another trace and two logs over two Services
  bring about replacement within a batch and across batches, traces that change
  their order key, shared and orphaned references, and index limits that are hit
  (two keys, two values).  Batches of one in retention make both passes and the
  loop's continuation happen; two starts and one failure put a crash or a failed
  transaction anywhere in `retain` with a recovery after it.  Pages of one are the
  most cursors a listing can give.
- *Algorithms.*  Four spans with any of six parents have every shape of cycle, self
  parent, missing parent and truncation that the walks tell apart, five spans
  exceed a limit of four; each export combines one record with one liberty or
  fault, as the functions treat fields and records independently of each other.
- *Renderer.*  Three events and a tick are the fewest in which an address is left,
  returned to and left again while an answer of the first is still under way; each
  of the 17 kinds of event occurs first, second and third.

`MaxRetentions`, `MaxWorkerErrors`, `MaxCrashes`, `MaxOverruns`, `MaxWrites`,
`MaxStarts`, `MaxWakes`, `MaxFailures`, `MaxTime` and `MaxEvents` bound counters in
the guards of the actions that raise them.

### Fairness

Ingestion and query liveness assume that the event loop keeps running: weak
fairness of fibers that can resume, of messages and events already posted, of
timers that are armed (response timeout, drain deadline, query deadline) and of
the steps of shutdown and close.  Nothing is assumed of the workers, which may
never answer, nor of clients, which need not send their bodies or abort.
`RetentionSettles` assumes that a `retain` that is due or has begun goes on, by its
next transaction, a failure or the end of the worker, as SQLite's transactions
end; nothing of writers, restarts or readers.  The lifecycle, the algorithms and
the renderer have no fairness: their properties are safety.

## Where code and documentation disagree

Shown by a run:

- `stop` takes no startup lock and unlinks the registry and the Daemon lock at
  their paths after the old PID is gone.  If a start has put a new Daemon there in
  the meantime, that Daemon loses both files; the next maintenance command finds
  nothing and opens the Store beside it (`lifecycle_stop`).
- `collectPages` asks for fewer rows on its last page, but a cursor is bound to the
  limit it was made with: a list whose maximum is no multiple of 100 fails as an
  invalid cursor once it has that many rows (`paging_limit`).
- Listed by duration, running traces come last, as NULL, but the cursor's clause
  takes them for traces of duration -1.  No check refuses a span that ends before it
  starts, so a duration may be below that: after a page that ends with such a trace
  the running ones are passed over and are on no page (`paging_duration`).
- A span whose kind or status code is none of the enumerations' is accepted by the
  decoder and fails in the writer as a failure of the Store, which ends admission
  for every exporter (`otlp_enum`).
- Collapsing a span that is on a cycle recurses without end, and a span below a
  cycle may get two rows (`waterfall`).

Seen while modelling, without a run of their own:

- A body refused for its decompressed size is counted as a rejected request by the
  worker and again by the route; the tests count one.
- A response timeout gives back the capacity of a request that the worker still
  holds; the pipeline document releases it "after the worker completes, including
  all error paths".
- A lock that does not exist counts as stale, and what is at its path is then
  unlinked.  A Daemon left by a start that timed out may take the lock in between;
  the next Daemon takes it too and both open the Store.  Of three commands one may
  judge the startup lock that a second has just given back, and unlink the one that
  the third has taken by then, so the startup lock does not exclude.
- A lock is stale by age although its owner runs.  A start or maintenance that takes
  longer than `max(startupTimeoutMs, 5000)` loses its locks to the next command;
  with one such overrun (`MaxOverruns = 1`) TLC violates `MaintenanceExclusive`.
- When the deadline of a worker's initialization passes, the query that asked for
  it gets a timeout though it was never posted; a PID that an unrelated process has
  makes `status` unhealthy, so that `start` and maintenance refuse, while the
  architecture document says stale registries are recovered.
- Search cursors of traces and logs are not bound to their endpoint, so a cursor of
  one is accepted by the other; the query document binds cursors to the query.
- `getSpan` marks spans below a cycle with "cycle" and depth 0, `getTrace` only
  those on it; `DetailsAgree` leaves those spans out.
- `running = 1` stays after a crash inside `retain`, and a failure that was not
  noted is not retried at the next start, which the operations document promises
  for failed retention checks.
- The Service picker takes any number of Services, an address keeps
  `MAX_SERVICE_FILTERS`: what is picked beyond them is lost at a reload
  (`Addressed` says so of `AddressRestores`).
- Pausing polling leaves an address of the same query in the history.  If a tick then
  changes the range and an answer, due for the query before, is dropped for it, a step
  back can restore that query before React has rendered the one in between.  No effect
  asks again, and the page keeps "loading", or "ready" over another query's list,
  until the next tick, for ever if the restored page is paused.  `ResultsCurrent`
  names this one step (`Returns`) and excludes every other way to such a page.
- Opening a correlated trace clears the Service filter and the trace query's
  Services but not the log query's, opening correlated logs the reverse; and the
  next complete refresh closes a correlated trace that the list does not have.
- A shared address with an absolute range restores with the default live duration,
  so the range moves at the next tick.  An address has one signal's query, so a
  reload loses the other's.
- A parent identity in JSON that is not hexadecimal becomes "no parent".  For an
  attribute value with several members protobuf takes the last and JSON refuses.
- Logs of a batch that is exported again after a timeout are stored again, spans
  are replaced.
- A retention from the environment above 3650 days is reported valid for its source
  while the effective configuration fails; a drain timeout may exceed the shutdown
  timeout.

## Mutants

Each property of a passing run has a definition that is wrong in one way a change
of the code might be: a dropped guard, a missing deletion, a swapped order, a stale
value.  With it in place of the right one, the run finds the property violated.
The mutant precedes the definition it replaces.

## Proofs

`tlapm` checks the following for every value of the constants that meets the named
assumptions.

### Ingestion

For every set of requests, every capacity, and every number of retention rounds
and error events, from `ChannelAssumption` (the bounds are naturals) and
`AdmissionAssumption` (positive queue capacity and body limit, a natural byte
capacity, finitely many requests, and `None` is not one).

- `TypeCorrect`: `Spec => []TypeOK`, one lemma per group of actions.
- `CapacityCorrect`: `Spec => []CapacityAccounting`.  By itself it is not inductive:
  that a completion releases a slot which is held needs to know that the consumer's
  request is the one whose slot is `calling`, and that each queued request is in
  the queue once.  `SlotInv` says that; `TypeOK /\ SlotInv /\ CapacityAccounting` is
  inductive.  The cardinality of the holders changes by one where a slot is taken
  or freed (`HolderAdded`, `HolderRemoved`) and nowhere else (`HoldersKept`).
- `IngestionRefinesContract`: `Spec => ImplementsContract`.  A step that settles a
  fiber must map to `Acknowledge` or `Refuse`, which depend on the Store, while the
  fiber only sees its Deferred.  `ReplyInv` ties the Deferred to the outcome of the
  worker call; `ChannelInv` ties the outcome to the Store wherever the call is: in
  the inbox (nothing committed), in execution or in the outbox (committed if and
  only if the response says so), and at one of these places only.
  `IngestionInvariant` proves both inductive, `ContractStep` that every step is a
  step of the contract or a stutter.
- `ReservationCorrect`: the queued requests and one that holds a reservation are
  different holders of slots, and there are at most as many holders as places: an
  injection from the places of the queue and one more into `Holders`.
- `DrainedCorrect`: `ShutdownInv` says that a shutdown past its drain, unless it gave
  up, has `requests = 0` and that it stays so; with `CapacityAccounting` nobody holds a
  slot, and `AnsweredInv` says that whoever gave its slot back has its answer.
- `BacklogCorrect`, `RejectionsCorrect`: the counter follows the queue and the
  recorder; a rejection leaves the recorder only with an increment, in the Store or
  on the main thread.  `RecorderInv` follows a successful answer to
  `record-rejected` back to the worker's increment, wherever the answer is.
- `FailureCorrect`: the failure and the end of admission are set together
  (`FailureInv`), and a slot that is not free was taken before.

### Query transport

For every set of queries and worker identities and every number of error events,
from `QueryAssumption` (there is a worker identity, `None` is none of them).  The
inductive invariant is `TypeOK`, `LiveInv` (a worker that was disposed of holds
nothing), `TurnInv` (a query is in the chain of turns once), `WaiterInv` (whom each
pending map waits for), `PhaseInv` (what close has in hand) and `DeliveryInv` (a
query is with a worker once).

- `TypeCorrect`, `OneWorkerCorrect`, `OneWaiterCorrect`, `ClosedCleanCorrect`,
  `NoWorkerAfterCloseCorrect` follow from it.
- `ServiceImplemented`: `Spec => ImplementsService`.  The service's line is the chain
  of turns, its outcomes are the calls' and what ran is `served`; `DeliveryInv` is
  what makes a late answer of an old worker unable to settle another query, and a
  query unable to run twice.

### Lifecycle

For every set of managers and Daemons, every scenario (the racing ones too) and
every number of kills and overruns, from `LifecycleAssumption`.

- `TypeCorrect`.
- `SignalsCorrect`: only a live, verified Daemon is signalled.  `FoundInv` says that a
  manager about to signal has found a Daemon whose PID nobody else has, `ReusedInv`
  that only a dead Daemon's PID is used again.
- `LocksReturnedCorrect`: a command or Daemon that ends other than by a kill leaves no
  lock of its own.  `LocksInv` says that the startup lock names a manager between
  taking and giving it back, or one that was killed there; that the Daemon lock of a
  manager is that of maintenance under way; and that a Daemon in whose name the lock
  is has taken it.  It holds although others may unlink a lock and take its place,
  since nobody writes another's name.  A process that ends has therefore unlinked the
  path, found its lock taken over, or was killed.

### Telemetry Store

For every set of batches, every limit of the index, batch size and budget of
retention, and every number of writes, starts, wakes and failures, from
`StoreAssumption` (positive batch size and index limits) and `RecordAssumption`
(batches are sequences of spans or logs with finite attributes; identities and times
are integers).  A transaction is an operator from tables to tables, so the argument
is about operators, and the steps of `retain` only choose which one runs.

- `StoreSound`: `Sound(store)` says that rows and search words are those of the
  records, trace rows those of the spans, and that the index is within its limits.
  `SpansWritten`, `LogsWritten` and `Pruned` say what the three transactions leave in
  each table; each keeps `Sound`, and everything else touches other tables.
  - The deletes by hand and by cascade name the same keys: those of the replaced
    spans, or all of a trace's.
  - A trace row changes for every trace a batch touches and for no other, and a
    deletion takes whole traces.
  - `Admit` takes the first keys or values up to a limit: whoever has fewer than n
    before it is one of at most n, by an injection of ranks (`FirstOfBounded`).
    Old rows that a batch replaces make room only after it, never before.

  `ProjectionsCorrect` and `TraceRowsCorrect` follow.
- `StoreTyped` adds `Typed` (the records are finitely many, with integer times, and a
  log's identity is its own) and `RoundInv` (what a running `retain` knows).
- `SweepsCorrect`: `ORDER BY time, kind, id` is a total order (`OlderOrder`), so a
  record is among the oldest n exactly if fewer than n are older (`OlderRank`,
  `OldestFirst`); what a deletion leaves of spans and logs is what telemetry it was
  not asked to delete (`DeletionExact`); the second pass runs only on an excess.
- `CountersCorrect`: a batch of logs adds as many logs as identities it drew, the
  number of deletions follows from `SweepsCorrect`'s lemmas, and the third
  transaction alone adds it to `deleted_records`, which a failure or a crash skips:
  hence the inequality, and equality in a first run without failures.
- `ReferencesCorrect`: references and Services grow with each batch before its records
  and shrink only to what the remaining records refer to; the bounds of a Service
  only widen (`ObserveWidens`).
- `RecordsCorrect`: every record is one that was sent, with all its fields, and a span
  is there once (`Recorded`): each batch keeps the last of its spans of one identity
  and takes the place of what the Store had under it.
- `PagesCorrect`: `PagesExact`, for every listing and facet in every order it may be
  asked for (`ListingAssumption`, the sort fields of the requests).  It has four parts.
  - Each order is total, and what a cursor's clause leaves is what comes after its row
    (`ListingOrder`).  By duration that takes `DurationsNatural`, that no span which is
    listed by it ends before it starts; without it the property is false, as
    `paging_duration` shows.
  - The places of a finite set of rows are 1, 2, ..., each of one row (`Ranks`,
    `OrderedRows`), so a page has some of the rows its cursor leaves, each once, and
    its own cursor is at the last of them (`PageRows`).
  - Whatever is listed, the rows are finitely many, have numbers for their keys and
    each its own id (`RowsListed`): from `Sound`, `Typed` and `Recorded`.
  - `PagingInv`: a cursor is that of some row, which may have gone by now; a steady row
    is on the pages once if it is not after the cursor and on none otherwise.  A write
    or a sweep can only take rows from `steady`; a page takes those between the two
    cursors and no others (`PageExact`), by the transitivity of the order when the row
    of the old cursor is no longer there.

### Workspace and renderer

For every set of traces, logs, Services, changes, ranges and addresses and every number
of events and ticks, from `WorkspaceAssumption` (the limits are naturals, `None` is no
value) and `WorkbenchAssumption` (the default and the menu's ranges are at most the
longest one, as `config/src/index.ts:1046` and `toolbar.tsx:53` see to; the clock is
past the longest range; the toolbar's changes and the addresses have the types of
their fields).  Each transition is shown once to step from a well-formed workspace to
one (`WorkspaceInv`), and what it leaves alone is used from there on.

- `WorkbenchBase`: the inductive invariant, in four parts.  `ComponentInv`: state and
  requests are well formed, and what a refresh asks for is known from the revision it
  was made for.  `DetailInv`: the details are those of what the effects ran for last,
  and until they run again the selection can only go.  `RequestInv`: a request that
  still counts is for what the effects ran for last.  `HistoryInv`: every address in
  the history was written by `workspaceToUrl`.
- `DetailsCorrect`: `DetailCurrent`, from `DetailInv` when the effects have run.
- `SelectionsCorrect`: `SelectionKept`, an action property: of the steps that are no
  event of the user only a complete answer changes the selection, and by `RequestInv`
  it answers what the workspace asks.
- `ResultsCorrect`: `ResultsCurrent`, an action property: a step from a page that is
  attended to leads to one, or is the return that `Returns` describes.  An answer
  counts only if its revision is still the workspace's, and by `RequestInv` it is for
  what the effects ran for last; any other step that changes the query leaves a
  revision that is not rendered yet, or keeps the request under way.  No hypothesis:
  a step through the history comes at any moment.
- `RoundTrip`: writing the address of any well-formed workspace and restoring it shows
  what `Addressed` keeps of it: all but Services past the limit of an address and the
  length of a live range that has not been applied yet.
- `AddressesCorrect`: `AddressRestores`, inductive beside the invariant above: whatever
  changes the workspace writes its address (`RoundTrip`), and what a step through the
  history restores shows what its address keeps (`PopStateRestores`).  No hypothesis:
  addresses from outside may name a range that is not live, and a user may pick any
  number of Services.

### Configuration

For every set of environments, each with any variables of any values, and of files,
from `FilesAssumption` (a file is missing, unreadable, not TOML or its tables).

- `ConfigurationCorrect`: `ConfigSpec => []ConfigurationSound`.  `EnvProvides` and
  `FileProvides` say what each source has for a setting, `Precedence` which of them
  counts; from these `GivenParsed` shows that a loaded setting is the parsed value of
  the first source that names it, and so that a bad value which validation finds in
  the file is either overridden or fails the load too.  The limits follow from the
  ranges in the table of settings (`LimitsFit`), the paths by cases (`PathsAbsolute`).
- `InitCorrect`: `ConfigSpec => InitNeutral`.  Every default is a value of its own type
  (`DefaultsParse`), so the starter file, like the empty file before it, parses to the
  defaults (`StarterFileDefaults`, `EmptyFileDefaults`); a file of defaults loads as no
  file does, also where the path is set by a variable (`DefaultsChangeNothing`).
  `ConfigInv` adds that whoever created the file has a path for it, which is the case
  where a missing file would have been an error.

### Model-checked only

Exclusion of maintenance and discovery of a serving Daemon (`MaintenanceExclusive`,
`Discoverable`): they are false of some scenarios and claimed of those of the run.
All liveness (the prover handles neither `ENABLED` nor fairness): `AcceptedAnswered`,
`ShutdownTerminates`, `QuerySettles`, `CloseReturns`, `RetentionSettles`.
Of the Store, that what a trace row says, by the quantifiers of `SpanGraph`, is what
the code computes (`TraceFaithful`).  The decoder and the trace algorithms
(`EncodingsAgree`, `IdentitiesSound`, `TraceFaithful`, `DetailsAgree`): they are
recursive over data, which is out of the prover's reach.

## Not modelled

- Store migrations: schema text run by a library.
- Command line, its output and its observability; redaction and wording of
  configuration diagnostics.
- Start of the Daemon with one worker unavailable: ingestion and queries start from
  initialized workers.
- Of the Store: stats, health and ingestion diagnostics, checkpoint, vacuum and the
  WAL; JSON text and SQL's LIKE.
- Of the bindings: toObject, responses, services, and messages that no export has.
- Of the renderer: layout, virtual lists, styling, the Services of the picker,
  `format.ts`.
- Benchmark and release scripts.

Seen and not stated as a property: that a page settles while polling goes on (each
tick supersedes a query that is still under way, so queries slower than the
interval are never shown); a rejection recorded between the end of the drain and
the closing of its queue is dropped with the queue; an interrupt between taking a
reservation and registering its release.

## Plan

1. Done: ingestion, with its contract; the query transport, with its service; the
   lifecycle; the Store and paging; decoding, trace structure and configuration;
   the Workspace and the renderer; the proofs above.
2. Degraded start: initialization of both workers as actions of `WriterChannel` and
   `IngestionAdmission`, and health as the Daemon reports it.
3. Liveness of the lifecycle: a start that runs alone after any crash serves.
