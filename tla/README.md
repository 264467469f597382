# TLA+ specifications of duckdb-r

This directory specifies the parts of duckdb-r whose correctness depends on the order in which things happen: who owns an open result and who ends it, which database instance a driver reaches and for how long, what happens when R code runs underneath an engine call or a reader runs on a thread of arrow's pool, and what a call of several statements leaves behind when one of them fails. The specifications are model-checked with TLC on small instances, and the main invariants are proved with TLAPS for every instance.

Paths below are relative to the repository's root.

## 1. The system

duckdb-r is a DBI driver: R code (`R/`), a C++ glue layer (`src/*.cpp`, `src/include/`) and the vendored engine (`src/duckdb/`). R has one thread. The engine has a pool of its own, arrow has another, and R code is re-entered from engine calls through callbacks.

| Component | State it keeps | Operations | Where it is hard |
|---|---|---|---|
| Drivers and instances (`R/Driver.R`, `R/dbConnect__duckdb_driver.R`, `src/database.cpp`, `src/connection.cpp`) | `driver_registry`; per driver a `DualWrapper`, locked or observing; per connection a reference to the instance | `duckdb()`, `dbConnect()`, `dbDisconnect()`, `duckdb_shutdown()`, finalizers | An instance dies behind the registry's back; a refused call has already locked; a symbolic link resolves only once its target exists |
| Arrow results (`src/arrow_export.cpp`, result half of `src/statement.cpp`) | Per result: its owner, rows left, `invalidated`, `finished`, `error`; per client context: the open results to end | Submit, read a chunk, hand over to a reader, record batch, release, finalize, end for another statement | Raw pointers registered by address; two locks; pool threads; parking underneath callbacks |
| Statements (`src/statement.cpp`, `R/Result.R`) | Prepared statement; the interrupt handler's slot | Prepare, bind, execute, release | Callbacks that start statements |
| Interrupts (`src/signal.cpp`) | `ScopedInterruptHandler::instance`, `interrupted`, R's own handler | Install, handle, disable, the signal itself | A signal between two steps |
| Progress display (`src/connection.cpp`) | Callback per display, list of orphaned callbacks | Create, update, destroy | Destroyed on an engine thread |
| ALTREP data frames (`src/reltoaltrep.cpp`) | Per relation: result, error, row count, columns converted; per column: the R vector | Length, data pointer, element, release | Executed on first touch, from anywhere R code may be |
| Registration and scans (`src/register.cpp`, `src/scan.cpp`, `R/register.R`) | Views that hold a data frame's address; attributes that keep it; registered Arrow sources | Register, unregister, replacement scan, bind | Lifetime against transactions; binding off R's thread |
| Transactions, probes and writes (`R/dbExistsTable*`, `R/dbWriteTable*`, `R/dbAppendTable*`, `R/csv.R`, `src/connection.cpp`) | The open transaction and its invalidation policy; the temporary view of a write | Begin, commit, rollback, probe, write, append, CSV import | A probe or a write that fails in a transaction |
| DBI results (`R/Result.R`, `R/dbFetch*`, `R/dbBind*`, `R/dbFetchArrow*`, `R/dbClearResult*`, `rapi_bind()`) | `rows_fetched`, `resultset`, `open`, `completed`; of an Arrow result `query_result` and `pending_query_results`, one per row bound | Send, bind, fetch, hand over, clear | A bind that fails at a row; reading across the results of a bind; statements in between |
| Everything else | none between calls | Type conversion, relational API, dbplyr SQL, storage home, error mapping, generated glue | Data, not control: left to the tests |

How they interact. `dbConnect()` takes an instance from a driver. A statement of a connection drains what is parked, ends the connection's open results, takes the interrupt handler's slot and enters the engine, which holds the client context's lock; the engine may call R back (progress display, replacement scan, Arrow factory, materialize callback). A result holds its connection's query open until it is read to its end, released or ended. A relation, touched, executes like a statement.

Which properties make each component correct:

- Drivers: a file has at most one live instance, the registry answers with it under every spelling of its path and never with a released one, a call that succeeds has the settings it asked for, and an instance is kept beyond its connections only for somebody who asked for it.
- Arrow results: no dangling pointer is called, every open result can be ended, a consumer is told of an end only when no row is left, each having reached it or gone with a read that told of an error, and the end, the engine's error and an invalidation stay what they were (a reader on the pool is promised less, section 5), R never waits for itself, and releases and statements complete.
- ALTREP: a query runs at most once, all columns of a data frame come from that one run, a column is shared only when it is complete, and R never waits for itself.
- Registration and transactions: a view that can be queried has its data frame, and a probe leaves the transaction as it was.
- DBI results: rows leave a result once and in order, to the reader or with a read that told of an error; a `SELECT` and an Arrow result say that they have completed only when none are left, or their stream was handed over (section 5 has what they do not promise), and a loop that reads until then ends.

## 2. The modules

| Module | What it is |
|---|---|
| `ArrowResults.tla` | The Arrow route: results, their owners, the statements of their connections, R's stack of engine calls, a pool thread |
| `ResultDelivery.tla` | The abstract specification: what a result promises its consumer, what a read that fails by itself takes from that, and what less is promised when it is read ahead on another thread. `ArrowResults` implements it (`ImplementsDelivery`) |
| `ArrowResultsProofs.tla` | TLAPS proofs about `ArrowResults` |
| `MC_ArrowResults.tla`, `ArrowResults_*.cfg` | Instances for TLC |
| `ArrowDeliveryProofs.tla` | TLAPS proofs about what consumers are told: which ends are whole, that verdicts are final, and that `ArrowResults` implements `ResultDelivery` |
| `Altrep.tla` | Relations as lazy data frames, the statements and scans that touch them, the interrupt handler's slot, R's stack of calls |
| `LazyFrame.tla` | The abstract specification: what a lazy data frame promises R code. `Altrep` implements it (`ImplementsLazyFrame`) |
| `AltrepProofs.tla` | TLAPS proofs about the calls of `Altrep`: the handler, the expression depth, interrupts, waiting |
| `AltrepFrameProofs.tla` | TLAPS proofs about the data frames of `Altrep` |
| `MC_Altrep.tla`, `Altrep_*.cfg` | Instances for TLC |
| `DbiResults.tla` | The DBI results of one connection: sent, bound, fetched, handed over and cleared |
| `FlattenLemmas.tla` | Lemmas about sequences of sequences strung together (`FlattenSeq`), as the executions of a bind are |
| `DbiResultsProofs.tla` | TLAPS proofs about `DbiResults` |
| `MC_DbiResults.tla`, `DbiResults_safety.cfg` | An instance for TLC |
| `Drivers.tla` | Drivers, instances, the registry, connections, settings |
| `SharedFiles.tla` | The abstract specification: one instance per file, shared by the connections to it. `Drivers` implements it (`ImplementsSharedFiles`) |
| `DriversProofs.tla` | TLAPS proofs about `Drivers` |
| `MC_Drivers.tla`, `Drivers_*.cfg` | Instances for TLC |
| `Registration.tla` | One connection's transaction, the data frames registered on it, probes, writes and CSV imports |
| `RegistrationProofs.tla` | TLAPS proofs about `Registration` |
| `MC_Registration.tla`, `Registration_*.cfg` | Instances for TLC |

`PROJECT.json` maps every definition that models code to its lines, lists the runs, the theorems, the hazards with the properties that cover them, the findings, and for each property a mutation of the model that breaks it. The definitions named "faulty twin" in a module's header (`StillTracked` beside `TrackedWithout`, for example) are those mutations; no action uses one.

### ArrowResults

R's thread is `stack`, the engine calls it is in, each with the client context it has locked; `atR` says whether R code or the engine is on top. `BeginStatement` is `EndOpenResults()` up to its loop (drain, take `open_results_lock`, move the entries out of the map). A turn of the loop is three steps: `EndAsk` asks the engine whether the result is open, `EndMark` sets `invalidated`, with no lock held, and `EndClose` closes what is still open; the first and the last wait for the context's lock, and `found` and `marked` say where the turn is. `HandlerRefuses`, `EngineRefuses` and `EnterEngine` are what comes of the statement. All of these are separate because a pool thread runs between them. `Callback` and `CallbackReturns` are the engine running R code; everything R code can do, it can do there, down to `MaxDepth` calls.

A result's life is `holder`: none, `query_result` (the R object has the engine's result), `wrapper` (the first chunk read made a stream of it), `reader` (handed to arrow, dbplyr or a record batch reader), `parked_result` or `parked_wrapper` (finalized underneath a callback), `gone`. `tracked` is the map of `OpenResults()`, keyed by context, whose entries are raw addresses in the code: a query result's or its source's. `active` is the engine's one open result per context. `left`, `invalidated`, `finished`, `failed` and `told` are what the consumer's answers depend on; `lost` counts the rows that failed reads have taken with them, and no action reads it.

A read on R's thread is `ReadAtOnce` where the code answers without the engine, and `BeginRead` and `EndRead` where it fetches under the lock, because callbacks run in between. A read ends in one of three ways. `Batch` hands out rows, or the end. `Fails` is the engine's error, from a poll or a fetch, which goes through `Fail()` and is repeated by every later read. `BatchLost` is any other exception, above all that of `appender.Append()` and `Finalize()`: `GetNext()` makes it `last_error` and nothing else keeps it, so that the batch's rows are gone, the stream stays open and the next read goes on behind them. That can happen to retained results too (`ReadAtOnce`, `ReadTable`).

A read on a pool thread takes the context's lock anew at each step, and R's thread may end the result at any of them: `GetNext()` asks `Invalidated()` with no lock (`PoolBeginRead`), then each chunk is polled (`PoolPoll`), fetched (`PoolFetch`) and appended (`PoolAppend`) to the batch under way, `have`; the read ends with its batch (`PoolBatch`), with the end (`PoolSeesEnd`), or in one of the two failures (`PoolBatchLost`, `PoolFails`). A release there asks whether a callback is active, then parks, or untracks (under `open_results_lock`) and then closes (under the context's lock). Two simplifications are named in the module: `Poll()` and the `IsOpen()` after it are one step, and on R's thread, where nobody else ends the result, one lock spans the read.

Not modelled: what rows hold, schemas and array export, `rapi_bind()`'s loop (one submission stands for each of its; `DbiResults` has the loop), the interrupt (an interrupted read is a failed read), a second session thread. One release of a record batch reader on the pool stands for arrow's own timing.

### Altrep

`rel_to_altrep()` makes a data frame whose query runs when R first reads it. `ReadLength` is `RowCount()` and `ReadColumn` is `Dataptr()`; both go through `Enter`, the part of `GetQueryResult()` before any R code: a stored error is answered, a released result refused, a pending query pushed as a call in its materialize callback, a held result turned into a conversion of the column. `RunQuery` is what follows the callback: the refusal for a query whose connection's own query holds the handler, the handler if the slot is free, the client context's lock, the doubled `max_expression_depth`. `QueryFails` and `QueryDone` are the two ways out of `Materialize()` with what `GetQueryResult()` does after it, `FillFails` and `FillDone` the two ways out of the conversion, with `MarkColumnAsTransformed()`.

All of these run R code: `stack` is R's one thread, the calls under way with the innermost last, and `pc` says where each is. `RCode` is where R code may start another call. `Locked` says which client contexts the calls of the stack have locked. The statements beside the reads are `Execute` (`dbExecute()` and its like, with the handler) and `RelFromDf` (`rel_from_df()`, without); each may scan a data frame. `BindTouches` is the scan's bind on R's thread, which touches each column in turn (`TouchColumnsOrThrow()`) and so starts reads under the lock; `TaskBinds` is a bind on an engine thread, which takes only columns that are in memory. `Interrupt` is SIGINT at any time while a handler has a context, and `StatementDone` is `HandleInterrupt()`, `Disable()` and the answer.

The data are versions: run n of a query gives version n, and no two runs need agree, so that a column of a second run can be told from one of the first. `vec` is the vector of a column, `whole` whether it has every row, `conv` and `marks` the flag and the counter from which the release of the result follows.

`Habits` names what R code in a callback may do that the code cannot survive: touch the very data frame whose callback or conversion runs (the comment at `src/src/reltoaltrep.cpp:176` knows of it), start something whose lock the stack holds (the subject of `arrow_selfwait`), or give `rel_from_df()` an unread data frame of its own connection. `altrep_safety` has none of them, and each theorem says which it excludes.

Not modelled: `HandleInterrupt()` and `Disable()` are one step, so that a signal between them, or on another thread, is not seen; strings are converted as a whole like the other columns; row limits are failing queries; serialization and the inspection functions only read.

### DbiResults

A result has one of three classes. A `frame` result (`dbSendQuery()`) keeps its rows in R, `resultset`, and a position in them, `fetched`. An `arrow` result (`dbSendQueryArrow()`) keeps one query result per row bound, `current` and `pending`. A `legacy` one (`dbSendQuery(arrow = TRUE)`) keeps its query result for whole scans. A row is the turn of the bind that it answers, the execution that it comes from and its number there, which is what it takes to see a row that is lost, repeated, out of order or of another bind. A query result is the rows left in it and a state.

`Send` is `dbSendQuery()`, which runs a statement without parameters at once. `Bind` is `dbBind()` whose rows all succeed; `BindRefused` and `RunsForNothing` are the binds that fail, before the first execution or after some: `dbBind()` has by then let go of what the result held (`StartsOver`). `Fetch` is `dbFetch()`; `FetchChunk` is `dbFetchArrowChunk()` with its advance to the next pending query result, `HandOver` and `DrainAll` the two ways of `dbFetchArrow()`. `ChunkFails` and `DrainFails` are these reads when they fail: at any query result on their way and after any number of its rows, which are lost with the chunks read before; the next read goes on behind them. Only the engine's error on a stream is for good (`AfterFailure`). `AfterStatement` is the ending of what streams, by every execution and every preparation, those of the loop of `rapi_bind()` included. `Clear` is `dbClearResult()`, which releases what an Arrow result holds and leaves the query result of a legacy one to the collector.

`answer`, `gone`, `lost` and `turn` are history variables: the rows of the last bind, those that have left the result since, those of them that a failed read took, and which of two alternating turns that bind was; the guards do not read them.

Not modelled: `env$rows_affected` and the cached Arrow schema, which are answers of the engine; and the reader of a stream that was handed over, which `ArrowResults` models.

### Drivers

`ref`, `lock` and `conn` are the external pointer, `DualWrapper::precious_` and the connections' shared references: an instance lives (`Alive`) while its driver locks it or a connection holds it. `Reuses`, `Creates` and `Refuses` are the three ways through `duckdb()`; `Duckdb`, `DuckdbRefused`, `Connect`, `ConnectVia`, `ConnectRefused` and `ConnectFails` are the calls built from them, each the whole R call. `Canonical` is `path_normalize()`: a path resolves only as far as it exists, so a symbolic link has one name before its target exists and another after. `Collect` is R's collector running `rapi_shutdown()` as a finalizer on a reference nobody reaches, `Drop` is R code letting go. A driver identity that was collected can be created again, which stands for any number of drivers over time. `claimed` is a history variable, the drivers that a call of `duckdb()` has answered with since they were last connected to; no action reads it.

Settings are one value per instance: `read_only` and one `config` entry, compared as `warn_instance_settings_ignored()` compares them. `home`, `shared_home`, `allow_extensions` and `environment_scan`, which are refused on reuse whenever they are passed, are refusals of the same kind. Paths that an extension answers are left out. Results that outlive their connection and keep an instance alive unknown to its driver are left out too: `?duckdb` describes what follows from them.

### Registration

A registered data frame is a view that holds its bare address (`view`) and an attribute of the connection that keeps it from the collector (`kept`). The engine restores the one on a rollback (`saved`) and knows nothing of the other. `Registers` and `Unregisters` are `rapi_register_df()` and `rapi_unregister_df()`, whole, in their order: the attribute is set after the view exists, and dropped before the view is. `live` and `held` are R's heap: what is not collected, and what R code reaches by itself; `NewFrame` reuses the identity of a data frame that was collected and whose address no view holds, so that two identities stand for any number over time.

`txn` and `policy` are the engine's transaction context: an error fails the open transaction unless it is a catalog, binder or parser error under the lenient policy, or never reaches the engine (`early`: R code or the glue raises first). A failed transaction refuses every statement but its end.

`dbExistsTable()`, `dbWriteTable()`, `dbAppendTable()` and `duckdb_read_csv()` are sequences of statements, and `at` is the one R's thread is at: `Ask`, `Look`, `Answer` are `probe_table()` with its `on.exit()`, `Remove` the drop of an overwriting write, `Fields`, `RegisterForWrite`, `Fill` and `UnregisterOnExit` the write, and `CsvBegin` to `CsvExit` the import. Each may fail in every way a statement can. Between two of them only the collector and R's releases run. The temporary view of a write has a random name, so one `WriteView` that is new each time stands for all of them.

History variables: `own` (the policy that the transaction should have), `touched` and `undone` (the names whose last registration or unregistration was cut short by an error or an interrupt, or rolled back, and that have a view since), and `before` in `arg` (the tables when the call began). No action reads them but to update them.

Not modelled: other connections (a temporary view is the connection's own; what others do to a table is `UserError` or a failing statement here), Arrow registrations, the replacement scan, and the types and texts of the statements.

## 3. The runs

| Run | Bounds | Shows |
|---|---|---|
| `arrow_safety` | 2 connections, one of which R may close, 2 results on that one, one of these read on the pool, 1 row, batches of up to 2, 2 calls deep | `TypeOK`, `TrackedIsLive`, `OpenIsKnown`, `NoTruncatedEnd`, `NoSelfWait`, `VerdictIsFinal`, that `ArrowResults` implements `ResultDelivery` (`ImplementsDelivery`), and that `IInv` holds |
| `arrow_liveness` | 2 connections, 1 result without rows, read and released on the pool | `ReleaseCompletes`, `StatementIsAnswered` |
| `arrow_selfwait` (violation) | callbacks of a read may use its connection | `NoSelfWait` fails |
| `arrow_truncated` (violation) | the same as `arrow_safety`, 1 call deep | `NoTruncatedEndAnywhere` fails |
| `arrow_dropped` (violation) | 1 result of up to 2 rows, alone on its connection, read on R's thread | `NoEndPastFailure` fails |
| `altrep_safety` | 2 data frames of 2 columns, each on a connection of its own, 5 calls deep, up to 2 runs of a query | `TypeOK`, `HeldWhileNeeded`, `RunsOnce`, `ScansWhole`, `HandlerScoped`, `DepthScoped`, `NoSelfWait`, `InterruptReported`, and that `Altrep` implements `LazyFrame` (`ImplementsLazyFrame`) |
| `altrep_selfwait` (violation) | the same, 3 calls deep; `rel_from_df()` may be given an unread frame of its own connection | `NoSelfWait` fails |
| `fetch_safety` | a result of six kinds and one that streams or is kept on the same connection, binds of up to 2 rows, executions of up to 2 rows | `TypeOK`, `AnswerAccounted`, `CompletedTellsAll`, `BindsKeepTheirRows`, `ReadsToTheEnd` |
| `drivers_safety` | 3 drivers, 2 connections, a file, a link to it, memory, 2 settings | `TypeOK`, `OneWriter`, `RegistryKnowsLive`, `RegistryUsable`, `SettingsApply`, `OnlyRefusalKeeps`, that `Drivers` implements `SharedFiles` (`ImplementsSharedFiles`), and that `IInv` holds |
| `drivers_onewriter` (violation) | drivers in use may be shut down | `OneWriter` fails |
| `registration_safety` | 2 data frames, 1 name, 1 write view, 1 table written to at most once beyond its creation, strict policy by default, interrupts | `TypeOK`, `ViewIsLive`, `WriteCleansUp`, `PolicyIsOwn`, `ProbeSparesTransaction`, `CsvAllOrNothing`, and that `IInv` holds |
| `registration_dangling` (violation) | the same, no interrupts | `ViewIsLiveAlways` fails: a registration replaced in a transaction that is rolled back |

Why the bounds are enough. Two results on one connection are what it takes to end one for the other; a second connection gives statements that nest. Depth 2 is a callback and a statement in it; the handler refuses a third statement whatever the depth, and a read below a read adds the lock of another connection, which depth 2 has. One row with batches of 2 has the short batch that ends a stream, the exact one that does not see the end, the read of several chunks between which a result is ended, and the rows that a failing read takes or leaves. `Closable` names the connections that R may close, to keep the one without results out of the state space; closing that adds nothing but fewer statements. For data frames, two connections are what a refusal and a nested materialization need, and five calls are a statement, its scan's read, a conversion inside, and a statement with its read above that; two columns are one converted and one that still needs the result, and two runs of a query are one more than the promise allows. Two frames of one connection add nothing that the model tells apart from a frame and a statement of that connection, which the run has. For DBI results, a bind of two rows has one result being read and one pending, and a third would be a second that is pending; executions of no row, one and two have the empty result that is skipped, the exact batch and the slice; the second result is there to end the first one's stream. Three drivers are an old one, the current one and the next; one file under two names with memory beside it has every way a key can differ. Drivers and connections are symmetric, and no property names one. Two data frames are one that is replaced and its replacement; names do not interact, save that a write's view is not the user's, so one of each will do; one table has the four states absent, empty, written and restored. The theorems of section 4 hold without bounds.

The bound that a run names and the code has not: `MaxFills`, how often a table is written to, only tells a table that was written from one that was restored; `MaxRuns` of `Altrep` is one more run of a query than `RunsOnce` allows; `MaxRows`, `MaxBatch`, `MaxBound` and `MaxDepth` are argued above.

`CHECK_DEADLOCK FALSE` is set for `ArrowResults`, whose results are made once each and where R's thread may really wait for itself, which `NoSelfWait` is about, and for `DbiResults`, whose results are made and cleared once each. `Altrep`, `Drivers` and `Registration` are checked for deadlock too.

Fairness (`arrow_liveness`): weak fairness of the loop of `EndOpenResults()` and of what follows it, which R's thread goes on with; strong fairness of the return of the engine call and of the callback at each depth, as queries and callbacks end; and strong fairness of each pool thread's next step, as a mutex that is free again and again is got in the end. Nothing is assumed of R code: it starts, reads and releases what it likes. In `fetch_safety`, weak fairness of the reader of each result: that is the loop `while (!dbHasCompleted(res)) dbFetch(res, n)` itself, which a caller writes, and `ReadsToTheEnd` says that the code lets it end. The property excludes a result that is bound again for ever.

## 4. The proofs

For any number of connections, results and rows and any depth of calls (`ArrowResultsProofs`):

| Theorem | States |
|---|---|
| `Invariance` | `Spec => []IInv` |
| `TypeCorrect`, `TrackedLive`, `OpenKnown` | `TypeOK`, `TrackedIsLive`, `OpenIsKnown` always hold |
| `NoSelfWaiting` | `NoSelfWait` always holds if no callback of a read uses the connection being read (`Reentrant = FALSE`; the run `arrow_selfwait` shows that the condition is needed) |

and, in `ArrowDeliveryProofs`,

| Theorem | States |
|---|---|
| `NoTruncation` | `NoTruncatedEnd` always holds: an end means that no row is left, unless it is told on the pool of a result that a statement has marked |
| `VerdictsFinal` | `VerdictIsFinal` holds of every step: the end, the engine's error and an invalidation stay, but that the first two may become an invalidation, on the pool, of a result that a statement has marked |
| `DeliveryImplemented` | `Spec => ImplementsDelivery`: every step is a step of `ResultDelivery` or a stutter |

For any number of data frames, columns and connections and any depth of calls (`AltrepProofs`, `AltrepFrameProofs`):

| Theorem | States | For R code that |
|---|---|---|
| `AltrepInvariant`, `AltrepTypeCorrect`, `HandlersScoped`, `InterruptsReported`, `DepthsScoped` | `HInv`, `TypeOK`, `HandlerScoped`, `InterruptReported`, `DepthScoped` | does anything (any `Habits`) |
| `NeverSelfWaits` | `NoSelfWait` | starts nothing whose lock its stack holds, and gives `rel_from_df()` no unread frame of its connection (`altrep_selfwait` shows the need) |
| `ResultsHeld`, `ScansComplete`, `QueriesRunOnce`, `FramesAreLazy` | `HeldWhileNeeded`, `ScansWhole`, `RunsOnce`, `ImplementsLazyFrame` | keeps off the frame whose callback or conversion runs |

For any number of results, rows and bound rows (`DbiResultsProofs`):

| Theorem | States |
|---|---|
| `DbiInvariant`, `BindsKept` | `IInv` of the proof and `BindsKeepTheirRows` always hold |
| `DbiRows` | `RowsInv` of the proof always holds |
| `DbiTypeCorrect`, `AnswersAccounted`, `CompletionTells` | `TypeOK`, `AnswerAccounted` and `CompletedTellsAll` always hold |

For any number of drivers, connections, spellings, files and settings (`DriversProofs`):

| Theorem | States |
|---|---|
| `DriversInvariant`, `KnowsLive`, `SingleWriter` | `IInv`, `RegistryKnowsLive` and `OneWriter` always hold if drivers in use are not shut down (`drivers_onewriter` shows the need) |
| `FilesAreShared` | `Spec => ImplementsSharedFiles`, under the same condition |
| `DriversTypeCorrect`, `UsableRegistry` | `TypeOK` and `RegistryUsable` always hold |
| `OnlyRefusals` | `OnlyRefusalKeeps` holds of every step, however drivers are used |
| `SettingsHonoured` | `SettingsApply` always holds if settings are passed to `duckdb()` only (section 5 has what `dbConnect()` does with them) |

For any number of names, data frames and tables (`RegistrationProofs`):

| Theorem | States |
|---|---|
| `RegistrationInvariant`, `RegistrationTypeCorrect` | `IInv` and `TypeOK` always hold |
| `ViewsLive`, `WritesCleanUp`, `PolicyRestored` | `ViewIsLive`, `WriteCleansUp` and `PolicyIsOwn` always hold |
| `ProbesSpare`, `CsvAtomic` | the action properties `ProbeSparesTransaction` and `CsvAllOrNothing` hold of every step |

The assumptions on the constants are named in each module, and TLC evaluates them in every run.

The argument for Arrow results. `TrackedIsLive` and `WholeForR`, which is `NoTruncatedEnd` for what R reads, are not inductive. A closing of a result, by whoever, takes its client context's lock, so `IInv` says what each holder of a lock can rely on (`LocksHold`): under a statement the context has no open result, under a read it is the one being read, in one reader only. `OwnersOK` ties the pool's steps to readers and unmade results to their initial state. `OpenOK` strengthens `OpenIsKnown`: an open result is tracked by exactly the object that owns it now, which is what makes the hand-over from query result to source safe. `EndsEmpty` then says why an end is never early: a result that is neither invalidated nor failed stops being open only by handing out every row. Each action preserves each conjunct; those that only move R's thread, only touch one result, or only close results share a lemma each.

A turn of `EndOpenResults()` is under way for several steps, and a batch on the pool for several chunks. `UnderWay` says what can have become of them: what the turn has found open is open, unless a pool thread has read it to its end; what it has marked is invalidated, which is why `OpenOK` allows an open result to be invalidated only then; and a batch under way has no more rows than its result. It needs the other conjuncts before and after a step, and they need it, so that the steps are gone through twice: first for the others together (`Core` of the proof), then for `UnderWay`.

The argument for verdicts and delivery. `VInv` says of every result what the last answer to its consumer implies (`ToldOK`): an error means failed, an invalidation invalidated, and a stream that has told its end or its error is finished and, unless a pool thread reads it, not invalidated. So `EndOpenResults()` marks nothing R has been told the end or the error of (`MarkedUntold`), and such a verdict can only be repeated, or, on the pool, become the invalidation that it hid. A read on the pool begins only while nothing is decided, and `ReadsUndecided` keeps that until it ends: that is why a false end or a late error comes at most once. With `EndsEmpty` and `WholeForR` follows `NoTruncatedEnd`.

For the refinement, the steps are sorted by kind (`KindsOfSteps`). Those that answer nobody release connections (`Release`) or, as a turn of `EndOpenResults()`, mark a result (`EndFor`); a result that a statement answers with is made; a read on the pool begins (`Begin`). A read that ends has one of four outcomes (`Outcome`), whoever reads: rows (`Deliver`), a failure of its own that drops rows (`Drop`), the engine's error (`Fail`), or the end, which the specification tells apart as `End` or, for a result that a statement has ended, `CutShort`. `ResultDelivery` allows an answer other than the invalidation after `EndFor` only to the one read that was under way, and a read is under way in `Ahead` alone, which are the results of `PoolStreams`. Every abstract variable is a variable of `ArrowResults`, or the set of results with an owner, an invalidation or a read on the pool.

The argument for data frames. `HInv` is the part that holds for any R code: the stack is made of well-formed calls, and the handler's slot belongs to one of them (`HandlerScoped`, which is inductive with that). `DInv` adds that no client context lock is held twice, since a call that finds it taken waits: a connection then has at most one materialization under way, and the depth it restores is the one it found. `WInv` adds for considerate R code that a call which is not waiting was clear of the locks below it and stays so. `FInv` is about the data: a vector that is set is converted or is being filled by a call of the stack (`Explained`); of two calls, what may lie beside what (`Beside`: no column filled twice, no query run above its own callback, no bind above a conversion of its frame); and the columns converted are counted (`Held`). What R sees of a column then is that it is converted (`Seen`), from which the refinement follows step by step. For `RunsOnce`, a query that has run has left a result or an error or is under way (`Once`), and what is under way keeps others out by its lock.

The argument for DBI results. What is pending was executed in a loop of several and does not stream, so that no later statement can cut it; this is inductive once it says the same of the query result being read while others are pending. That is all that `IInv` needs to say for `BindsKeepTheirRows`.

`RowsInv` is about the rows. `AnswerAccounted` is in it as it stands: what has left the result, followed by what is left in it, is the answer (`Accounted`), and what failed reads have taken is among what has left. Beside it, a result that was never sent has nothing (`Unsent`), an Arrow result that has completed has nothing left unless its stream was handed over (`Told`), and the position in a data frame is within it (`RowsTyped`). What is left of an Arrow result is strung together from the query results it holds, so that a step has to say what happens to that string when the first query result loses rows, is exhausted, or is one of several that a bind made. `FlattenSeq` is a recursive function, and no prover here can instantiate an induction theorem; `FlattenLemmas` does those inductions as arguments about the least number for which a claim fails, a set whose least element is a fact of the library, and gives the type of a flattened sequence, that of an empty one, and how it splits behind its head and around any of its parts, which is where a read that fails stops. `IInv` is needed once more: an execution does not touch what a bind of several rows holds, since none of it streams, and so the rows of the other results stay. That `None` is none of the values it stands beside is an assumption of the module (`NoneAssumption`).

The argument for drivers. What makes `OneWriter` true is that a live instance is the one registered (`Known`) under the name that every spelling of its file resolves to, now that the file exists (`Named`). So the invariant is about names, and one writer follows because a registry is a function. Steps after which no more instances live than before (`WaningStep`) and steps that put one in its place share a lemma each; a creation is safe since the registered instance, if there is one, is not alive.

For `SharedFiles`, an instance is a driver with the settings of its creation, and a file is open by the instances that live on it. A creation opens a file that was closed, since an instance that lived on it would be the registered one, and `duckdb()` would have answered with that; the driver whose lock a late comer gives up has no file open (`GoesFromNoFile`); the collector closes no file, as a live instance of one is registered and so reachable; and a shutdown closes one that no connection uses, which is where the condition on R code comes in. Each of these facts says what a call does to the two abstract variables, and one lemma per action of `SharedFiles` turns that into a step of it.

The argument for registrations. A view is live because the attribute of its name keeps the data frame it holds (`KeptOK`) and what is kept is not collected (`LiveOK`); for that to survive a rollback, the invariant also says that a name not touched in the transaction has the same view in `saved`. `CsvOK` carries the tables of before from the call's start into what the engine saved at its BEGIN, which is what its rollback restores; `PolicyOK` says what a probe under way has to put back. Steps that fail, steps that move a call on, and steps that end a transaction share a lemma each.

Model-checked only: `ReleaseCompletes`, `StatementIsAnswered` and `ReadsToTheEnd`, as liveness is out of the prover's reach. Every invariant and every safety property of a step that a run checks is proved.

## 5. What the checks found

- A callback of a streamed read that starts a statement on the connection being read makes R wait for its own lock (`arrow_selfwait`): the read installs no interrupt handler, and the open results are ended before the handler is consulted.
- A reader on a pool thread can report a truncated result as complete (`arrow_truncated`): `GetNext()` asks whether the result was invalidated before, and without the lock under which, it is polled. The next read does say that it was invalidated (`VerdictIsFinal`), which a consumer that stops at the end does not make. The same race may also tell a cancelled query's error first and the invalidation at the next read.
- A read whose appender throws is not a read that failed: the comment at `src/src/arrow_export.cpp:167` says that "a read that failed fails again", but only what goes through `Fail()` does. The rows of the batch are gone, the next read goes on behind them, and the result comes to a clean end (`arrow_dropped`). That the failing read itself says so is what the properties that hold are left with: `lost` counts its rows.
- `duckdb_shutdown()` of a driver in use makes the next `duckdb()` open the file a second time (`drivers_onewriter`).
- `rel_from_df()` over an unread data frame of its own connection makes R wait for its own lock (`altrep_selfwait`): the comment at `src/src/reltoaltrep.cpp:205` says that a running query holds the handler, which is what the refusal asks, and this one has none.
- A registration that replaces another one in a transaction, and is rolled back, leaves the old view without its data frame, although nobody has unregistered it (`registration_dangling`). So does `duckdb_unregister()`. An interrupt that is reported after the view was created and before its attribute is set, or a DROP VIEW that fails, leaves the same state; `ViewIsLive`, which holds, exempts exactly these (`undone`), so that it says nothing of an interrupted registration until the name is registered again.

Noticed while modelling, in the models but without a run:

- `dbConnect()` drops settings for a driver whose instance is alive, although the file's lines 13 and 14 say otherwise; `SettingsApply` is checked and proved where none are passed to it (`SettingsAtConnect`).
- A refused `duckdb()` leaves the registered driver locked, and its instance open after its last connection. `OnlyRefusalKeeps` says that nothing else does.
- `duckdb_read_csv()` begins a transaction of its own by default, so that inside an open one it fails and aborts it, although `handbook/usage/statements/README.md:95` lists it among what works inside a transaction.
- An interrupted materialization stores the engine's error as the frame's, so that the data frame answers it for good; `InterruptReported` exempts it. A materialize callback that touches its own data frame runs the query twice.
- `Disable()` takes the handler's context but leaves it in the slot: a finalizer that runs a statement while the rows of another are converted is refused, and a data frame touched there is materialized with no handler, so that SIGINT does not reach it. `rapi_rel_to_df()` converts without `Disable()`, so that SIGINT during the conversion is taken and not reported.
- A `dbBind()` that is refused or fails leaves a result that says it has completed with no rows, also when it was refused because the statement has no parameters and rows were left to fetch. An `INSERT ... RETURNING` says that it has completed while rows are left.
- A legacy result with parameters can be bound and never fetched; one without never says that it has completed, and clearing it leaves its query result to the collector.
- A `dbFetchArrow()` over several executions that fails or is interrupted loses the chunks it had read, and the next read goes on behind them; `AnswerAccounted` and `CompletedTellsAll` count these rows as gone. A bind of a result that has rows left leaves its query results to the collector, where `dbClearResult()` would release them.

Documented and not reported: a result or stream that keeps an instance alive unknown to its driver (`?duckdb`, "The cache does not find an instance that only such a result or stream keeps open"), and symbolic links on Windows. A file driver that was never connected to is never collected, since `driver_registry` keeps it reachable; in the model that is `Reachable`, and a property would restate it.

## 6. What is not modelled, and the plan

Of the package's own code, what is left out is data: type conversion, R functions as engine functions, SQL text, storage directories, error messages, generated glue. `PROJECT.json` gives the reason for each component. The engine under `src/src/duckdb/` is vendored, and by far the largest part of the repository's lines; what the glue relies on is modelled as external definitions of the modules above, which is why the share of lines mapped is small.

Done, in this order: `ArrowResults` with `ResultDelivery`, `Drivers`, `Registration`, `Altrep` with `LazyFrame`, `DbiResults`, each with its proofs, and `SharedFiles`; the refinements are proved.

What remains, the most important first:

1. Interrupts at the level of instructions: the signal on any thread against the constructor, `HandleInterrupt()` and `Disable()` (`src/signal.cpp`), with the handlers an extension installs meanwhile. `StatementDone` of `Altrep` has to become three steps for it, and `InterruptReported` then needs the exemption that the code makes: a signal after the flag was read.
2. The callbacks of progress displays that are destroyed on an engine thread (`src/connection.cpp`): released on R's thread only, each once, and in the end if queries go on.
3. Registered Arrow sources, their table `arrow_scans` and statements prepared over them (`src/register.cpp`); replacement scans.
4. A composition of `ArrowResults` and `Altrep`: a relation that is materialized ends the open results of its connection, which today each module has by itself.

Each of these comes with its theorems; of what is modelled, no safety property is left to prove.
