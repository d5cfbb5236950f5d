# Formal models of the newsfeed web service

The service answers `GET`, `POST`, `PUT` and `DELETE /api/v1/newsfeed` from one of three
databases. This directory holds TLA+ models of it, the TLC configurations that check them and
the TLAPS proofs about them. Paths below are relative to `newsfeed/crates/` unless they start
with `docs/` or `scripts/`.

## Inventory

| Part | State it keeps | Operations | What makes it hard |
| --- | --- | --- | --- |
| Access gate (`newsfeed-server/src/router.rs`, `middleware/`) | a bucket per client address | CORS, body limit, rate limit, API key check, in that order | which address a bucket is kept for; what a forwarding header may say |
| Request validation (`handlers/cud.rs`, `validation.rs`, `extractors.rs`, `newsfeed-models/src/feed.rs`) | none | JSON extraction, header checks, duplicate titles, required fields | the order of the checks decides the status; titles are compared as sent here and without case in the database |
| CUD request life cycle (`router.rs`, `handlers/cud.rs`, `newsfeed-service`, the three drivers) | a request's place between arrival and reply | wait for a connection, one procedure call, status mapping, 408 after 60 s | the timeout drops the handler, not the procedure; a lost connection says nothing about the commit |
| Connection pool (`newsfeed-db/src/pool.rs`) | connections, `is_healthy` | acquire (with a 5 s timeout), ping, close | exhaustion; who still holds a connection |
| Bulk procedure, PostgreSQL (`newsfeed-db/migrations/postgres`) | table `newsfeed`, key `title citext` | insert, update, delete of a JSON batch, one statement | row locks, snapshots, deadlocks, NOT NULL, case |
| Bulk procedure, MariaDB (`migrations/mariadb`) | table `newsfeed` without a key | the same, statuses first, then the change | two transactions, so anything may come between |
| Bulk procedure, SQL Server (`migrations/mssql`) | table `NewsFeed`, key `title` | the same, change first, then statuses | probe and insert apart, three-valued logic, column widths, dates lost in a cast |
| Read path (`handlers/get.rs`) | none of its own | ETag from `MAX(modified_date)`, extract, body-hash ETag | two reads of a table that changes; timestamps taken at transaction start |
| Extract procedures (`extractnewsfeed` in `migrations/`, `newsfeed-models/src/feed.rs`) | MariaDB: variables of the session | parameters, cleaning, a statement put together from the filters | placeholders and arguments are written in different branches; a session outlives its request |
| Server life cycle (`main.rs`, `shutdown.rs`, `handlers/health.rs`) | `is_healthy`, the listener | start, watcher ping, graceful shutdown, close | stale health, ping against close, statements nobody waits for, clients that stop writing or reading, no drain limit |
| Configuration (`newsfeed-config`, `AppState::init`) | none | defaults, required variables, checks before connecting | which environments start, and with what |
| Key scripts, OpenAPI, responses | an `.env` file | formatting | little: no concurrency |

The parts meet in few places. A request passes the gate, is validated, takes a connection from
the pool, makes exactly one procedure call and is answered from the statuses the call returns.
Requests share nothing in the service but the pool; they meet in the database. The read path
and the health watcher draw on the same pool.

What would make each part correct:

- validation and mapping: the first failing check decides the status; 201 only if a row went in;
- life cycle: what a client is told never contradicts what the database did or may still do;
- bulk procedures: titles stay unique, a batch is applied whole or not at all, the statuses add
  up to the change of the table, statements end;
- pool: a waiting request is served or told why not;
- read path: a 304 means that the client's copy is still current;
- extract procedures: the rows of an answer are those the filters ask for, in order, and no
  combination of filters fails;
- gate: a request counts for the address it came from, a bucket keeps its rate, and nobody is
  refused before the burst is used up;
- server life cycle: shutdown ends, and closes the pool after the last request; the readiness
  probe follows the database;
- configuration: a service starts only from an environment that passes every check.

## Modules

| Module | Models | Correspondence |
| --- | --- | --- |
| `FeedBatch` | the data of a request, the checks before the call, the mapping of its answer | pure operators; `Checks` lists the checks in the order of the extractor and `process_cud`, `HttpStatus` is `handle_cud_logic` |
| `CudService` | a request between client and database | `phase` is the database side, `outcome` what `cud_feed` returned, `reply` the HTTP status; `Receive`, `Acquire`, `AcquireTimeout`, `LoseConnection`, `Respond`, `CudTimeout` |
| `PostgresCud` (extends `CudService`) | the PostgreSQL procedure, row by row | `Begin` takes the snapshot, `Execute` tries one item under its lock, `Commit` and the three `Abort...` actions end the call |
| `FeedStore` | what a bulk call promises, without connections, snapshots or locks | `Submit`, `Skip`, `Apply`, `Fail` |
| `StatementStore` | what a bulk call promises where its statements commit one by one | `Submit`, `Skip`, `Apply`, `Fail`; a request may still fail once it is applied |
| `StatementCud` (extends `CudService`) | what the other two engines share | the payload filter, joins without case, statement by statement |
| `MariaDbCud` (extends `StatementCud`) | the MariaDB procedure | `Report` then `Change`, two transactions |
| `MsSqlCud` (extends `StatementCud`) | the SQL Server procedure | `Parse`, `Probe` and `Insert`, or `Update`, or `Delete`; then `Answer` |
| `EtagCache` | `GET` with `If-None-Match` against batches that commit meanwhile | `ReadDate` and `NoDate` are the two ends of `max_modified_date`, `Extract` the query and the second comparison; `BatchBegins` fixes a batch's timestamp, `Commit` shows its rows |
| `ExtractFeed` | the query string and the three `extractnewsfeed` procedures | `FromMap` is `from_map`; `Cleaned`, `Placeholders`, `Bound`, `Executes` the building of the statement; `session` MariaDB's variables, set by `Kept` |
| `ServerConfig` | what the service makes of its environment | `Parses`, `Validates`, `Admissible`, `Buildable` in the order of `main`; `ProxyCidrs` |
| `AccessGate` (extends `ServerConfig`) | the client address, its bucket, the key | `ClientKey` is `SecureIpExtractor`, `Readable` its `to_str`; `Fits`, `Take`, `Tick` the governor crate's cell |
| `Server` (extends `AccessGate`) | one run of the service: start-up, connections, pool, watcher, database, signal, drain, close | `phase` is where `main` stands, `stage` how far a connection is (`answering` from the answer to its having been read, `Deliver`), `abandoned` the connections of statements whose handler is gone |
| `CudService_proofs`, `PostgresCud_proofs`, `PostgresStore_proofs`, `MariaDbCud_proofs`, `MsSqlCud_proofs`, `EtagCache_proofs`, `ExtractFeed_proofs`, `Server_proofs` | theorems about the modules they are named after | see below |
| `MC...` | instances for TLC | titles, batches, tables, queries, deployments |

How they compose: `FeedBatch` is extended by `CudService`, that by the three engines;
`ServerConfig` by `AccessGate`, that by `Server`. `Server` knows a handler only as something that
waits for a connection, holds it and answers; `CudService` and `EtagCache` say what happens
meanwhile, with a pool of their own that is always open.

`PostgresCud` implements `FeedStore`: `ImplementsFeedStore` instantiates the abstract
specification with a request's fate read off its phase (`Fate`), and the items it has skipped
read off its list of items still to try and its writes (`PassedOver`).

`MariaDbCud` and `MsSqlCud` do not implement `FeedStore`; they implement `StatementStore`
(`ImplementsStatementStore`). It keeps of `FeedStore` that a batch changes the table in one step,
by the table as it is at that moment, and gives up the rest: the statuses say nothing about
the step, one batch may bring in two spellings of a title where no key forbids it, and a
request that is already applied may still fail. On MariaDB a request is applied when it
commits and skips nothing, since the insert looks for taken titles itself. On SQL Server it is
applied once its changing statement is done (`stage` is `answer`), and what it has skipped is
what its insert found taken at the probe (`FoundTaken`). `MsSqlCud` alone uses the last freedom:
a connection lost between the change and the statuses leaves the change behind.

### Modelling decisions

- A title is a value with a `Fold`, the title it stands for when case is ignored. PostgreSQL's
  unique index on `citext` ignores case; its joins compare `citext` with `text`, which resolves
  to `text = text` and respects it. MariaDB and SQL Server ignore case everywhere.
- `image_url` stands for both optional URLs, which every statement treats alike.
- PostgreSQL under READ COMMITTED: an update or delete finds its rows in the snapshot of its
  start, waits for a row's lock, and evaluates its condition again on the row as it is then. A
  row deleted meanwhile is passed over even if the title was inserted anew (`Orphaned`). An
  insert waits for a colliding uncommitted insert and decides by its outcome.
- MariaDB statements are atomic and autocommitted. The table has no index, so a statement locks
  all of it; two statements at once may block each other and one is rolled back
  (`DeadlockVictim`).
- SQL Server statements are autocommitted. The insert is split where it does not hold what it
  read (`Probe`, `Insert`); updates and deletes of several rows are taken as atomic, which hides
  interleavings of two multi-row statements over the same rows.
- SQL Server takes less than the handler accepts: URLs too long for their columns fail the
  statement that parses the payload, and a date `TRY_CAST` does not understand (RFC 3339 with more
  than seven fractional digits) becomes a NULL that no comparison notices and `publish_date` does
  not take (`WideUrl`, `LongUrl`, `OddDate`). Which texts these are is a constant.
- The results of a call come in no defined order (`jsonb_agg` and `GROUP_CONCAT` without
  `ORDER BY`), and the handler does not use their order: `answer[r][i]` keeps them per item so
  that properties can speak of items.
- A request answered 408 keeps its connection busy until its statement ends. A connection lost
  to an error has left the pool. bb8 hands a connection out again before the abandoned statement
  has ended, and the next call on it waits; that wait counts here as waiting for the pool.
- A request answered 408 while it waits for a connection never calls the procedure.
- Time is left out of the CUD models: any timeout may happen whenever its condition holds.
- `EtagCache` has a clock, as coarse as the engine's timestamps (microseconds on PostgreSQL,
  about three milliseconds on SQL Server, a second on MariaDB). `CURRENT_TIMESTAMP` is fixed when
  the transaction or statement begins, on all engines; the rows appear when it commits. What
  the engines do differently to a batch is left to the modules above: here it inserts, updates
  or deletes any rows.
- The two history variables of `EtagCache`, `peak` and `blind`, change nothing the code can see.
  A date is blind when a change left or put it at the maximum although the maximum had been as
  high before.

- `ExtractFeed` keeps texts opaque: `Fold` is their lower case, `Rank` their place in the
  collation, `Clean` what an engine leaves of a text (characters omitted, cut, trimmed, blank
  gone). PostgreSQL replaces only the first character it omits, the other two all of them. `USING`
  on PostgreSQL takes more arguments than it needs, but the one for `LIMIT` must be a number;
  MariaDB's `EXECUTE` takes the exact number; SQL Server binds by name. Limits are 2 and 3 in
  place of 25 and 100; dates are numbers.
- `Server` chooses a deployment in `Init`: an environment, who connects and through which
  proxies, what they ask for, what the database may do, and a bound on the clock.
- One tick of its clock is a second. The limiter is the generic cell rate algorithm of the
  governor crate: a bucket is the time until it is empty; quotas and bursts fit a `u32`.
- Every trusted proxy appends the address it got the request from to the one forwarding header,
  behind whatever the client wrote there: addresses, entries that are none, or bytes that keep
  the header from being read as text at all (`Unreadable`), which the extractor answers by
  ignoring the header, the proxies' entries included. `X-Real-IP` may say anything.
- A request is over when its client has read the answer (`Deliver`). Nothing limits how long that
  takes: the 408 layers end with the answer, not with its delivery.
- axum's graceful shutdown closes the listener and idle connections at once and waits for the
  rest. sqlx's `close` stops handing out connections and waits for those it handed out; the
  SQL Server arm of `DbPool::close` does nothing. A statement whose handler is gone keeps its
  connection until it ends, on all engines.
- The history variables of `Server`, `outage` and `line`, are read by properties only.
- The two calls of a GET are one step with one connection in `Server`. 405 and a body that turns
  out too long while it is read are answered like any other invalid request (`Invalid`).

## Runs

| Run | Question | Bounds |
| --- | --- | --- |
| `pg_safety` | titles unique, locks exclusive, reports add up, replies truthful, `FeedStore` implemented | 3 requests, 2 connections, 3 titles (two collide), 6 kinds of batches |
| `pg_liveness` | do statements and waiting requests always come to an end | 3 deletes of the same two rows, 2 connections |
| `mariadb` | how far can the reports be trusted without a transaction around them; is `StatementStore` implemented | 3 requests, 2 connections, 6 batches |
| `mssql` | is the key enough for the split insert, do changes add up; is `StatementStore` implemented | 3 requests, 2 connections, 7 batches, with URLs too long and an odd date |
| `etag` | when can a 304 be trusted | 1 client (clients share nothing), 2 batches at a time, 2 titles, 2 contents, 2 ticks of the clock |
| `extract` | are answers what the filters ask for, whatever comes together and whatever a session was used for before | 3 engines, 2 tables, 160 combinations of filters, limits below, at and above the bounds, every order |
| `server` | start-up, rate limit, client address, pool, health, shutdown | 23 deployments, 2 clients, 5 addresses, 2 proxies, at most 4 seconds |
| `mariadb_race` | "exactly one insert to succeed" | violated with 2 requests |
| `mariadb_delete` | "for delete, only title is required" | violated with 1 request |
| `mssql_race` | "zero database errors" | violated with 2 requests |
| `server_rate` | "requests per second per client IP" | violated with 1 client in 1 second |
| `etag_hiccup` | validation is "resilient to intermittent DB connection hiccups" | violated with 1 client and a table nobody writes |

Why these bounds are enough to meet the interesting cases: a deadlock and a lost lock need two
batches and two rows; a snapshot made stale by a delete and a new insert needs a third request;
two connections for three requests fill the pool; `RUST` and `rust` collide while `GO` does not;
two ticks and two batches are enough for a batch
to commit after, with the same timestamp as, or with an older one than, another;
batches of two items are the smallest that can be applied in part, collide with themselves, or
be taken in opposite orders. `MaxBatchItems` is 2 (3 for
SQL Server) in place of 1000. Requests are interchangeable,
so the safety runs use symmetry; the liveness run does not.

`extract` meets every pair of filter branches with a value, a `null` in either spelling, a value
that cleaning changes and one it removes; two requests in a row are enough for a session to be
used again. `server` splits its questions over deployments, since they do not interact: failing
databases with two clients over one connection, proxies and forged headers with the clock, and
environments that do not start or just do. Two clients over one connection fill the pool; the
clock passes a period and the refill of a burst.

Fairness (`FairSpec`): the database goes on with what it was given, and a free connection is
handed on (`WF(EngineStep)`: `Begin`, `Execute`, `Commit`, the abort of a failing or deadlocked
statement); a handler that has its answer sends it (`WF(Answering)`), which the async runtime
does. Nothing is assumed of clients, of lost connections or of the timers, so the liveness
properties hold without the help of the two timeouts. `Server!FairSpec` asks for steps of `main`,
of the watcher, of handlers (whose timeout is the runtime's own) and the end of abandoned
statements, and nothing of clients, signals, faults or the clock. What shutdown and health need
of the outside stands as a premise in the properties: no request half sent and no answer unread
for ever, a database that does not stay silent, a connection left for the ping.

### What the violated runs show

1. MariaDB computes statuses in one transaction and changes the table in the next. Two inserts
   of one title may both report `Success`. The concurrency test in
   `newsfeed-server/tests/integration_test.rs:2007` would fail on MariaDB when they meet.
2. MariaDB and SQL Server drop payload items without `feed_url` or `publish_date` in every mode.
   A delete by title alone, which `validation.rs` accepts, answers 200 with no result and
   deletes nothing.
3. On SQL Server, two inserts of one title may make the second fail on the primary key: 500
   instead of `Skipped`.
4. When `max_modified_date` fails once, the client's date ETag is compared with a hash of the
   body and the unchanged body is sent again.
5. `RATE_LIMIT_RPS=10` is one request every ten seconds after the burst, since `per_second` is a
   period (`router.rs:69`); `app_config.rs:12,34`, `.env.example:79` and
   `docs/troubleshooting.md:38` speak of requests per second. A larger number is a lower rate.

### What `etag` shows about stale answers

A 304 for a date is right as long as the date is not blind, whatever the order of the two reads
and the commits: the date is read first, so a body may be newer than its ETag and never older.
`FreshChangeIsSeen` says which changes are never blind: those of a batch that deletes nothing
and began after the newest date so far. The rest can be missed: any delete of a row that is not
the newest, a batch that commits after a later one, a second batch within a tick. For these a
client gets 304 until the maximum changes.

### What `server` and `extract` show

- `SignalStops` needs its premises: neither the drain nor the closing of the pool has a limit. A
  client that leaves a request half sent or does not read its answer, or a statement or ping that
  hangs, holds up the end of the process for as long.
- `ShutdownAdvances`: a connection that is drained takes at most four more steps, since it is not
  kept alive after an answer, and a closing pool of sqlx is only given back to. On SQL Server the
  close does nothing, and the process may end with statements under way.
- `RateBound` and `RefusedOnlyAfterBurst` hold of the rate as it is: at most what the documents
  allow, and no refusal before the burst. That it is less than they promise is `server_rate`.
- `ReadinessLagsOnePing`: once a ping that began in an outage is over, the probe answers 503 until
  the database is back, also where bb8 let the service start without it.
- `OutageIsSeen` excludes a database that falls silent between the ping's getting a connection
  and its query: the query has no timeout, so the flag stays as it was.
- `RecoveryIsSeen` needs a connection for the ping: a full pool is reported as an outage.
- `KeyIsSender` holds for any addresses and broken entries a client writes in front, as long as its
  own address is not trusted and the header can be read. If it cannot, a request through a
  trusted proxy counts for what `X-Real-IP` says or else for the proxy; then nothing is promised.
- `FailsOnlyOnSpelling`: `image_url=NULL` or `actual_url=Null`, anything but lower case, makes the
  PostgreSQL procedure bind an argument no placeholder asks for, which ends in `LIMIT`; the
  request is answered 500.
- `ServedAsAsked` leaves out `actual_url` on SQL Server where one of the two filters says null and
  the other does not: the test looks at `@imageurl` (`Confused`).

Seen while modelling, without a run of its own:

- `--health-check` asks for `/health`, which no route serves, and so always exits 1
  (`main.rs:36`); `docker-compose.yml` uses it for the container.
- Start-up divides with integers: a rate of 19 asks for one connection, like one of 10
  (`RequiredPoolSize`).
- On SQL Server, an update that only adds or removes an optional URL is taken for no change and
  reported as `SKIPPED_EXISTS`, because NULL against a value is unknown and so is its negation
  (563-568 of the SQL Server migration); the other two engines compare with `IS DISTINCT FROM` and
  `<=>`, and `docs/adr/0009-cross-engine-bulk-cud-parity.md:16` speaks of parity. `Satisfied` in
  `StatementStore` is as weak as this requires.
- A filter nothing is left of after cleaning is no filter, and the whole feed is returned.

## Proofs

All theorems hold for any values of the constants: any sets of requests, titles, texts, clients
and addresses, any pool, any deployments. The named assumptions they rest on (`Fold` is
idempotent, `None` is no data, jobs have the shape of requests, initial tables have no collision,
deployments have typed settings) are evaluated by TLC in every run. An `IInv` strengthens what is
claimed to something every step keeps; one lemma per action shows that it does.

| Module | Theorem | Statement |
| --- | --- | --- |
| `PostgresCud_proofs` | `TypeCorrect` | `Spec => []TypeOK` |
| | `TitlesStayUnique` | `Spec => []UniqueTitle` |
| | `LocksAreExclusive` | `Spec => []LocksExclude` |
| | `PendingWritesFit` | `Spec => []WritesFitTable` |
| | `CreatedIsTrue` | `Spec => []CreatedMeansInserted` |
| | `SettledIsFinal` | `Spec => SettledStaysSettled` |
| `PostgresStore_proofs` | `StoreIsImplemented` | `Spec => ImplementsFeedStore` |
| | `StoreKeepsTitlesUnique` | `Store!Spec => []UniqueTitle` |
| | `ReportsAddUp` | `Spec => []Accounting`, for finitely many requests |
| `MariaDbCud_proofs` | `TypeCorrect` | `Spec => []TypeOK` |
| | `TwinsHaveOneBatch` | `Spec => []TwinsFromOneBatch` |
| | `ReportsAreTruthful` | `Spec => TruthfulUnlessDisturbed` |
| | `SettledIsFinal` | `Spec => SettledStaysSettled` |
| | `StoreIsImplemented` | `Spec => ImplementsStatementStore` |
| `MsSqlCud_proofs` | `TypeCorrect` | `Spec => []TypeOK` |
| | `TitlesStayUnique` | `Spec => []UniqueTitle` |
| | `BooksAreKept` | `Spec => []TouchAccounting`, for finitely many requests |
| | `SettledIsFinal` | `Spec => SettledStaysSettled` |
| | `StoreIsImplemented` | `Spec => ImplementsStatementStore` |
| `EtagCache_proofs` | `TypeCorrect` | `Spec => []TypeOK` |
| | `NotModifiedIsRight` | `Spec => NotModifiedIsTrue` |
| | `FreshChangesAreSeen` | `Spec => FreshChangeIsSeen` |
| `ExtractFeed_proofs` | `TypeCorrect` | `Spec => []TypeOK` |
| | `TopInOrder` | order and limit, for any finite set of rows |
| | `AnswersAreServed` | `Spec => []ServedAsAsked` |
| | `SelectionIsWanted` | a statement that executes selects the rows the filters ask for |
| | `FailuresAreSpelling` | `Spec => []FailsOnlyOnSpelling` |
| `Server_proofs` | `TypeCorrect` | `Spec => []TypeOK` |
| | `RateIsBounded`, `RefusalsAreEarned` | `Spec => []RateBound`, `Spec => []RefusedOnlyAfterBurst` |
| | `KeysNameSenders` | `Spec => []KeyIsSender` |
| | `HandlersHavePool` | `Spec => []HandlerHasPool` |
| | `ReadinessLags` | `Spec => []ReadinessLagsOnePing` |
| | `ShutdownGoesForward` | `Spec => ShutdownAdvances` |

**PostgreSQL, one table.** Unique titles are not inductive by themselves. A commit applies writes
that were checked, one at a time, against older tables, so `IInv` adds that pending writes fit
the table as it is now (`WritesFitTable`), which other commits preserve because batches with
colliding titles exclude each other (`LocksExclude`). The types of the rows written come from
validation: only accepted jobs run (`JobsInOrder`) and a statement only tries items of its own
batch (`TodoInBatch`). `QuietStep` covers the steps that write nothing, `ExecuteWrites` says what
one item may write, `EndKeepsInv` what commits and aborts have in common. `ReplyInv` adds what a
reply says of the database.

**PostgreSQL implements `FeedStore`.** `StoreInv` adds that each pending write is what one item
already tried asks for, that inserts take their items in turn, and that there is no answer before
the end. Arrival is `Submit`; `Begin` and `Execute` are `Skip`; `Commit` is `Apply`, since the
titles of an accepted batch are distinct (`DistinctTitles`) and so the writes are exactly the
items not passed over (`WrittenItems`); `Abort` is `Fail`; everything else is a stutter. The books
count the requests that report a title: a commit adds one request to one side and moves the
presence of the title by one (`CommitReports`, `CommitMoves`, `BooksStep`).

**`FeedStore` alone keeps titles unique** (`StoreKeepsTitlesUnique`). Its `Apply` takes items that
collide with nothing in the table (`Applicable`) and of an insert only one of those that collide
with each other (`Mates`); that is all it takes. So the uniqueness of titles follows for PostgreSQL
twice: from the locks, and from what the batches promise.

**MariaDB.** `VerdictsCurrent`: a verdict nobody has disturbed is the one the table gives now. From
it, the change does what the report said. The change evaluates its condition again on the table
as it is by then, so two batches never bring in two spellings of one title: only one batch's own
two items can.

**MariaDB and SQL Server implement `StatementStore`.** Arrival is `Submit`, the change is `Apply`, a
failure is `Fail`, the probe of SQL Server is `Skip`, the rest stutters. The change is compared row
by row with what `StatementStore` allows the row (`ChangeHasEffect` on MariaDB; `InsertHasEffect`,
`UpdateHasEffect`, `DeleteHasEffect` on SQL Server). For the SQL Server insert this needs that
the key refuses a row inserted since the probe; for its update, that a row it leaves alone is
one no item asks anything else of but for an optional URL or an odd date (`Satisfied`), which is what
three-valued logic comes to. `OrderInv` ties the stage of a statement to the phase of
its request, without which an answered request might still be open.

**Settled is final** on MariaDB and SQL Server as on PostgreSQL: `RepliesInOrder` says in which phases each reply leaves a
request, `ServiceMove` what any step of an engine may do to a request's phase and reply. Each of
the two shows its steps to be such moves (`StepIsMove`); the invariant and the theorem then come
from `CudService_proofs` (`MoveKeepsOrder`, `OverIsOver`).

**SQL Server.** Nothing protects probe and insert but the key, which is a guard of the insert; the
books are kept on what each request touched, since a failed call leaves its changes behind.
`Reports` are shown to be among the touched titles (`ReportsTouched`).

**ETags.** `CopyIsTrue`: a copy whose ETag names a date is the view of the table whenever that date
is the newest in the table and not blind; and no ETag is newer than any date the table has had
(`peak`). `HandlerInOrder` ties the tag a handler answers with to the query it ran and to `peak`.

**Extract.** Placeholders and arguments are both sequences of columns in one fixed order, so they
meet when the two sets are equal (`ArgumentsPassed`); a column more makes the sequence longer and
puts a text where `LIMIT` looks (`ExecutesWhenPassed`). A row's place is the number of rows before it,
itself included; over a finite set of rows told apart by their order the places are 1 to their
number (`PlacesAreTaken`), so that taking rows by place up to the limit gives the answer its order
and leaves out only what comes after its last row (`TopInOrder`).

**Service.** `Buckets`: what was let through, times the period, is at most the clock plus the debt of
the bucket, and at least the debt. `QuotaChecked`: a service that has passed start-up has a period
of at least one second, so that the bound in periods is one in seconds. A request that does not
fit finds the bucket full, and a full bucket has let a burst through (`FullBucket`, `Refusals`).
`KeysNameSenders` looks at the one step that counts a request: the entries behind what the client
wrote are the ones the walk from the right meets first. `OutageNoted`: a ping that is over in an
old outage has cleared the flag, and nothing sets it before the database is up. `ClosedAfterRequests`: main closes the pool after the last
request. `ClosingIsClosed`: while main closes a pool of sqlx, it hands out nothing; with it, each step of
a shutdown leads further (`ShutdownAdvances`), the safety half of `SignalStops`. `OnlyItsClients`: only clients of the deployment have connections.

Only model-checked: the liveness properties (`StatementsEnd`, `QueuedAreAnswered`, `SignalStops`,
`OutageIsSeen`, `RecoveryIsSeen`), which need fairness and `ENABLED` and are beyond the prover. Every
invariant and every action property of a passing run, and every refinement, is also a theorem.
The five violated properties are false and so have no proof.

## Not modelled

- Field formats (URL scheme, RFC 3339, lengths) are one fault, `bad_data`; response bodies,
  logging, OpenAPI, the panic handler: formatting without control flow.
- The parsing of single configuration values, hashing of keys, CORS headers.
- The API key scripts: operator scripts, run by hand, over one file.
- JSON `Error` statuses: the procedures only give one for an unknown mode, which the typed
  `OptionMode` excludes.
- Idle and lifetime limits of pooled connections, which replace one connection by another.
- On SQL Server, interleavings of two multi-row updates or deletes over the same rows.

## Plan

What is left is refinement of what is there: SQL Server's updates and deletes row by row with
their locks; the two calls of a GET as two steps of `Server`.
