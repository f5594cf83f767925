# Experience API: TLA+ models

The Mojaloop Payment Manager experience API shows the transfers of a DFSP. A
connector (outside this repository) saves every transfer as a JSON record in
Redis; the service copies these records into MySQL, page by page, and answers
its REST requests from the MySQL tables. The copy is the program's own core
logic. Around it the modules here model the queries that read the copy, the
sessions of the users who ask them, and the boot of several instances that share
the database.

Paths below are relative to the directory that holds `src/`; so
`src/src/lib/cacheDatabase/index.js` is called `index.js` in short.

## Parts of the system

| Component | State | Operations | Hard behaviour |
|---|---|---|---|
| Cache sync: `syncDB` (`index.js:115-975`), `cache.js` | locals of a run; `sync_state` (cursor and counter per key pattern); one MySQL transaction per batch | load checkpoint, SCAN a page, process its keys in a transaction, commit, save checkpoint, reset at cursor 0, stop an initial run at its limit | crash between commit and save, timers that fire at any await, writes given up on that land later, records changing meanwhile |
| Cache rows: `cacheKey` (`index.js:162-727`) | rows of `transfer`, `fx_quote`, `fx_transfer` | turn a record into rows; insert, update or skip each | malformed parts, values a table refuses, parts that arrive after the status, errors swallowed table by table |
| Sync scheduler (`index.js:1031-1122`) | `backgroundSyncRunning`, `lastSyncCompletedAt`, interval timer | initial run, tick, reset of a stuck run, shutdown | a run that hangs cannot be stopped, one that was forgotten still ends; shutdown waits for both again when it closes the clients |
| Migrations (`cacheDatabase/migrations`) | the MySQL schema, knex's record of what was applied, its lock | create tables, indexes, partitions at boot | MySQL commits every DDL statement at once, so a crash leaves a migration applied in part or not recorded, and the lock taken |
| Access control (`accesscontrol/`) | session in Redis: token set, claims, permissions, code verifier | login, callback, check and refresh, logout | concurrent requests of one session save it last-writer-wins; refresh tokens that work once; answers of the provider that get lost |
| Transfer queries (`model/Transfer.js`, `handlers.js`) | none; a client keeps a cursor | list with a cursor, count, details, reports | paging and two-query reports while the sync writes |
| FX conversion queries (`model/FxpConversion.js`) | none; a client keeps an offset | list with an offset, details, reports | offsets that shift, ratios with a zero divisor, states joined from two tables |
| Request pipeline (`server.js`, `middlewares.js`, `handlers.js`) | per-request `ctx.state` | session, error handler, logger, authenticator, validator, router | the session is loaded first and saved last |
| Lifecycle (`src/index.js`) | process | boot, SIGTERM, SIGINT | several instances, crashes anywhere |
| Proxies to the management API and Prometheus, mock data, helpers | none | one HTTP call each | none |

How they interact: boot creates the MySQL pool, migrates, connects to Redis,
awaits an *initial* run of `syncDB` and starts the interval timer; only then is
the HTTP server started. Every tick calls `doProgressiveSync`, which runs
`syncDB` unless a run seems to be going on. The runs and the queries share only
the tables; the runs share `sync_state` with each other and across restarts.
SIGTERM stops the server, then calls `db.shutdown`, which stops the timer, waits
up to 30 s for a run, and closes Redis and the pool. An initial run that never
returns keeps all that follows it from happening: no timer, no server, no handlers.

What makes each part correct:

* *Sync.* No record is lost: a checkpoint never passes a record that its cycle has
  not brought to its table, and every record, certainly every final one, reaches its table
  whatever failed before. The tables never go back and never show what Redis
  did not say. An initial run is bounded.
* *Rows.* A row says what its record said when it ended; a broken part costs
  only its own row; unchanged rows are left alone.
* *Scheduler.* One run at a time; once it serves the service never stops syncing;
  shutdown gets past its wait, and closes nothing a run still needs.
* *Sessions.* The roles a request works with are granted; a logout holds; the
  latest login works; nobody is sent away for no reason; every request is answered.
* *Queries.* Paging neither skips nor repeats a transfer and ends; counts and
  reports agree with lists; an exchange rate follows from the quote.
* *Boot.* No instance syncs into half a schema, and every one comes up at last.
  (Two crashes break this; the properties name them.)

## Modules

| Module | Models | Role |
|---|---|---|
| `Mirror` | what the tables promise: a copy of Redis that moves forward, never ahead of Redis | abstract specification |
| `CacheSync` | one `syncDB` run after another, with faults, crash and restart | implements `Mirror` (`M == INSTANCE Mirror WITH ...`) |
| `QuoteTerms` | charges and exchange rates of a quote, as both models compute them | pure operators, with a reference definition |
| `CacheRows` | `cacheKey` for one record and its rows | extends `QuoteTerms`; the step `StoreKey` of `CacheSync` in detail |
| `Details` | what the details of a transfer and of a conversion show of the rows | extends `CacheRows`: writer and readers together |
| `SyncScheduler` | ticks, stuck detection, shutdown, in discrete time | checked directly |
| `RangeScan` | what a list paged by a cursor promises while the table changes | abstract specification |
| `TransferQueries` | the paged list, count and reports against the writing sync | implements `RangeScan` |
| `ConversionQueries` | the list paged by an offset against the writing sync | checked directly |
| `Sessions` | login, callback, refresh, logout by concurrent requests | checked directly |
| `Instances` | boot, migrations, crashes and overlapping `cacheKey`s of several instances | checked directly |
| `MC...` | the instances that TLC checks | |
| `SetFolds` | sums over finite sets, and what the folds of the community modules compute | lemmas only |
| `...Proofs` | theorems about `CacheSync`, `CacheRows` and `Details`, `SyncScheduler`, `TransferQueries`, `ConversionQueries`, `Sessions` and `Instances` | |

The modules meet in the tables. `CacheSync` writes one record after another in
one process; what one record becomes is `CacheRows`, what is read from it
`Details`; how runs follow each other is `SyncScheduler`; how runs of two
processes mix on one row is `Instances`. `TransferQueries` and `ConversionQueries`
take from them only that a row appears with some status and, while pending, may
end (`SyncWrites`).

### CacheSync

`pc` says at which await the run stands:

| `pc` | code | actions |
|---|---|---|
| `idle` | between runs | `StartSync` |
| `load` | `loadSyncState` (879) | `Load`, `LoadFails` |
| `scan` | `redisCache.scan` (895) | `Scan`, `ScanFails` |
| `begin` | `db.transaction()` (766) | `Begin`, `BeginTimesOut`, `BeginFails` |
| `keys` | loop over the keys (771), commit (795) | `ReadKey`, `StoreKey`, `StoreFails`, `BatchTimesOut`, `BatchThrows`, `Commit`, `CommitFails` |
| `save` | `saveSyncState` after a batch (926) | `Save`, `SaveFails` |
| `check` | end of the loop body (942-965) | `NextPage`, `Reset`, `ResetFails`, `StopAtLimit` |
| `down` | the process is dead | `Restart` |

A record is its *version*: how often the connector wrote it. From version
`FinalFrom` on its status is final. `row[k]` is the version the committed row
shows, `buf` the rows inside the open transaction. `NeedsWrite` is the test of
`index.js:405-413` on versions: `null` equals `null`, but a final status never
equals what MySQL returns (1 or 0 against `true` or `false`). `Unusable` keys
are those `cacheKey` skips.

SCAN is modelled as fixed pages: key `k` is returned by the call with cursor
`Page[k]`, and the cursor after the last page is 0. Redis promises only that a
key present for a whole cycle is returned at least once; repeated keys add
nothing (processing is idempotent within a batch), and cursors being ordered is
what makes "passed by the cursor" expressible.

*Faults* are any error, timeout or crash; `MaxFaults` bounds them. A failed
commit or save may have been applied or not. `withTimeout` (19-26) races an await
but does not cancel it, so a save given up on may also be applied at any later
moment, over a newer checkpoint: it waits in `late` until `LateSaveLands`. `leaked`
counts the connections held by transactions nobody will end.

A *cycle* is what Redis held of the pattern when its first page was scanned, and the
keys whose processing failed in it, which the code logs. `cycle` (of the run),
`history` (of each checkpoint) and `of` (of a late save) are ghosts that say which
cycle a cursor belongs to. A late save may put the cursor of an earlier cycle over
that of a later one. The next run then skips the pages the earlier cycle had passed:
their records are in the table as that cycle found them (`CheckpointSound`), what was
written to them since waits for one more cycle (`FinalMirrored`, `EventuallyListed`).

### CacheRows, Details and QuoteTerms

A record is the shape of its parts: each is absent, has no body, or a body that is an
object, a JSON text, or a text that does not parse. What is copied unchanged (names,
identifiers, amounts) is left out; what the code decides by (direction, state,
timestamps present, parts readable) is kept. `CacheKey` is the whole function: up to
three upserts, each skipped if the row exists with the same state, each failing on its
own. The connector adds parts and ends the state, in any order. `sqlMode` says
whether MySQL refuses values of the wrong type, as it does unless configured
otherwise, or converts them, as it does in other modes: `rows_stored` covers both,
`rows_fxtransfer` is about the strict one. An inbound record's words for success and
failure that mean the same (`COMMITTED`/`COMPLETED`, `ABORTED`/`ERROR_OCCURRED`) are
one value each. `EndsInItsWords` is what the code relies on of the connector: a record
ends in the words its own status function knows, `succeeded` and `errored` for an
outbound transfer, the others elsewhere; and only `fxQuote_in` records, not inbound
transfers, carry an incoming FX quote, since the row of the latter would be judged by
the outbound words (`index.js:32-53`).

`raw` is the record as its row keeps it: `parseData` has already turned two bodies
of an inbound record into objects, or into null. `TransferThrows` and
`ConversionThrows` collect the field accesses of the two `_convertToApiDetailFormat`,
and of what they call, that can meet undefined or null, and the parsing of texts that
do not parse; the route then answers 500. The conversion terms may be missing, a text
that does not parse, or lack one of the amount objects whose `currency` is read
(`TermsThrow`: `Transfer.js:246`, `FxpConversion.js:188`), and `asks` says whether the
`fxQuoteRequest` holds the amounts read at `FxpConversion.js:232-241`. Charges that
are there are taken to be a list of objects. Amounts are whole numbers, or a text that
is no number; a rate is counted in ten thousandths and rounded as `toFixed(4)` does,
except where binary fractions lie below or above a half.

### SyncScheduler

Time is discrete. `Elapse` does not pass a timer that is overdue by more than
`Lag`, nor, if runs are bounded, a run that must end, the initial one included;
with `runLength = "any"` a run may go on for ever. A run is the time of its start; `runs` holds all that are going on,
forgotten ones included, which is what the code cannot see. `TickStarts`,
`TickResets` and `TickSkips` are the three paths through `doProgressiveSync`.

`phase` follows `db.shutdown` from wait to wait:

| `phase` | code | ends by |
|---|---|---|
| `initial` | `doSyncDB(true)` (1065) | `InitialSyncEnds`, or never |
| `serving` | | `Shutdown` |
| `draining` | polling loop, at most `MaxWait` (1095-1101) | `StopWaiting` |
| `disconnecting` | `redisCache.disconnect()` (1106), no timeout | `Disconnect`, once no run holds it |
| `destroying` | `db.destroy()` (1115), no timeout | `Destroy`, once no run holds a connection and none has leaked |

`holders` are the runs with a command or a connection outstanding at the client that
closes; any run that still goes may be one, and lets go with `Releases` or by ending.

### TransferQueries and ConversionQueries

A client opens a list (`Open`) and follows `nextCursor` as long as `hasMore` says so;
between any two queries `SyncWrites` may insert a row or end a pending one. When a
transfer was initiated is known before it is stored, so rows may appear on either side
of a cursor. Filters that compare one column with a pattern are a set of names;
status, direction and the range of time are modelled as they are. `IsPage` states
ORDER BY and LIMIT by what the page is, not how it is found. `kept` (the rows that
matched ever since the first page) is what completeness is about. Reports are
operators over the rows; `successRate` is two actions, since it asks two queries.
`statusSummary` groups by the column as MySQL returns it, null, 1 or 0, looks each
value up in `STATUSES`, and enters every status with 0 first. MySQL's `/` does not
truncate, so `Buckets` groups instants by `BucketWidth`, some milliseconds.

In `ConversionQueries` rows of one instant come in any order, which may differ
from query to query; `shifted` remembers whether the rows already shown ceased to
be the oldest, which is when an offset goes wrong.

### Sessions

Each request loads the session (`Arrives`), works on its copy, and saves it whole
if it has changed (`Save`); between the two it may wait for the provider (`pc` =
`callback` or `refresh`). Handlers that do not wait are one action up to the save.
A token set is the number of its issue, `claims` says which role it grants, `live`
which refresh tokens the provider still takes. `idp` are the settings of the
provider: whether refresh tokens work once, whether a refresh returns another one and
an id_token (without which `claims()` throws, `accesscontrol/index.js:180`), and
whether there is an `end_session_endpoint`. A logout leads the browser to that
endpoint only if it has found an id_token, that is an authentication; else straight
to where a login leads (137-138). `Changed` is koa-session's comparison with
`rolling` and `renew` off, as `config.js:69` has it.

Ghosts mark the excuses the properties allow: `clobbered`, when a changed copy is
written over a session it has not seen; `raced`, when a refresh token is presented
twice; `revived`, when a request that was under way while a logout was saved
(`overtaken`) writes an authentication back. The requests that can are a /login
(`loginRouteHandler` keeps what it has found, 228), a callback and one that has just
refreshed; `LogoutHolds` says that no other can, and none that arrives later.

### Instances

`applied` is what the schema has, `recorded` what knex knows of it, `lock` its
lock: `taken` inside a transaction that a crash rolls back, `committed` once a
DDL statement has committed that transaction. Each migration is a record of what
it needs, what its first statement adds, what the statements after it add (`alters`:
`table.index` and `table.unique` are an ALTER TABLE each; one step stands for
several), and whether it looks first. A crash may come between any of these. `cut`
remembers that one came between the CREATE TABLE of `sync_state` and the ALTER TABLE
that adds its unique key. The second half is `cacheKey` of one
transfer in several processes: read from Redis, select, write.

## Runs

| Run | Checks | Shows |
|---|---|---|
| `sync_safety` | `TypeOK`, `CheckpointSound`, `InitialSyncBounded`, `MirrorSpec` | with any two faults anywhere in two patterns of two pages, late saves among them, a checkpoint never passes a record that its cycle has not brought to its table, an initial run stops with the batch that reaches its limit, for each pattern, and the tables implement `Mirror` |
| `sync_live` | `FinalMirrored`, `EventuallyListed` | every record gets a row; a record that is final, and remains as it is, has its last version in the table |
| `rows_stored` | `TypeOK`, `StatusAgrees`, `EndedRowsComplete`, `PartsIndependent`; `DetailsAnswered`, `RatesAgree`, `RateShown`, `ConversionStateShown` | in both modes of MySQL rows say what their record says, a broken part costs only its own row; details are answered, and show one rate that is the quote's, with or without charges, and the state of the FX transfer if `fx_transfer` took its row (in strict mode one without a direction), else that of the record |
| `scheduler` | `TypeOK`, `SingleFlight`, `CleanShutdown`; `KeepsSyncing`, `ShutdownEnds` | runs that fit in the timeout never overlap, nothing is closed under them; of runs of any length, once the initial run has ended, runs that hang do not stop the service from starting others; shutdown gets past its wait for a run, and ends unless the Redis client or the pool is kept from closing for ever |
| `transfer_queries` | `TypeOK`, `Complete`, `NoRepeats`, `CountMatchesList`, `SummaryMatchesCounts`, `FlowKeepsAmounts`, `RateNeverOverstated`, `PagingEnds`, `RangeScanSpec` | a list is complete, strictly ordered and ends, whatever is written meanwhile; reports lose nothing, do not overstate and agree with the counts |
| `conversion_queries` | `AppendsAreSafe` | a list by offset is complete and without repetition as long as nothing changes among the rows already shown |
| `sessions` | `TypeOK`, `RolesFollowToken`, `LogoutHolds`, `LatestLoginWorks`, `NoSpuriousLogout`, `Answered` | see above; each property names the circumstances in which the code does not give it |
| `instances` | `TypeOK`, `SchemaBeforeSync`, `ComesUp`, `RowOnlyAdvances`, `RowSettles` | no sync before the schema is complete, but for the unique key of `sync_state` if a crash cut its migration in two; every instance comes up unless one of the first four migrations was interrupted; a row goes back only by overlapping syncs, and recovers |

Runs that find the code at odds with what the sources say:

| Run | Statement | What the code does |
|---|---|---|
| `sync_leak` | "Create timeout that will rollback transaction" (`index.js:748`) | a timeout before `db.transaction()` has resolved finds no `trx` to roll back, and the `catch` skips the rollback because `isTimedOut` is set: the transaction and its connection stay open. By default a transaction waits 10 s for a connection and a batch times out after 120 s, so this takes a MySQL that hangs at BEGIN or a shorter batch timeout |
| `rows_fxtransfer` | the tables are joined to show FX data (`Transfer.js:41`) | texts are written to the integer column `direction` and the bigint `completed_timestamp`, and refused in strict mode |
| `scheduler_stuck` | "Sync stuck ... forcing reset" (`index.js:1040`) | the time since the last *completion* is compared, so a younger run is reset |
| `scheduler_shutdown` | "Sync did not complete within timeout, proceeding with shutdown" (`index.js:1099`) | `disconnect()` and `db.destroy()`, both without a timeout, wait for the very run that was given up on. The statement excepts a leaked connection (`sync_leak`), which alone is enough to keep `db.destroy()` waiting |

What else the modelling met, without a run of its own:

* a crash between the commit of a batch and its checkpoint makes the next run
  process the batch again, although `..._create_sync_state_table.js:12` promises the
  opposite; processing is idempotent, so nothing comes of it;
* the row of an ended record is rewritten in every cycle, although `index.js:423`
  says unchanged rows are skipped: 1 is never `=== true`. `EndedRowsComplete` shows
  that data arriving after the end is kept *because* of this;
* an initial run that hangs (163, 795 and 879 have no timeout) is never replaced: the
  timer that would is set only after it (`index.js:1073`);
* a crash between the two statements of `create_sync_state_table` leaves no unique key
  on `key_pattern`: the table is found at the next boot (line 27) and the migration
  recorded, and the `onConflict` of `saveSyncState` has nothing to conflict with;
* an overtaken /login, callback or refresh brings back the authentication a logout has
  removed, as the session is saved whole;
* a run forgotten by stuck detection clears the flag of its successor when it ends
  (`index.js:1057`), and shutdown then does not wait for the latter;
* the reset of `total_processed` at the end of a cycle is a write of its own that
  may be lost, and a record without `initiatedTimestamp`, like that of
  `database.test.js:30-45`, is refused by the NOT NULL column `created_at` while its
  key counts as processed;
* a crash between one of the first four migrations and its record makes every
  later boot fail, as `Broken` says; an interrupted migration leaves knex's lock
  for an operator to free;
* with a limit of 0 `hasMore` is true for ever (`PagingEnds` excepts it); a filter
  on `batchId` makes the list fail (`Transfer.js:745` names no column) while the
  count answers 0;
* `errors` ignores its range of time (`Transfer.js:1126`), and `findOne` of an
  unknown id fails instead of answering 404 (`Transfer.js:917`);
* a failed conversion without `lastError` makes the whole list fail
  (`FxpConversion.js:221`), and one whose `fxTransferRequest` is an object, or whose
  `fxQuoteRequest` asks for no amount, cannot be shown (lines 305, 232); the rate of a
  conversion without charges is `NaN`, which `Transfer.js:311` guards against and
  `FxpConversion.js:132` does not; with an amount that is no number it is `NaN` in both;
* with a provider that has no `end_session_endpoint`, every refresh ends in 401 and
  every login in 500 (`accesscontrol/index.js:198`, `:300`); one that sends no id_token
  with a refresh signs everybody out when the access token expires (`:180`).

### Bounds, and why they are enough

* `CacheSync`: two pages are the least with a checkpoint that is not 0;
  a limit of one key lets an initial run stop in the middle. Two transfers
  and an FX quote put two keys of a pattern on different pages (or on one) and
  give the second pattern a cursor of its own. Two versions, the second final,
  are pending and ended; two faults are enough for "a crash after a failure" and
  "two leaked connections"; `PoolMax` 2 lets the pool run dry. A late save is
  one fault, so two can be under way, from one cycle or two. `sync_live` has
  `PoolMax` above `MaxFaults` since a pool that is leaked away ends all syncing
  until a restart, which is what `sync_leak` is about.
* `CacheRows`: one record at a time, since `cacheKey` relates no two records;
  all shapes that reach different code, combined within one kind of record; quotes
  of up to two charges, some as large as the amounts, and of one where an amount is a
  text or its object is missing.
* `SyncScheduler`: a period of 2, a lag of 1, and timeouts of a few periods
  leave room for every order of start, reset, completion and shutdown; `MaxTime`
  is more than twice the longest timeout. The runs may stop there, so deadlock is
  not checked for these.
* `TransferQueries`: three transfers are the least for a full page, a row behind
  the cursor and one ahead of it; two share an instant, in either order of their
  ids, and two share a group of a report. Pages of none, one, two or all rows.
* `ConversionQueries`: three conversions in three orders, once with a tie.
* `Sessions`: three requests are two that race and one that sees the outcome; four
  token sets and three verifiers are never the limit of what three requests can
  do. Each provider differs from Keycloak's defaults in one setting. Requests end,
  so deadlock is not checked.
* `Instances`: two instances; two crashes reach "crash, restart, crash again" in
  any migration; of three versions of the record two are pending, so that a row
  can go back without reaching the start.

### Fairness

`FairSpec` of `CacheSync` is weak fairness of `Progress`, the steps the program
takes by itself: `setInterval` keeps starting runs, Kubernetes restarts a pod that
died (`src/helm_chart`), and the awaits of a run settle: SCAN, the queries of
`cacheKey` and the saves are raced with a timeout, a batch is rolled back by its
own. Three awaits are not raced: `loadSyncState` (`index.js:879`),
`redisCache.get` (163) and the COMMIT (795). If one of them hangs, so does the
run; that is `runLength = "any"` in `SyncScheduler`, whose answer is a new run unless
it is the initial one, and `sync_live` says what runs that do not hang achieve. Faults and updates in
Redis have no fairness: they need not happen, and are bounded, so they end.
`FairSpec` of `SyncScheduler` is weak fairness of the clock, of the steps of
shutdown once what they await is there, and of the end of a run if runs are bounded;
runs of any length have none, they may hang, and so may what they hold.

`TransferQueries`: a client that is promised more asks for it; the sync has no
fairness and a bounded number of rows to write. `ConversionQueries` has safety
properties only and assumes nothing. `Sessions`: a
call to the provider ends (`openid-client` gives up after a timeout) and so does a
save. Requests need not begin, so nothing is assumed of users.

`Instances`: Kubernetes restarts a process that ended, calls to MySQL and Redis
return, the provider comes up at last, each weakly fair. Two are strong: an
instance that waits for the lock of the migrations gets it though others come and
go, as MySQL serves lock waits in turn, and an operator frees a lock left behind
though instances keep trying in between. Crashes are bounded.

## Proofs

`tlapm` checks every step. For all values of the constants that satisfy the
named assumptions:

* `CacheSyncProofs!TypeCorrect`. `TypeOK` with `Quiet`: outside `processBatch`
  no key is being processed, and a run past `load` has a connection left, so the
  count of leaked ones stays within the pool.
* `CacheSyncProofs!MirrorImplemented`. `Spec => MirrorSpec`, with the identity as
  refinement mapping. The invariant `RowInv` says that rows, the buffer and the
  version read lie between what the table shows and what Redis says; a commit is
  then a step of `Mirror!Copy`, every other step stutters or is `Update`. It
  needs no assumption about faults.
* `CacheSyncProofs!CheckpointCorrect`, with any faults and late saves. `CheckInv` adds
  to `CheckpointSound` what holds in the middle of a run: every checkpoint, saved or
  still to land, is good for the cycle it comes from; keys below the cursor are
  settled, keys of the batch that are no longer in `todo` are settled in the buffer,
  and a batch that has been committed is settled in its table, so that the checkpoint
  saved next is good. Rows only move forward (`RowInv`), so what is good stays good
  however late it lands.
* `SyncSchedulerProofs!TypeCorrect`, and `AlwaysKeepsSyncing` without any assumption
  about runs, for the time after the initial one: the time since the last start is
  bounded while the flag is set, because a completion is never older than what
  `SeemsStuck` allows.
* `SyncSchedulerProofs!OneRunAtATime` and `ShutdownIsClean`, for bounded runs, under
  `TimeoutFits`: they end within `MaxRun`, and `MaxInitial + SyncInterval + Lag + MaxRun` fits in
  the stuck timeout. `FlightInv` says that the flag is set exactly while the one
  run is going on, and bounds the last completion by its start, so that a tick
  never sees it stuck. The defaults (30 s period, 300 s timeout) give a run some
  270 s minus the initial run, while a single batch may take 120 s: whether they
  fit depends on the data, which is why the assumption is named.

* `CacheSyncProofs!InitialSyncIsBounded`, with any faults and late saves.
  `LimitInv` bounds the total by what the patterns before may have added, one
  batch beyond the limit each, plus what this one has counted; `BatchOfPage` says
  that a batch is keys of one page, so that its size is bounded by the page's.
* `TransferQueriesProofs`: `ListComplete`, `ListNeverRepeats`, for any table, filter
  and page size. The invariant `ScanInv` says that everything handed out is at or
  before the cursor in the order of the list, and what has matched all along is
  either handed out or still ahead; it survives every write of the sync because
  positions are fixed when a row is created. `ListImplementsRangeScan` maps every
  action to a step of `RangeScan` with it.
  `CountIsThatOfList` adds `CountInv`: as long as `counted` stands, what has matched
  all along is what matches now, so nothing handed out has left the list and none
  joined it.
* The reports of `TransferQueries`. `RateIsNoOverstatement` rests on `RateInv`: a
  transfer that has succeeded stays so, in its bucket of time, so the successes
  counted first are no more than those of the second query. `SummaryIsWhole` follows
  each value the driver returns through `STATUSES`: no two lead to one status
  (`SuccessOfStatus`, `StatusesDiffer`), so the entry of a status is the one group of
  its value or the 0 entered first (`GroupOfStatus`), and either is what `count`
  gives. `FlowIsWhole` splits the rows by timestamp, currency and direction, and says
  that the parts are disjoint and leave nothing over: each group of the query is in
  the entry its key names (`GroupsAre`), and two groups of one key differ in direction
  (`ShownIsSum`).
* `SessionsProofs`: `RolesAreGranted`, `LogoutIsKept`, for any number of requests.
  `Copies` says that a request whose copy is not stale has loaded what Redis holds,
  and what its handler has made of it: only callbacks and refreshes bring an
  authentication in. `LoggedOut` adds that after a logout every copy loaded since is
  without one, so that only an overtaken request can bring it back. `RolesFollowToken`
  is inductive with the types.
  `RefreshKeepsUsersIn` needs `RefreshInv`: without one of the excuses that
  `NoSpuriousLogout` names, every copy of a session with an authentication holds a
  refresh token, and the provider has withdrawn only tokens presented to it.
  `LatestLoginFits` needs `VerifierInv`: what each request has made of the code
  verifier it loaded, and that once the latest login has been answered its verifier
  is in Redis and every older login still under way works on a stale copy; saving
  that copy is what `clobbered` reports.
* `CacheRowsProofs`, for any set of records. `RowsInv` says that every row is that of
  an earlier form of the record, which since then has only gained parts and perhaps
  ended (`Precedes`), and that after a `cacheKey` each row is either what that record
  gives, or does not differ from it by the test of the code, or was refused by its
  columns (`UpToDate`). A pending record's row may thus lag behind in its parts but
  not in its status, and that of an ended one lags in nothing, since a true or false
  status always differs from MySQL's 1 or 0: `StatusIsThatOfRecord`,
  `EndedRowsAreComplete`, `PartsStandAlone`. On these rows rest `DetailsAreAnswered`,
  `OneRate`, `RateIsShown` and `ConversionShowsItsState`, all in both modes of MySQL.
  `ChargesTotal` proves that the
  loops over the charges compute the sums of the reference definition, and
  `ToFixedRounds` that the rate is within half a unit of the exact quotient.
* `ConversionQueriesProofs!AppendsDoNoHarm`, for any conversions, filters and page
  sizes. `PagesInv` says that what has been handed out is the oldest of what matches,
  and as many as the next page skips; with no two conversions of one instant the
  oldest n are unique, so dropping and taking fit. It survives every write outside
  what has been handed out, which is what `shifted` rules out.
* `InstancesProofs`: `SyncsCompleteSchema` from `BootInv` (one instance migrates at a
  time, what is recorded has been applied by all its statements, but for the last
  migration's second, which is missing only if that was cut off, and who serves has
  seen all recorded), and
  `RowAdvances` from `OverlapInv` (a sync that has not overlapped with another has
  read a version at least that of the row), for any number of instances, crashes
  and versions.

The assumptions of these are those on the constants the modules name; `TimeoutFits`
is said above, and is the only one about how the system runs. `QueriesAssumption` of the two lists
takes the rows of a table to be finitely many, `WordsAssumption` is `EndsInItsWords`,
and `NumbersAssumption` says that `NaN`, `Infinity`, a text and an absent value are
no integers, and that those the code tells apart differ.

Sums need an induction over finite sets. `SetFolds` does it without a theorem that
takes an operator, by the well-founded order of strict inclusion on the set of those
subsets for which the claim fails (`SubsetInduction`). `IsSum` describes a sum by how
it changes with each element, whichever comes first; `SumExists`, `SumUnique` and
`SumOfUnion`, `SumOfParts` are its algebra, and `SumOfFunction` and
`SumOverMap` say that the folds of the community modules, which choose an order,
compute it.

Only model-checked: liveness (`FinalMirrored`, `EventuallyListed`, `ShutdownEnds`,
`PagingEnds`, `Answered`, `ComesUp`, `RowSettles`), which is out of the prover's
reach, and the violations. Every invariant of a passing run is a theorem, and so are
the action properties and the two refinements.

## Not modelled

* Logging and the wording of messages, the proxies to the management API,
  Prometheus, mock data, random phrases: stateless or random.
* `manualSync` exists for tests, and `findAllWithFX` is not called.
* `avgResponseTime`, `errors` and `findOne` pass on what one query returns; the
  reports of `FxpConversion.js` repeat those of `Transfer.js` on `fx_quote`.
* The error handler, validator, router and request ids: they keep no state and
  their order is fixed. The health check answers the same in every state, since
  `ctx.state.cache` is never set (`handlers.js:39`).
* Closing the HTTP server at a signal is Node's; what follows, `db.shutdown`, is in
  `SyncScheduler`.
* Time in Redis: sessions do not expire there, as `cookieStore.js:62` passes `maxAge`
  where SET takes options. `SESSION_ROLLING`, off by default, would write every copy
  back; the mutant of `LogoutHolds` is what it would do.
* Partition bounds (they decide where a row lies, not what a query answers) and the
  session settings of pooled connections (they change only how long things wait).
