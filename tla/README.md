# A specification of ridewatch

TLA+ modules, model-checking configurations and machine-checked proofs for
[ridewatch](../src/README.md), a service that polls an agency's GTFS-realtime
feeds, reconciles them with its static schedule, keeps the history of delays,
and serves live arrivals, statistics and push alerts. Paths below are relative
to the repository (`internal/...`, `cmd/...`, `db/...`).

Everything here is translated from the Go code and the SQL it runs. Where a
comment or a document says something else, the section *Where the code and its
documents disagree* says so, and a configuration refutes one of those sentences
on the model of the code.

## 1. The system

One serving process runs pollers, a sweeper, a schedule refresher, a push
evaluator, a nightly job and an HTTP server over one in-memory engine and one
Postgres database; `replay` and `load-static` are processes of their own over
the same database and archive.

| Component | State it keeps | Operations | Talks to |
|---|---|---|---|
| Poller (`internal/ingest/ingest.go`) | nothing but the feed's last header time | `pollOnce`: fetch, `LastSHA`, write blob, index, decode, deliver | archive on disk, `raw_polls`, engine (callback) |
| Replay, pruning (`internal/ingest/replay.go`) | archive on disk | `Replay`, `PruneArchive` | an engine of its own, `FinalizeDue` |
| Engine (`internal/reconcile`) | live events, live vehicles, feed headers (one mutex); trip cache (another) | `Process`, `Sweep`, `LiveVehicles`, `UpcomingAtStop`, `FeedAge` | event store, schedule repo |
| Trip update reconciliation (`process.go`) | none | `reconcileTrip`, `resolveServiceDate`, `predictionFromUpdate`, `resolveStopIndex` | GTFS time |
| Event store (`internal/store/events.go`) | `stop_events`, `vehicle_positions` | `UpsertStopEvents`, `FinalizeDue`, `InsertVehiclePositions` | Postgres |
| Schedule repo (`schedulerepo.go`) | cache of trip schedules | `ActiveVersion`, `TripSchedule` | `schedule_versions`, `gtfs_*` |
| Schedule loads (`scheduleload.go`, `loadStatic`) | `schedule_versions`, `gtfs_*` | `NewScheduleLoad`, writers, `Commit`, `Abort` | agency, Postgres |
| Push (`internal/push`, `subscriptions.go`) | `push_subscriptions`, `push_sent` | `Evaluate`, save, delete, claim, book | `UpcomingAtStop`, push services |
| Partitions (`partitions.go`) | weekly partitions | `EnsurePartitions`, `DropOldPartitions` | Postgres |
| Nightly job, rollups (`main.go`, `internal/rollup`) | per-day latches, rollup tables | `startNightly`, `rollup.Run` | `stop_events` |
| Queries, handlers (`queries.go`, `internal/api/handlers.go`) | none; a request's version id between two statements | `SearchStops` ... `StopHourly`, the handlers over them | `schedule_versions`, `gtfs_*`, rollup tables |
| Sentences, front end | none | reads | the above |
| Static GTFS parsing (`internal/gtfsstatic/parse.go`) | none | `ParseZip` and a parser per file | the writer callbacks of a load |
| Static GTFS download (`download.go`) | zips on disk | `DownloadAuth` | schedule loads |

What is hard in it: pollers, replays, sweeps and schedule activations
interleave between the statements of `Process`; writes fail, or commit without
the answer arriving; the process restarts and forgets the live map; loads
overlap under READ COMMITTED, buffer their rows in batches and die half way,
while requests find the active version in one statement and read it in another;
feeds omit the service date, run past midnight and across clock changes;
archive, index and delivery are three steps any of which may be the last one.

What makes each component correct:

* reconciliation: the right service date, delay = predicted - scheduled,
  propagation as GTFS-realtime defines it;
* event store: the newest observation wins whatever the order, final rows are
  history, every row with a time settles in the end;
* engine: riders see nothing the store does not hold;
* caches: an answer always belongs to the version its caller read, within bounds;
* loads: at most one active version, every line of every zip in it, never none
  once there was one; the agency's latest schedule arrives;
* queries: an answer is that of one schedule of its time, and "not found" means
  that a schedule does not have it;
* archive: whatever was indexed or delivered can be read back until retention,
  replays are complete, identical bytes are kept once;
* keys: an observation is filed under its departure and its hour of the week,
  whatever the clocks do, and a partition under a name that tells its week;
* push: never twice, and no rider's failure is another's.

## 2. Modules

| Module | Models | Correspondence |
|---|---|---|
| `GtfsTime` | `internal/domain/gtfstime.go` | instants are integers, a service date is a day number, the zone has two UTC offsets and one transition |
| `TripUpdates` | `process.go` 52-325, pure | one operator per helper; `ReconcileTrip` is `reconcileTrip` without its loop: the delay that reaches a stop is that of the nearest earlier stop that decides |
| `TripUpdatesLoop` | the same loops as they run, and `decode.go`'s accumulation | state: the entity decoded so far |
| `Weeks` | `partitions.go`: week starts, ISO names, `parsePartitionName`; pure | a date is a day number, a name `<<year, week>>` |
| `ServiceDates` | rule 1 of the contracts around a clock change | state: a service date, a stop time, the drift of the prediction |
| `EventKeys` | `rollup.go`: `hourOfWeekExpr`, `scheduledSecsExpr`, `dayClassExpr` | the keys of `ServiceDates`' event, computed from its row, and the partition that holds the row |
| `StopEventLedger` | `domain.EventStore`: the promise | abstract specification |
| `Reconcile` | `Process`, `Sweep`, `UpsertStopEvents`, `FinalizeDue`, replay's finalization, activation, restart | `rows` is `stop_events`, `live` is `Engine.liveEvents`, `job[w]` the locals of a call of `Process`; composes `TripUpdates` with the store |
| `TripCaches` | `tripCache`, `Store.TripSchedule` | one action per critical section |
| `GtfsZip` | `ParseZip`, `openTable`, the parsers of the files, the primary keys of `gtfs_*`; pure | a zip is a sequence of entries, a file its header, columns and ragged rows; `Cell` is `table.str` |
| `ScheduleLoads` | `loadStatic`, `ScheduleLoad` with its buffers, constraints and locks of `schedule_versions` | `versions` is the table with the rows of each version; `load[l]` a load's locals, buffers and open transaction; one action per statement, one per zip |
| `ScheduleReads` | `queries.go` on the active schedule, the handlers of `handlers.go` that use it | composes requests with `ScheduleLoads`; one action per statement; a query is an operator on the tables |
| `RawArchive` | `pollOnce`, `RecordRawPoll`, `LastSHA`, `Replay`, `PruneArchive` | one action per step that can be the last |
| `PushAlerts` | `Evaluate`, the subscription store | one action per statement or send |
| `LiveVehicles` | `processVehiclePositions`, `InsertVehiclePositions`, `Sweep` of the map | `vehicles` is `Engine.vehicles`, `history` the table; one action per write or critical section |
| `Nightly` | `startNightly`, `EnsurePartitions`, `DropOldPartitions`, `rollup.Run`, the partitions of `serve` and `replay` | `part[t]`, `deflt[t]`, `stray[t]` are a table's attached, DEFAULT and detached partitions, by the days they hold; `latch` is `rollupDay`, `retentionDay`; one action per statement |
| `*Lemmas`, `*Proofs` | theorems, section 5 | |
| `MC*` | instances for TLC | constants only |

`Reconcile` takes a schedule lookup to be a function of version and trip; that
assumption is `TripCaches`' `AnswersMatchVersion`. It takes activation to be
one step on one active version; that is `ScheduleLoads`' `ActiveIsWhole`.
`ScheduleLoads` builds on `GtfsZip` (what a load copies is what the parser hands
over), `ScheduleReads` on `ScheduleLoads`, `EventKeys` on `ServiceDates` (whose
events it files) and `Weeks`.

Operators marked `variant` in the modules are near misses of the definition
that follows them (a dropped guard, a missing reset); each shows that a
property can tell the code from such a mistake. They occur in no specification.

### Abstractions

* A batch is one step. `SendBatch` runs its statements in one implicit
  transaction; conflicting rows are locked until it commits, so per row the
  batches are serial. A deadlock between batches is a failed write.
* A snapshot has at most one update per trip, as GTFS-realtime asks. With two,
  the table keeps the first and the live map the last of equal timestamps.
* A zip is read in one step of its load: rows that are copied show to nobody
  before the commit, and what the transaction locks it locks from its first
  statement on. The bytes of CSV and zip are not modelled; a line the CSV reader
  refuses, or a cell that should be a number, time or date and is none, is
  `Malformed`. Of the columns, names other than a stop's, colours, shapes and
  weekdays are left out: they are copied as they are.
* `schedule_versions.id` counts on for ever. In `ScheduleLoads` an id that no
  row and no process holds any more may be given again: nothing can tell it from
  a new one, and the state space stays finite without a bound on loads.
* Of a query's answer, order, LIMIT and columns that are only shown are left out.
* A lookup that fails ends `Process` before anything has been changed; it is
  the step not taken.
* Route, direction, headsign, vehicle, `start_time` and texts are left out;
  they decide nothing in the modelled code but which riders an alert concerns,
  and there they are modelled (`Wants`).
* `RawArchive` identifies a response with its hash, and counts time in the
  seconds of file names. A poll takes at most `PollTime`, no longer than the
  retention: the HTTP timeout is seconds, retention is days.
* `Nightly` keeps of a day's rows only which partition holds them. A rollup
  table is the window and the days it was computed over. A replay is of one
  past day. Rows of `vehicle_positions` are dated like those of `stop_events`,
  within a day of the agency's date.
* The deployment runs one serving process (1 replica, Recreate:
  docs/CONTRACTS.md:259). Replays and loads are processes beside it.

## 3. Runs

States are TLC's distinct states.

| Configuration | Instance | Shows | States |
|---|---|---|---|
| `MCReconcileStore` | 2 pollers + replay, 1 trip of 2 stops, 2 snapshots, time 0..4 | idempotence, newest wins, live backed by store, columns agree under one version, refinement of the ledger | 275,564 |
| `MCReconcileLive` | 1 poller, a stop without a time, 3 snapshots, time 0..4, fair | types; rows with a time settle | 61,154 |
| `MCTripUpdates` | 2 schedules, entities of up to 2 of 35 updates, 3 start dates, 2 trip delays, 2 poll times | loops and loop-free definitions agree; rule 2 | 60,528 |
| `MCServiceDates` | hours; 5 days around a Sunday of 23 hours and 7 around each of 7 New Years, 32 stop times, drift up to 14 h | rule 1, wall-clock times, the keys of the rollups, names of weeks | 50,112 |
| `MCTripCaches` | 2 calls, 2 versions, 3 trips, capacity 2 | caches | 80,658 |
| `MCScheduleLoads` | 2 loaders, 3 schedules (two zips; one zip; a stop in both zips), batches of 2, reverts, lost answers, 2 failures | whole versions, open transactions and immutability under overlap and failure | 269,719 |
| `MCScheduleReads` | 1 loader, 3 schedules (one with an unreadable time), 1 request of 8 kinds, 1 failure, fair | every line is loaded; answers belong to one schedule; not found is true; a schedule stays, and the agency's arrives | 50,280 |
| `MCRawArchive` | 1 poller, 2 responses (1 undecodable), pruning, replay | kept on disk, complete replays, identical bytes once | 253,901 |
| `MCPushAlerts` | 2 browsers, 2 criteria, 2 events, 2 ids | at most one alert, isolation | 235,883 |
| `MCLiveVehicles` | 2 pollers, 3 snapshots, TTL 1, time 0..4, fair | shown is recorded; silent vehicles leave | 221,820 |
| `MCNightly` | days of 3 hours, weeks of 2 days, 2 tables, 2 rollups, 1 failure, any number of crashes and replays | retention, partitions ahead, rollup windows | 3,576,045 |

Why the bounds are enough:

* `Reconcile`: a hazard of the table needs two writers of one row and one
  sweep between them, one of the map a write, a mirror and another step in
  between; three workers of both kinds, ascending timestamps, a prediction that
  moves past the schedule, a skip and a cancellation cover each pair. Time runs
  past the last prediction plus grace in both runs. Two stops matter because a
  batch touches several rows, more do not interact. `MCReconcileStore` takes
  pollers as interchangeable (symmetry). It has one schedule version, because
  `RowDelayMatchesRow` fails with two that disagree (`MCReconcileVersions`); the
  theorems cover any number.
* `MCTripUpdates`: an interaction of the loop is between one update and the
  next decisive one; the schedules hold a repeated stop, a stop without a time
  and stops with only one of the times, and all trips cross midnight.
* `MCServiceDates`: the drift bound lies beyond the half day within which the
  property promises the date, on both sides. The days lie around a Sunday, so
  that day class and hour of the week wrap with the clock change. The 25-hour
  day, and every other zone, is the theorem's. The New Years lie
  between years of 52 and 53 weeks, common and leap, one of them a century year
  that leaps and one that does not.
* `MCTripCaches`: with capacity 2 and three trips every put may evict; a cache
  is repinned while both calls are between their sections.
* `MCScheduleLoads`: two loaders are what a row lock or the index can relate, and
  they are interchangeable (symmetry); six ids are as many as two loads can hold
  at once. A batch of 2 leaves full and partial buffers behind, of several
  tables, at the end of a zip and of a load. Two failures let a lost answer or a
  crash meet the abort of the other load.
* `MCScheduleReads`: what two loaders do to each other is `MCScheduleLoads`'; a
  request races with one version replacing another and with the deletion of a
  third. The zips hold what the parser copes with (a second copy of a file, a
  file that may be missing, a header without a column, ragged rows, empty and
  unreadable cells), and the schedules differ in a stop and a trip, so that a
  mixed answer is no answer of either.
* `MCRawArchive`: retention 1 lets a blob expire while a replay that discovered
  it is under way. A poller compares with the rows of its own feed only;
  two URLs of one feed are the last row of the table below.
* `MCPushAlerts`: a second id lets a browser come back as a new subscription.

* `MCLiveVehicles`: two calls are what can race for one entry; a second story
  of one instant, an untimed vehicle and a position without a vehicle are the
  cases the code tells apart. Polls stop at time 2 so that TTL is reached for
  every instant; a vehicle that is silent is not polled anyway.
* `MCNightly`: the rollup runs an hour before the agency's midnight and
  retention an hour later, as the defaults (7 and 8 UTC) do on US Pacific time,
  so that a rollup which overruns meets another date. The clock runs from the
  third day to the seventh: a week begins, ends and is dropped, and the second
  day with rows lies beyond what the first boot creates, so that its partition
  is a night's work. Two weeks are created ahead and one statement fails or one
  hour is overrun; the code covers four weeks, which is to say more nights. With
  days this short and a window as long as the retention, a second overrun would
  carry a retention past the UTC midnight, 16 hours with the defaults, and a
  rollup could find its oldest day dropped: the defaults (6 weeks against 26)
  are far from it.

Deadlock is checked where the system never stops. It is off in
`MCTripUpdates`, whose entity ends, in `MCScheduleLoads`, where an up-to-date
database gives a loader nothing to do, and in `MCScheduleReads` likewise.

Fairness. `Reconcile!FairSpec` asks that time passes, that the sweeper's
ticker (30 s, `main.go:310`) fires, and that a sweep that keeps being possible
is not failed by the database for ever (strong fairness, because failures and
restarts disable it in between). Nothing is asked of the feed or the pollers.
`ScheduleReads!FairReadSpec` asks that the refresh ticker (`main.go:316`) fires and
that a load to which nothing happens proceeds; failures are finite in number,
and nothing is asked of requests. `AgencyIsFollowed` needs no more: the schedule
that is published last, if it can be loaded, becomes and stays the active one.
It excludes agencies that publish an earlier schedule again, which the code
answers with "unchanged".
`LiveVehicles!FairSpec` asks that time passes and the sweeper fires; nothing is
asked of the pollers. `Nightly` states safety only; that its ticker lets no
hour pass while the job is free is part of `Tick`.

### Where the code and its documents disagree

In one configuration TLC finds the quoted sentence violated:

| Configuration | Sentence | What the code does |
|---|---|---|
| `MCReconcileVersions` | `0001_init.sql:135` delay_secs is "(best-known arrival - scheduled)" | the upsert (`events.go:23-29`) keeps the scheduled arrival and the version of the first insert and takes the delay against the new version |

Others were met while modelling; the models show them as behaviours, without a
configuration of their own:

| Sentence | What the code does |
|---|---|
| `scheduleload.go:151` "atomically moves the active flag" | when the answer to COMMIT is lost, `Abort` deletes the version that has just become active, and the previous one has been deactivated: with `LosesAnswers = TRUE` in `MCScheduleReads.cfg`, TLC finds `ScheduleStays` violated. With two loaders it is violated as well: the leftover that one deletes may be the version the other has just made active (`DeleteLeftover`), and a request that met it active is answered about no schedule at all (`AnswersAreOfASchedule`, with two loaders in `MCScheduleReads.cfg`) |
| `parse.go:204` readFeedVersion "tolerates ... an empty file" | a `feed_info.txt` of no bytes fails in `openTable` and rejects the whole zip (`Opens`); only a header without rows is tolerated |
| README:133 STATIC_GTFS_URL: "comma-separated to merge" | two zips that share a key of any table (a `service_id`, a stop) are refused by the primary key and never load (`Takes`, `Loadable`); of time zone and feed version the last zip's stay (`ParseZip`) |
| `interfaces.go:95` "UpcomingAtStop returns non-final events" | the mirror (`process.go:43`) does not know of finalization: a prediction that arrives after it is served until it is past |
| contract rule 5 "live entries age out after 3 min" | a feed that repeats a stale position puts the vehicle back at every poll until the next sweep (`Refresh`, `Sweep`) |
| README "dropped past retention" | days that went to the DEFAULT partition, and the tables of a crash between DETACH and DROP, are never dropped (`Routes`, `Dies`) |
| `main.go:368` "restart-safe" | a process that is down, or whose rollup runs on, through the hour skips that day's work (`Tick`) |
| `process.go:37` "the same newest-timestamp-wins rule as the store" | equal timestamps overwrite in the map (`Mirrored`), not in the store (`Admits`) |
| `process.go:38` "cannot regress what riders see" | after an ageing-out or a restart (`SweepLive`, `Restart`) the map has nothing to compare an older snapshot with |
| README "A row with no prediction finalizes with a NULL delay" | without a scheduled time either (`IsDue`), it never finalizes |
| `scheduleload.go:44` "a leftover row ... (crashed load) is deleted" | the row of a load another process has just begun is deleted too (`DeleteLeftover`) |
| `main.go:271` first boot loads "when none is active yet" | a zip loaded before counts as unchanged (`LookUp`) although nothing may be active |
| `interfaces.go:41` "byte-identical responses are not re-archived" | `LastSHA` is asked per feed: two URLs of one feed hide each other's hash |

## 4. Hazards

`PROJECT.json` lists them at their lines with the properties that guard them.
Limits worth knowing:

* A trip just after midnight that is predicted *before* midnight and has no
  start_date is a day off, since only yesterday and today of the prediction are
  tried (`process.go:269`; `DriftKeepsServiceDate` and `DeparturesKeepTheirKey`
  name the civil days they cover).
* A snapshot whose delivery failed after it was indexed is "unchanged" at the
  next poll, so that only a replay brings it back (`KeptOnDisk` says that it can).
* A replay reconciles old blobs against the version that is active now
  (`main.go:225`), not that of the time: trips the agency has dropped since are
  unmatched. `Reconcile` has it (`Replay` reads `active`), no property excludes it.
* Several pollers of one feed (several URLs) compare with each other's last hash
  (`ingest.go:108`): what each serves may be archived again and again. `RawArchive`
  has one poller per feed.
* A zip the agency reverts to is "unchanged" (`main.go:172`): the version stays
  in the table, inactive. `AgencyIsFollowed` is about agencies that do not revert.

## 5. Theorems

Proved with TLAPS for every value of the constants that meets the modules'
named assumptions.

* `ReconcileProofs`, under `NoneAssumption`, `ZoneAssumption`,
  `ReconcileAssumption`.
  * `TypeCorrect`. The step that matters is that `EventsOf` yields events of
    their type, which rests on the lemmas of `TripUpdatesLemmas` about
    `ReconcileTrip` (in particular: what an update holds has an instant to age
    from, and a service date).
  * `NewestWins`. `NewestObservationWins` is not inductive: a worker may hold
    a batch whose events are not yet in `offered`, and a row written by it must
    be found there. The invariant `StoreInv` adds that batches in hand hold one
    event per key (`BatchesOK`) and that everything offered has a row
    (`OfferedHasRow`). A row changes only by an upsert (`RowHoldsAfter`: it
    holds the event it admits, and that is the newest) or a finalization.
  * `RewritesIdempotent` follows from `StoreInv`: a row holds the newest of the
    offered events of its key, so the guard admits none of them.
  * `LiveCorrect`. Inductive with `WrittenIsBacked`: once a batch has been
    written, its rows are at least as new as its events or final, whatever
    happens until it is mirrored.
  * `DelaysAgree`. `RowDelayMatchesRow`, which a schedule that moves a stop
    breaks (`MCReconcileVersions`), holds as long as the versions agree on the
    times of a stop (`TimesAgree`): every batch in hand is timed (`Timed`, from
    `EventSound`), and an upsert lays prediction and delay of one event over the
    scheduled arrival of another.
  * `StoreImplementsLedger`. Every step maps to a step or a stutter of
    `StopEventLedger`.
* `TripUpdatesProofs`, under `ServiceDatesAssumption` and `YearsAssumption`.
  * `DelayCorrect`, contract rule 2 for every schedule and every entity of any
    length, from `EventSound`; `DecodedTypeOK`.
  * `ReferenceIsScanned`, `EventsAreLooped`: the loops of `reconcileTrip`, as
    they run, compute what the loop-free definitions say. The loops are recursive
    functions, and no induction is needed: the function that the loop-free
    definition gives satisfies the loop's equations, and two functions that do so
    agree, because at the least position where they differed the equations would
    make them equal (`LoopsAlike`).
  * `WallClockCorrect` and `DriftCorrect`, for every zone with one transition at
    which noon exists, every date, stop time and drift. The argument compares
    the distances of the two candidate dates, which are a day apart up to the
    difference of the offsets.
  * `DeparturesCorrect`: the key the rollup computes from the row is the
    timetable's. By the lemmas of `DriftCorrect` the engine finds the date
    (`UpdateFindsDate`), the update yields one event of it (`OneUpdateMatches`),
    and the origin cancels out. `HoursCorrect`, for the hour of the week: the
    wall clock shows the stop's time (`WallClockKept`), and what is left is
    quotient and remainder (`HourOfWall`), past midnight and past Sunday.
  * `NamesCorrect`: `parsePartitionName` inverts `partitionName`. A week belongs
    to the year of its Thursday, the year before, of or after its day's
    (`YearFound` says that a day is in one year only), and from that year and
    the number of days since its 1 January the Monday is found again
    (`WeekNamed`).
* `TripCachesProofs`: `CachesCorrect` and `AnswersCorrect`, with the invariant
  that a call that has loaded an answer holds that of its own version;
  `CachesBounded`, where every put makes its room in the map it puts into.
* `ScheduleLoadsProofs`, under `LoadsAssumption`, `ZipsAssumption`,
  `LinesAssumption` and `ReadsAssumption`.
  * `LoadsTypeOK`, `ActiveVersionIsWhole`, `OpenLoadsHaveTheirRow`,
    `LoadedVersionsAreImmutable`. The inductive invariant `Inv` has three parts.
    `TableOK`: one version of a sha, loaded ones hold every row of their zips,
    at most one is active. `LoadsOK`: what a load has copied and buffered is the
    contents of the zips it has read (`Contents`), all of it once it has flushed;
    a transaction that has copied rows still has its version (nobody else holds
    its id, a `DELETE` waits for its lock, the foreign key refuses to copy without
    it); a load that has activated means to deactivate every active version; and
    no two loads are past that point or have one id (`Apart`). `Rest`: types. The
    work is in `CutLosesNothing` (a queue cut into full batches and a rest keeps
    its rows) and `ParseZipOK`.
  * `EveryLineIsServed`, for any number of loaders: what has been loaded could be
    read to its end (`LoadedReads`), a line of a file that can be read becomes the
    row of its cells (`LineParsed`), and a whole version has that row
    (`WholeOfLines`). It ties the rows of the table to the lines of the zip, which
    `ActiveVersionIsWhole` does not.
  * `ScheduleIsKept`, `AnswersAreOfOneSchedule` and `NotFoundIsSaidTruly` say more
    and hold under `OneLoadAtATime`: one loader, whose commits are answered.
    Without either, TLC refutes them (table of section 3). Then what a load is
    about to delete has never been loaded (`OwesNothingLoaded`), so that loaded
    versions stay (`LoadedStays`) and the version a request has looked up is there
    for its second statement (`ReadersOK`); an answer depends on the rows of its
    version alone (`AnswerOfRows`). Requests may be any in number.
* `RawArchiveProofs`, under `ArchiveAssumption`.
  * `EverythingKeptIsOnDisk`. Inductive with `WrittenOnDisk`: the blob of a poll
    between its write and its end is on disk or past the retention, which a blob
    never ceases to be (`OnDiskStays`).
  * `ReplaysAreComplete`. The invariant `ReplayAccounts`: every blob a replay has
    found is still to do, delivered, not decodable, or gone for good. A pruned
    blob does not come back, because a poll that would write it again would have
    run for longer than the retention (`PollsAreShort`).
  * `IdenticalResponsesAreArchivedOnce`, under `OneUrlPerFeed`, the case the
    sentence is about: `LastSHA` of a feed with two URLs answers with the other's
    row (table of section 3). Several polls fall into one second, and the last
    row is the one with the greatest time: rows are in the order of their polls
    (`RowsInOrder`, `JobsInOrder`).
* `NightlyProofs`, under `NightlyAssumption`.
  * `NothingIsDroppedEarly`. Inductive with `DropsExpired` (what a retention is
    about to drop was old enough when it listed it, and clocks do not go back)
    and `DaysOfTheirWeek` (a partition holds days of its week).
  * `RollupWindowsDescend`, with the window a run has read as the bound of what
    it has computed and will compute (`WindowsInOrder`).
  * `RollupsAreComplete`, under `WindowIsKept`: the window is shorter than what
    `stop_events` keeps (6 and 26 weeks by default, `config.go`), or nothing is
    dropped, and the agency's clock at most a week behind. By
    `RunBeginsWithWhatIsKept` whatever a run no longer finds was before its
    window already when it began.
* `RidersProofs`.
  * `OneAlert`, with the invariant that an alert sent, or about to be, is
    *spent*: its row is in `push_sent`, or its subscription is gone, and ids are
    never given again. `EveryoneTried`, with the invariant that a due alert not
    yet tried is of an event still in the queue.
  * `ShownCorrect`. Inductive with `InsertedIsRecorded`: a call between its
    insert and its refresh holds only positions the history has.

The assumptions say little. `LinesAssumption`: the rows of a file reach only columns
of its header, and what is no number, time or date stands where one is asked
for. `ZipsAssumption`: a zip that can be read has a row. `ArchiveAssumption`: a
poll takes no longer than the retention. `NightlyAssumption`: a table is
partitioned, and the agency's day 0 has begun when the clock starts. TLC
evaluates all of them in the runs of section 3.

Only model-checked: liveness (`RowsWithATimeSettle`, `AgencyIsFollowed`,
`SilentVehiclesLeave`), which needs fairness and `ENABLED`, and
`LiveRowsArePartitioned`, whose hypothesis counts the nights that may fail
against the weeks that are created ahead. No module uses a recursive operator:
the loops are recursive functions, so that the modules can be proved about.

## 6. Not modelled

* Migrations (`Migrate`) run once, before the system starts.
* Configuration, metrics, deployment, the front end: no state the system reads
  back; the manifest's one replica is an assumption (section 2).
* Downloads: network and disk; the outcome, a zip and its hash, is an input of
  `ScheduleLoads` (`published`), a failure a load that does not begin.
* Sentences, and what handlers do with an answer besides passing it on: wording
  and layout. Statistics are rows of the rollup tables with a count; the
  percentiles and shares Postgres computes over them are not modelled.
* The join of a vehicle with the delay of its trip (`LiveVehicles`), which reads
  only and goes by trip id; `UpcomingAtStop` outside push.
* Full-text search: which names a search text matches is a parameter.

## 7. Plan

Done: reconciliation and its store with the ledger, caches, schedule loads down
to the rows of the zips, requests against them, the archive, push alerts, live
vehicles, partitions with their names, the nightly job, the keys of the rollups;
the theorems above. What could follow:

1. A proof of `LiveRowsArePartitioned`, from a hypothesis that relates
   `MaxFailures`, `Ahead` and `Lag`, with an invariant that counts the nights
   since `EnsurePartitions` last succeeded.
2. Batches with two updates of one trip, where table and map differ in which
   one they keep; replays over two builds of the code, for the promise that the
   derived dataset recomputes from the archive.
3. Two pollers of one feed in `RawArchive`, in an instance without replays.
4. Concurrent migrations.
