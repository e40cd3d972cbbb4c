# A TLA+ model of Maglev

Maglev (`src/`) is a Go server that answers OneBusAway API requests from a
static GTFS feed, kept in SQLite, and from GTFS-Realtime feeds, kept in
memory. The modules in this directory model its stateful core and the request
handlers that combine timetable and realtime; the `.cfg` files check the
models with TLC on small instances; the `_proofs` modules prove theorems about
them with TLAPS for every value of the constants.

    tlc -config RealtimeRetention.cfg MCRealtimeFeeds      # a run
    tlapm RealtimeFeeds_proofs.tla                         # the proofs

`PROJECT.json` lists the components, the runs, the source lines each
definition stands for, the hazards and which property watches each, and the
findings.

## 1. Inventory

| Component | State | Operations | Interacts with |
|---|---|---|---|
| Realtime feed manager (`internal/gtfs/realtime.go`, `gtfs_manager.go`) | per feed: trips, unattributed trips, vehicles, last-seen times, header timestamp, alerts, last update; the published merged view | `updateFeedRealtime`, `cleanupExpiredVehicles`, `clearFeedData`, `rebuildMergedRealtimeLocked`, the `Get...` readers | pollers write it under `realTimeMutex`; handlers load the view without a lock |
| Feed poller (`pollFeed`) | error count, time of the last success, cleared flag, timer | one poll; backoff; circuit breaker | one goroutine per feed; calls the manager |
| Agency filter (`realtime.go`, `config.go`) | none | `filterTripsByAgency` and its kin | reads the database before the mutex is taken |
| Static loader (`static.go`, `shapes.go`) | region bounds, the reload in progress | `ReloadStatic`, `updateStaticGTFS` | writes the database, replaces the direction cache |
| Direction calculator (`advanced_direction_calculator.go`) | cache generations, two singleflight groups | `CalculateStopDirection`, `ClearCache` | called by requests, reads the database, retired by reloads |
| Direction precomputer (`direction_precomputer.go`) | two channels, a worker pool | `PrecomputeAllDirections` | runs inside an import |
| gtfsdb client (`gtfsdb/`) | the database file: content and hash | `StoreGtfsData`, migrations, backfills, queries | everything |
| Lifecycle (`gtfs_manager.go`, `cmd/api`) | startup attempts, `shutdownChan`, the wait group, the pool | `InitGTFSManager`, `Run`, `Shutdown` | starts and stops everything |
| Metrics (`internal/metrics`, `internal/gtfs/metrics.go`) | collector goroutine; a snapshot of matched records | `StartDBStatsCollector`, `Shutdown` | reads the pool and the merged view |
| HTTP middleware (`internal/restapi`) | limiter per key | ETag check, rate limit, key check | reads the import metadata |
| Blocks and trip status (`trips_helper.go`, `scheduled_block_helper.go`, `trip_updates_helper.go`, `vehicles_helper.go`) | a memo of block snapshots per request | `BuildTripStatus`, service dates, deviation | many queries, several loads of the merged view |
| Trips of a route and of an area (`trips_for_route_handler.go`, `trips_for_location_handler.go`) | none | select the active trips, then describe them | the same |
| Arrivals (`arrivals_core.go` and three handlers) | none | visits due in a window, predictions, limits | the same |
| References (`reference_utils.go`) | none | stops, routes, agencies, trips, situations a response names | used by all handlers |
| Other handlers, utilities, configuration, logging, models, web UI | none | lookups, parsing, formatting | - |

Where the difficulty lies:

- **Realtime feeds.** Messages are late, repeated, or without times; a
  vehicle that is no longer reported is retained for a while and must not
  compete with a vehicle that took over its trip; three URLs of one feed fail
  independently; failures push the next look at the circuit breaker away.
  Correct: no vehicle goes back in time, retained vehicles expire, an outage
  ends in an empty feed after a bounded time, readers see the maps as they are.
- **Static reload.** Import, precomputation, region bounds and cache
  replacement are separate steps, each can fail, the process can die between
  them, and requests run through all of it. Correct: nothing derived from an
  old feed is passed off as the new one's, and what was missed is made up for.
- **Direction cache.** Computations last longer than a reload. Correct: a
  retired computation never reaches the new generation, every caller gets an
  answer.
- **Precomputer.** Bounded channels in both directions and cancellation.
  Correct: no deadlock, no send on a closed channel, no stop lost.
- **Lifecycle.** Timeouts on every wait. Correct: the database is never closed
  under its users, and the process ends.
- **Handlers.** Around midnight a trip belongs to one of two service days; a
  block is driven by several buses, over layovers and over agencies that keep
  different clocks; a vehicle reports from a place its schedule does not put
  it; a trip passes a stop twice; queries fail one by one and a snapshot is
  published in the middle. Correct: what is on the road is found, once, on the
  day it runs; two endpoints asked for the same say the same; a prediction is
  that of the right bus for the right visit; whatever an answer names is among
  its references.

## 2. Modules

| Module | Models | Uses |
|---|---|---|
| `FeedVehicles` | operators on one feed's vehicles: staleness, retention, release of taken trips | |
| `RealtimeFeeds` | the manager's maps, the published view, pollers, breaker, startup | `FeedVehicles` |
| `StaticReload` | source file, import, derived data, crash and restart | |
| `StaticETag` | conditional requests racing with `StaticReload` | `StaticReload` |
| `DirectionCache` | on-demand directions racing with `StaticReload` | `StaticReload` |
| `DirectionPrecompute` | the worker pool inside one import | |
| `DatabaseLease` | abstract: what the process promises about its database | |
| `Lifecycle` | startup, serving, shutdown; implements the lease | `DatabaseLease` |
| `GtfsTables` | what an import makes of a feed, and the queries on it | |
| `ServiceDays` | clocks, service dates, active services, frequencies | `GtfsTables` |
| `ScheduledBlock` | a block's shift, its snapshot and the memo of snapshots, schedule deviation | `ServiceDays` |
| `TripStatus` | vehicles, trip updates, the status of a trip, its situations | `ScheduledBlock` |
| `References` | the references of a response | `TripStatus` |
| `RouteTrips` | the active trips of a route | `References` |
| `AreaTrips` | the active trips in an area | `RouteTrips` |
| `Arrivals` | the core of the arrival endpoints, and the endpoint for one | `RouteTrips` |
| `ArrivalHandlers` | the two endpoints that list arrivals | `Arrivals` |
| `RequestData` | the imported tables and the published snapshot that a request reads | `TripStatus` |
| `BlockRequests`, `TripRequests`, `ArrivalRequests` | requests against a changing realtime view and failing queries | `RequestData` and the operators above |
| `MC...` | instances for TLC: messages, files, timetables, snapshots | |
| `..._proofs` | theorems about the module of that name; those of `StaticReload_proofs` are also about the two modules that race with it, `RequestData_proofs` holds the lemmas that those about requests share | `TLAPS` |

Definitions named "Fault: ..." are plausible bugs of the operation that
follows them. No specification uses them; each is used as a replacement of
that operation to confirm that a property notices the bug (`mutants` in
`PROJECT.json`).

### FeedVehicles and RealtimeFeeds

A Go map is a function whose `DOMAIN` is the set of keys. A vehicle is reduced
to what the merge reads: the trip it serves and the time of its position. A
message is a map from vehicle keys to positions, with `NoKey` for an entity
without a descriptor; it names each key at most once. The clock counts
seconds and is advanced by `Tick`, which does not let a fetch outlast its
deadline. `Poll(f)` is one iteration of `pollFeed`, standing at the end of the
fetch: `PollSucceeds` for any non-empty set of sub-feeds that arrived,
`PollFails` for none or for an update given up (deadline, database error in
the agency filter). That a poll is one step is justified by the code: only the
feed's own poller writes the feed's maps, and all writes of one update and the
publication lie in one critical section. `Warm` is the synchronous first fetch
of `InitGTFSManager`, `StartPollers` the start of the goroutines.

`Merge` is `rebuildMergedRealtimeLocked`. Within a feed the slice of vehicles
runs from those in the last message to the longest unseen, and a later entry
overwrites an earlier one in the lookup, so the lookup holds the longest
unseen of the vehicles on a trip. `LastServing` says just that.
`lastVehicleMessage` models no variable of the code: it keeps when a feed's last
vehicle message arrived, applied or not, so that `RetentionWindowKept` can speak
of messages that change nothing.

### StaticReload

A database content is named by the number of the import that wrote it; every
piece of derived data (directions, region bounds, cache generation) records
the import it was derived from. `reload.at` is the place inside
`ReloadStatic`, which runs under `staticUpdateMutex`. A failed load leaves
everything as it was and is no step. `ImportCommits` is the one transaction of
`StoreGtfsData`; `TableCountsFail` the error after it; `PrecomputeBatch` one
transaction of `processBatch`. `PublishStatic` is the critical section of
`staticMutex`. `born[g]` is the import at which cache generation `g` was made.
`SourceChanges` lets the producer publish another file; `HashOf` may give two
files the same hash, for a file that comes back.

### StaticETag

A client keeps one body and the tag it came under, and asks again and again. A
request is a state of `etagStatic`: the tag is read (`NotModified`,
`SetETag`), then the handler makes `NumReads` queries (`Read`), any of which
may fail. A body is the set of imports its rows came from: a body of two
imports straddled a reload. An error response is not stored, as its
`Cache-Control` says. The handler stands for the static ones; `stopHandler` is
the one the map names.

### DirectionCache

A call is a request in `CalculateStopDirection`; its `at` is its place there.
The maps are keyed by generation and stop. Registering with the singleflight
group and the second look at the cache are one step (`Lead`,
`FoundAfterAll`), as are storing the result, leaving the group and answering
those who wait (`Finish`): in between, the key belongs to one computation and
nobody else can store under it. Every database query is a step of its own
(`ReadTrips`, `ReadDistances`, `ReadPoints`), so that a reload comes between
any two. A direction is abstracted to the set of imports it was computed from
and whether a reading failed.

### DirectionPrecompute

Every channel operation is a step. A worker's `at` is its place in the loop;
`Cancel` is the deadline of the reload.

### Lifecycle

`main` is the place of the main goroutine, from `InitGTFSManager` through
`Run` to the end of the process. Workers are only waiting or busy; what they
do is the subject of the other modules. Each wait with a time limit has the
timeout as an alternative that is always possible.

`DatabaseLease` is the abstract specification: users acquire and release an
open database, and it is closed when nobody holds it. `Lifecycle` maps `open`
to the state of the pool and `holders` to the busy workers and the requests in
progress; `DatabaseLeased` is the lease's specification under that mapping.

### GtfsTables

A database is the record of its tables, each a set of rows. `Rows(feed)` is
what `StoreGtfsData` leaves after its transaction, derived columns and indexes
(block trips, block layovers, the agencies of stops) included; `Importable` is
what the parser guarantees. Each query that the modelled handlers issue is an
operator of the query's name over the tables, with its WHERE, its ORDER BY and
its treatment of NULL and of the empty string. Identifiers are numbers, ordered
as the text they stand for, dates are day numbers, times are numbers of a unit
that the instance chooses.

### ServiceDays, ScheduledBlock, TripStatus, References

Pure operators, one for each helper of the code and under its name. A request
is the record `[db, rt, fails]`: the database, the realtime view it reads, and
the set of queries that fail while it does. Every `if err != nil` of the code
is a test of `Fails(ctx, query)` with the consequence the code has there: an
error response, a log line and a default, or a value left out. The map is a
line, so that a position, a stop and a point of a shape are numbers and
projecting onto a shape is finding the nearest number; the code's arithmetic on
distances is done on exact fractions.

### RouteTrips, AreaTrips, Arrivals, ArrivalHandlers

The handlers from their first query to their answer, references included; an
answer keeps the fields that a property reads. The state machines
`BlockRequests`, `TripRequests` and `ArrivalRequests` are thin: their variables
hold what a request has read (the time it began at, the views it loaded, the
queries that failed for it), their actions are the points between which a new
realtime view may be published, and the answers are functions of that state.
In `BlockRequests` the memo of block snapshots is a variable, since it is kept
from one row of a request to the next.

## 3. Runs

| Run | Question | Bounds |
|---|---|---|
| `realtime_retention` | does any sequence of messages break retention or staleness, or leave a trip with two vehicles? | 1 feed, 2 vehicles, 1 trip, retention window 2 s; all messages, with and without times, headers and anonymous entities |
| `realtime_breaker` | does anything stale survive outages, backoff and recovery, and which feed is a trip looked up in? | 2 feeds on one trip, polled every 2 and every 3 seconds, the first with vehicles only, the second with all three sub-feeds and an agency filter; jitter of 50 % |
| `static_reload` | does derived data mix feeds, is a copy of an older feed confirmed, and does everything catch up? | `StaticETag` with 2 files, 1 crash, 2 stops, 1 client, 2 queries |
| `direction_cache` | can a cache or an answer mix feeds, is each call answered? | 2 calls, 2 files, 1 crash, 1 stop with 1 shape; no symmetry, since a property is temporal |
| `direction_precompute` | does the pool wind down, and lose nothing? | 5 stops, 2 workers, result channel of 1, batches of 3 |
| `lifecycle` | does the process implement the lease, does it end? | 2 feeds, 2 requests, 2 retries |
| `block_requests` | are the memoized snapshots, service dates, deviations and vehicles of trips right, whatever was asked before? | 1 block with 2 shifts over midnight, a loop with frequencies, 15 moments, 4 realtime views, 2 combinations of failing queries, requests of 2 rows |
| `trip_requests` | is what runs found once, on its day and by its clock, and is all that is named referenced? | 7 trips on 2 blocks and on none, 2 agencies an hour apart or on one clock, 13 moments, 3 routes, 2 areas, 2 realtime views, 4 combinations of failing queries |
| `arrival_requests` | are the visits due listed once, do the endpoints agree, does an answer resolve after limits? | 4 trips, one passing a stop twice, 2 agencies on different clocks, on one, or one agency; 5 moments, 6 combinations of failing queries, lists of a stop and of an area with limits 1 and 5 |
| `all_active_trips` | are all active trips of a route returned, as documented? (no) | as `trip_requests` |
| `area_dates` | is a trip that is selected never classified as not running, as documented? (no) | as `trip_requests` |
| `arrival_index` | is an emitted stop sequence the index that the other endpoint expects, as documented? (no) | as `arrival_requests` |

What the runs of requests check, in the terms of the service:

- `RetentionWindowKept`: as of the last vehicle message that arrived, no vehicle
  is held beyond the retention window, also where that message was dropped
  because an earlier header lay in the future. `TripLookupFindsLatestReport`: of
  all feeds with a vehicle on a trip the lookup has the last one in the order of
  the merge, and of that feed's vehicles one heard of no earlier than the others.
- `MemoIsOwnSnapshot`: block-mates share a memoized snapshot only if each would
  have computed it. `BlockDrivesForward`: the position of a block lies between
  the stop behind it and the next, and never goes back as the clock runs.
  `ResolvedDayRuns`: a running trip is reported on the day that runs it.
  `DeviationOfRunningShift`: the deviation is that of the prediction nearest to
  now, and no delay of another shift's bus reaches it (where the bounds kept with
  the trips of a block put them in the order of their first visits,
  `BoundsKeepOrder`; see the divergences).
  `StaleVehicleDoesNotMoveTrip`: a vehicle long unheard of does not place a trip.
- `ActiveBlocksFound`: every block of a route that is under way, or lying over
  before a trip of the route, is in the answer. Of layovers it speaks where the
  trips of the block follow one another and keep one clock, on days on which the
  clock is not moved. `FoundTripsInService`: whatever is in the answer has its
  block in service, on the day and by the clock of the trip. `HandlersAgree`:
  what the area endpoint finds by schedule the route endpoint finds, unless the
  block is so long between two trips that neither is near. `ReferencesResolve`:
  stops, their stations, and trips named by entries are in the references, but
  for a stop that the feed lacks and a vehicle names.
  `TripsAtStopsFound`: a trip that stands at a stop of the area by the calendar
  and its own clock, alone of its block, is found there unless its vehicle
  reports from elsewhere. A vehicle without a position (trip 4 has one) and the
  vehicle of another trip take nothing away.
- `DueVisitsListed`: the list is exactly the visits due by each agency's own
  clock and calendar, each once. `DegradedListsQueryDay`: when the services of the
  days beside the query day, the trips' visits or the references cannot be read,
  every visit of the query day is still listed, or the answer is an error; what
  is listed is due. `EndpointsAgree`, `PipelinesAgree`: one
  arrival, a stop and an area are answered alike. The frequency inside a status
  is left out of both: an answer has the frequency rows of every trip it lists,
  so that a status whose vehicle serves another trip has a frequency in the
  answer that lists this trip too and none where it does not.
  `NoPredictionFromAhead`: what is known of later visits only predicts nothing
  earlier. `EmittedIDsResolve`: what survives a limit still resolves, but for a
  stop that the feed lacks and a vehicle names. All of
  these are about answers that are not an error response, and all but
  `DegradedListsQueryDay` about requests none of whose queries fails.

The reference definitions in these properties (which visits are due, which
blocks are under way, which prediction counts) are written over the rows of the
timetable, not with the operators of the handlers.

Why the bounds are enough. Two vehicles on one trip are the smallest
competition for it, and two feeds the smallest merge; the clock runs beyond
retention window, threshold and longest delay added up. Two generations and
two callers give every overlap of a retired and a current computation; two
queries and one import let a body straddle, and clients do not see one another.
Five stops for two workers and a result channel of one make both channels full
and empty, and a batch of three leaves a short last batch. The timetables are
the smallest that have what the code distinguishes: two shifts of one block, a
layover that ends at midnight, a trip past midnight and one of the next day, a
block shared by agencies an hour apart, a trip without a block, a loop, a
parent of a parent; the moments of the requests lie at both sides of each
change. The unit is ten minutes; the code's limits (30 and 10 minutes of
running late and early, a vehicle's age, a match's quality) are the constants
`RunningLate`, `RunningEarly`, `StaleAge`, `GoodMatch`, `EarlyExit`,
`DeviationLimit`, `OffRoute`, at scale.

`CHECK_DEADLOCK FALSE` appears only in the realtime runs, where the bounded
clock (`MaxTime`) stops the model; the lifecycle and precomputer models end in a
`Terminated` stutter, so there deadlock is checked. The bounds named in guards
are `MaxTime`, `MaxHeader` (values of a header), `MaxSources`, `MaxCrashes`,
`MaxRows` and `LastTime`, and `MaxExponent`, which is the code's own cap on the
backoff exponent. In `BlockRequests` queries fail in one row of a request at
most, and in the three request modules no view is published after the last one
was read, since it would not be.

## 4. Fairness

- `RealtimeFeeds` and the request modules have none: their properties are
  safety properties.
- `ReloadFairness`: the updater's ticker starts reloads again and again (`WF`
  of `LoadFeed`); steps without a choice go on; an import and the bounds query
  are not refused every time they are asked (`SF`), which stands for a
  database that works now and then.
- `StaticETag`: clients come back (`WF` of `Ask`), requests are handled, and no
  query is refused every time it is made (`SF` of `Read`); a client that never
  asks again has no claim to the current feed.
- `DirectionCache`: a request that runs goes on, and with it its queries;
  nothing is assumed about their success, nor about the reload.
- `DirectionPrecompute`: each goroutine runs as long as it can.
- `Lifecycle`: only the main goroutine and the collector go on; a worker's
  fetch and a request may hang for ever.

## 5. What is proved

`RealtimeFeeds_proofs`, for any number of feeds, vehicles, trips and
messages and any timing constants, from the assumptions `VehicleAssumption`,
`FeedAssumption` and `ReportAssumption`:

- `TypeCorrect`: `TypeOK` is inductive by itself.
- `SeenVehiclesStoredAlways`: vehicles and last-seen times name the same
  vehicles. Inductive by itself, given types; the lemmas about
  `FeedVehicles` give the domains that each path leaves behind.
- `TripSharedAlways`: two vehicles on one trip were last named by the same
  message. Rests on `SeenVehiclesStored`.
- `PositionsNeverGoBackAlways`: what one step may not do, from the lemmas on
  messages.
- `RetentionWindowAlwaysKept`: inductive given types and `SeenVehiclesStored`. A message, applied or
  dropped, leaves what was seen within the window before it; no other step adds
  a vehicle or makes a last-seen time older.
- `PublishedIsCurrentAlways`: each step that changes a map publishes.
- `ClearedFeedIsEmptyAlways`: from `BreakerInv`, which adds that no feed is
  cleared before the pollers run.
- `TripLookupAlwaysFindsLatest`: whoever looks a trip up is given a vehicle of
  the last feed that serves it, and of that feed's vehicles on the trip one heard
  of no earlier than the others. From `PublishedIsCurrent`, `SeenVehiclesStored`
  and `TripSharedOnlyWithinOneMessage`; what remains is that of the feeds with a
  vehicle on the trip one is the last (`HighestFeed`), so that no other feed's
  vehicle is found.
- `OutageAlwaysBounded`: from `TimerInv`. That data is never older than a
  limit does not follow from itself: a poll could be pending arbitrarily far in
  the future. `TimerInv` bounds the next poll of each feed that was not cleared
  by its last success plus `OutageLimit`, and says that no poll is overdue by
  more than a fetch.

`StaticReload_proofs`, first about `StaticReload` itself, for any set of stops, any
sequence of files and any number of crashes, from `SourceAssumption`:

- `ReloadTypeCorrect`: inductive by itself; the steps that import need that
  imports only grow (`ImportsGrow`), publication what becomes of the
  generations (`BornAfterPublish`).
- `BoundsNeverOlderThanCache`: from `PendingBoundsCurrent`, which says that
  bounds waiting for publication are those of the database: no other reload
  can import while one is under way.

The lemmas are about single steps, so that they hold of the reload's steps in
the modules that extend `StaticReload` too (`ReloadTypeStep`).

The same module about `StaticETag`, for any number of clients and of queries per
request, from `ClientAssumption`:

- `NotModifiedIsCurrent`: a copy under the feed's tag has rows of the feed only.
  By itself this is not inductive: an import could bring the very hash under
  which somebody keeps old rows. `LoadsInOrder` (the file being loaded is no
  earlier than the feed's) and `TagsGivenOut` (each tag in use is of a file no
  later than the feed's) exclude that when files have hashes of their own;
  `BodiesUnderTags` carries the rows from the query to the copy.

And about `DirectionCache`, for any number of calls, stops and
shapes, from `ShapeAssumption`:

- `AnswersAlwaysFresh`, `CacheAlwaysServesCurrentFeed`: both follow from `Fresh`:
  whatever is kept under a generation, be it a result, a shape's distances or the
  readings of a computation, was read between the birth of the generation and
  now. That generations keep their birth and imports only grow
  (`GenerationsStay`) carries it over every step of a reload.
- `NeverRecomputed`: no key has both a computation and a result.

`DirectionPrecompute_proofs`, for any number of stops and workers, and any
capacities, from `PoolAssumption`:

- `NeverSendsOnClosedChannel`, `ResultsAlwaysComplete`: from an invariant that
  accounts for every stop that was fed (in a channel, in a worker's hand,
  collected or discarded), with the order of the closings: a worker ends when
  the stops are closed and empty, the results are closed when all workers have
  ended, writing begins when the results are closed and empty, and nothing is
  discarded before a cancellation.
- `NoStopLostOrHandledTwice`: `EveryStopOnce` counts the places, so it needs to
  know that a stop that is discarded, which adds to a set, was not discarded
  before. `SentInOrder` says so: the stops still waiting are the last that were
  fed, in order, and those discarded came before them.

`Lifecycle_proofs`, for any number of feeds, requests and attempts, from
`StartupAssumption`:

- `LifecycleLeasesDatabase`: the refinement. Initial states map to initial
  states, and each step to a step of the lease or a stutter; the invariant says
  who may be running in each phase of startup and shutdown, and that as long as
  the process runs only the closer closes the database, after the workers.

`BlockRequests_proofs`, for any feeds that could be imported
(`FeedsImportable`: their rows have the types, primary keys and constraints of
the schema, the visits of a trip a list, and times without a sign), any zones,
published reports, failing queries and times of the requests, from
`NullAssumption`, `DayAssumption`, `ClockAssumption` and `RealtimeAssumption`
(`SnapshotTyped` of every snapshot: its vehicles and the stops of an update are
lists, and their times and delays numbers):

- `TripsKeepTheirDay`: a trip that is running is reported on a day that runs it.
  Rests on `ServiceInAnswer`: asking whether one service runs on a date and
  asking for all that do have the same answer, exceptions included, which needs
  that a service has one exception a date.
- `StaleVehicleLeftAside`: no way of building a status (`StaleStatusBySchedule`)
  takes the place of a stale vehicle. The invariant `PlaceInv` adds that the
  clock stands while a status is kept.
- `MemoServesEveryTrip`: the shift cut out of a block is the same from whichever
  of its trips one starts (`ShiftOfMember`, from the bounds of the shift), and so
  are the trips loaded for it and the snapshot built from them
  (`SnapshotOfMember`). That sorting a finite set by a strict order lists each
  member once (`Enumerates`) is proved from the definition of the sort.
- `DelaysReachTheirOwnShift`: both halves of `DeviationOfRunningShift`. That the
  picked prediction is nearest follows the fold over the predictions
  (`PicksFold`): what is picked so far is the nearest of those seen, and of the
  ones still to come where two are as near (`ConsiderNearest`); that several
  updates are joined into one list of predictions is `Flattened`
  (`NearestDeviation`). That only the block's own shift counts compares two ways
  of cutting a block: by the bounds kept with the trips, for the delays, and by
  the visits, for the snapshot. Rows have one enumeration by an order
  (`OneEnumeration`), so both list the trips in the same order (`SameOrder`);
  every visit lies between the bounds (`BoundsHold`), so trips that overlap by
  their visits do by their bounds, and as a block is cut where its trips overlap,
  the first shift lies within the second (`ShiftContained`). Leaving out the updates of all other trips thus
  leaves the list of updates as it is (`DelaysOfShift`). The invariant
  `StatusInv` says that a status was computed from what the request has read.

`ArrivalRequests_proofs`, for any feeds that could be imported, any snapshots
published between the reads of a request, and any window and distances, from
the same assumptions and `ZoneAssumption`, `ClockChangeAssumption` and
`RequestAssumption` (times and the bounds of areas are numbers, the limit on
results is natural). `ClockChangeAssumption` says that
no change of a clock moves it by a whole day, as a zone does that crosses the
date line; without it the start of a day need not fall on the day.

- `EveryDueVisitListedOnce`: the handler groups the agencies of a stop by zone
  and asks for three days by each zone's clock; these groups divide the visits
  that are due by each trip's own clock among them (`DueAtStop`), each visit
  gives an arrival that names it, and what the order compares tells any two
  arrivals apart, so that the sort keeps all (`ArrivalsSorted`).
- `PredictionsNeverFromAhead`: an update that names only later visits neither
  has a target for this visit nor a delay to hand on (`NothingFromAhead`).
- `SingleArrivalAgrees`: the clocks that the single endpoint must load are those
  that the list has loaded (`ClocksOfList`); the position of a visit among its trip's stop times
  finds it again, also where the trip passes the stop twice (`VisitInTrip`); the
  start of a day is an instant of that day (`DateOfStart`); a status built with
  other trips listed differs in its frequency at most (`StatusAlone`).
- `StopsInAreaAgree`: with one clock, the agency under which the area looks a
  stop up has the clock of every trip that stops there (`ClockOfStop`), so both
  pipelines ask for the same days and windows.
- `EmittedIDsFound`: `EmittedIDsResolve`, for answers to which no query failed.
  What an arrival refers to are rows of the tables (`BuiltRefers`; of its status
  by the lemmas of `AnswersResolve`), all of it is noted while arrivals are listed
  (`AllNoted`), and the references of what is noted have it under the agency that
  the index gives (`ReferencesCover`). For an area come the three lists: each is
  put in a strict order (`ArrivalsListedByDistance`, `StopsListedByDistance`,
  `NearbyAre`) and cutting it adds nothing (`TruncatedIs`, `ListsAre`); what
  is kept for the references covers what the cut lists still name
  (`RetainedCovers`); and the agencies looked up for the stops around complete
  the index without changing it for the stops in the area (`AroundIs`), so that
  one index serves all three.

`TripRequests_proofs`, for any feeds that could be imported, any zones, any
published snapshots and any failing queries, from `FeedsImportable`,
`DayAssumption`, `ZoneAssumption`, `RequestAssumption`, `RealtimeAssumption`,
`QueryAssumption` (the routes asked for are in the feed: another
has an empty answer) and `NullIsNothingFound`, which says that `Null` is neither a
zone nor one of the records the handlers find:

- `ReportedWhileInService`: whatever a route reports is in service. A trip comes
  into the answer in three ways, and each has its lemma: without a block, by the
  window of a day (`AloneInService`); because it is running by its own clock
  (`RunningIs`); or as what the shift of a block runs or waits for
  (`ResolvedBetween`). In the last, the anchor says that the block is near
  (`AnchorIs`), the shift cut out around it is a part of the block's trips of
  that day (`ShiftWithin`, `ShiftLoaded`, `BlockOfAnchor`), and so is what its
  snapshot is running (`SnapshotActive`), although what the snapshot computes by
  folding over stops stays open (`SumsExist`, `JoinExists`: the folds have a
  value, and of the right length).
- `EveryTripUnderWayFound`: the first half of `ActiveBlocksFound`. A trip that is
  under way is so on one of the two days that are asked for (`UnderWayOnDay`),
  its entry in the block index brings its block in (`EntryOfTrip`,
  `RunningIsInService`), and of a block with a trip that is running by the
  route's clock something is found (`ActiveInBlocks`), which the merge of the two
  days keeps (`SelectedAre`).
- `AnswersResolve`: `ReferencesResolve`, along three lines. First, what an entry
  can name (`EntryNames`): the stops of a schedule are of its stop times, and the
  closest and next stop of a status are of the timetable or the stop of a vehicle,
  down every way in which a status is filled: by the offset of the vehicle's stop,
  by sequence, by distance, by schedule with one deviation or with the delays of
  each stop, and the first stop of the trip that follows in the block. Then, what
  the references hold: the stops that are named are built under the agency that
  names them (`StopsReferred`), and the closure under parents is complete, as each
  round that adds nothing is the last and no more rounds add than there are
  stations. Last, the trips: a trip that an entry names is noted for the
  references (`TripIDsNoted`) and has its reference as long as its route can be
  read (`TripsReferred`), and a handler that could not read routes has no entries
  (`NothingWithoutRoutes`, `ReferencesAre`).

`RequestInv`, the invariant of the last two modules, says that the tables are
those of a feed that could be imported and that what a request has read is
typed, for arrivals also that an area asked for is one of the constants': the
actions only record what was read, and the weight is in the operators.
`AnswerInv` adds to it, for `AnswersResolve`, that the snapshots read at either
point are typed and that the request is one of the queries.

Only model-checked:

- Liveness under fairness, which is out of the prover's reach (`BoundsCatchUp`,
  `CopiesCatchUp`, `CallsAnswered`, `AllGoroutinesEnd`, `StopsWhenCancelled`).
- `BlockDrivesForward`: the position of a block between its stops. It holds where
  the stops of a trip project onto its shape in the order of the visits, as they
  do in the feeds of the run; nothing in the import makes a feed so, and what the
  sums over its stops come to is induction over data.
- `TripsAtStopsFound` and `DegradedListsQueryDay`, which compare what the area
  endpoint and a failing request find with the timetable.
- `HandlersAgree` and the half of `ActiveBlocksFound` that is about layovers:
  they need which trip of a shift the snapshot takes for the current one, and
  not only that it is one of the shift.

## 6. Findings

Three statements of comments and documents that the code does not keep, each
with a run that shows it (`findings` in `PROJECT.json`): trips without a block
are missing from their route; a trip in its block's layover past midnight is
selected on one service date and reported on another; the stop sequence that
the arrival lists emit is not the index the endpoint for one arrival expects.

### Divergences

Seen while modelling and not checked by a run:

- An outage is cleared after about ten minutes with the real constants, not
  five (`docs/horizontal-scalability-spec.md:579-580`, `880-881`): failures
  before the threshold have already pushed the next look away.
- When only the vehicle URL of a feed fails, its vehicles are neither expired
  nor cleared (`realtime.go:206`, `464`).
- A direction computed from the shapes that could be read is cached although
  others could not (`advanced_direction_calculator.go:176-178`, `291`).
- When the rows cannot be counted after an import's commit, the direction cache
  is not replaced until the next changed feed (`gtfsdb/helpers.go:554`;
  `app.go:125-126` says it is after every update).
- The database is not closed when shutdown times out (`cmd/api/app.go:29`,
  `gtfs_manager.go:277`), nor when `ListAgencies` fails at startup.
- The pipelines for one stop and for many differ on feeds with several time
  zones, where `arrivals_core.go:434-436` says they match; `PipelinesAgree` is
  about feeds with one.
- The next and closest stop of a status are named under the agency of the
  scheduled route, the stops of the references under agencies of their own;
  `EmittedIDsResolve` is about statuses where there is one agency.
- Not every stop that an entry emits resolves (`reference_utils.go:711`): a vehicle
  may report a stop that the feed does not have, which a status then names and
  the references cannot. `ReferencesResolve` and `EmittedIDsResolve` leave such
  stops out.
- The position of a status is that of a stale vehicle too
  (`vehicles_helper.go:21-22`), and `situationIds` of a status are not
  all among the references.
- A trip that passes through an area without stopping in it is listed by its
  schedule although its vehicle reports from elsewhere, and so is the active trip
  of a block whose other trips stop there (`trips_for_location_handler.go:255-265`);
  `TripsAtStopsFound` says what must be found, not what must not.
- The area endpoint takes the trips without a block for one block, as they all have
  the empty block ID, so that one of them can hide another; `TripsAtStopsFound` is
  about trips with a block.
- Between two trips of a block that are further apart than `RunningLate` and
  `RunningEarly` together, the area endpoint still places the block, as it
  compares the span of the whole block, while the route endpoint looks for one
  trip that is near or for a layover at one stop.
- Where trips of one block overlap, its shift is cut in two and a bus in a
  layover may be left out of its route's answer.
- The next stop of a block and its distance need not lie in the same pair of
  stops when the times of a trip go back, although
  `scheduled_block_helper.go:208-215` says both agree.
- The shift for delays is cut by the earliest arrival and the latest departure of
  each trip, the shift of the snapshot by the first and the last visit, although
  `trip_updates_helper.go:446-447` says that the one filter matches the other. They
  differ where a trip arrives at its first stop exactly at midnight and leaves
  later, or where its times go back; `DeviationOfRunningShift` is about blocks
  that both put in the same order (`BoundsKeepOrder`). A trip that does not run on
  the day is given the delays of its whole block.
- `GetStopDelaysFromTripUpdates` does not apply the threshold that
  `trip_updates_helper.go:74-80` asks of every consumer.
- `activeTripId`, `nextTripId` and `previousTripId` of a block interlined over
  agencies are combined with the agency of the trip asked for.
- The second day back is never examined, so a trip of more than 48 hours is
  lost; a stop update with a time only propagates a delay of zero.
- A kept trip that refers to a stop without coordinates fails the whole import.

## 7. Not modelled

- Floating-point geometry (the map is a line, a distance an exact fraction),
  GTFS parsing, JSON, HTTP headers, logging, and the fields of a response that
  no property reads.
- Two entities of one message with the same vehicle key, and descriptors
  without any identity (which all share one key).
- The uint64 wrap of a zero header timestamp, which line 470 of `realtime.go`
  prevents.
- Which records the agency filter keeps, the precedence of the alert index's
  buckets, the metrics snapshot, and the rate limiter (a library's token bucket
  per key).
- Region bounds and directions in the bodies of `StaticETag`: both are
  published after the commit that changes the tag, so the property it checks
  does not hold of them.
- `If-None-Match` with several tags or the wildcard.
- Reloads during a request of the request modules: there the database stands
  still, and what a reload between two queries does to a body is the subject of
  `StaticETag`.
- Migrations and backfills when a database is opened, and the batches of the
  bulk insertion, which are one transaction.
- The endpoints that wrap the modelled operators (block, trip details,
  vehicles of an agency), schedules, single stops and routes, and searches.
- Frequency rows that an earlier entry of the same request has fetched and left
  in the shared map: an entry knows those fetched in one batch and its own.
- After `BuildReference` has written an error response the handler still writes
  its list; the model ends the request with the error.
