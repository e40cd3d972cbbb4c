--------------------------- MODULE RealtimeFeeds ---------------------------
(***************************************************************************)
(* The realtime side of the GTFS manager: the per-feed maps, one poller    *)
(* per enabled feed, the merged view published to readers, and the         *)
(* circuit breaker that clears a feed whose fetches keep failing           *)
(* (internal/gtfs/realtime.go, internal/gtfs/gtfs_manager.go).             *)
(*                                                                         *)
(* A poll is one step: nothing outside the feed's own poller writes the    *)
(* feed's maps, and they change inside one critical section of             *)
(* realTimeMutex that ends with the publication of the merged view. The    *)
(* step stands at the end of the fetch, so a poll that is due at           *)
(* nextPoll[f] happens up to FetchTimeout later.                           *)
(***************************************************************************)
EXTENDS FeedVehicles

CONSTANTS NumFeeds,           \* feeds are numbered in the order of their IDs
          Subfeeds,           \* which of a feed's three URLs are configured
          AgencyFiltered,     \* feeds with agency IDs configured
          Alerts,             \* alerts a feed may carry
          RefreshInterval,    \* seconds between polls of a healthy feed
          MaxInterval,        \* the longest backoff, before jitter
          JitterPercent,      \* how far the jitter moves a backoff
          StaleFeedThreshold, \* age of the last success that clears a feed
          FetchTimeout,       \* the deadline of one fetch
          Reports,            \* vehicle messages a producer may send
          MaxHeader,          \* bound on header timestamps
          MaxTime             \* bound on the clock

Feeds == 1..NumFeeds
Headers == 0..MaxHeader

ASSUME FeedAssumption ==
    /\ NumFeeds \in Nat
    /\ Subfeeds \in [Feeds -> (SUBSET {"trips", "vehicles", "alerts"}) \ {{}}]
    /\ AgencyFiltered \subseteq Feeds
    /\ RefreshInterval \in [Feeds -> Nat \ {0}]
    /\ MaxInterval \in Nat \ {0}
    /\ JitterPercent \in 0..100
    /\ StaleFeedThreshold \in Nat
    /\ FetchTimeout \in Nat
    /\ MaxHeader \in Nat
    /\ MaxTime \in Nat

ASSUME ReportAssumption ==
    \A report \in Reports :
        /\ DOMAIN report \subseteq VehicleKeys \cup {NoKey}
        /\ \A k \in DOMAIN report : report[k] \in Positions

VARIABLES
    clock,
    \* the per-feed maps of Manager
    feedTrips, feedUnattributedTrips, feedVehicles, feedVehicleLastSeen,
    feedVehicleTimestamp, feedAlerts, feedLastUpdate,
    \* when a feed's last vehicle message was handled, applied or not; no
    \* action reads it, it is there for RetentionWindowKept
    lastVehicleMessage,
    \* the published snapshot
    merged,
    \* startup: feeds already warmed, and whether the pollers run
    warmed, polling,
    \* each poller's local variables and its timer
    consecutiveErrors, lastSuccessfulFetch, feedCleared, nextPoll

feedMaps == <<feedTrips, feedUnattributedTrips, feedVehicles, feedVehicleLastSeen,
              feedVehicleTimestamp, feedAlerts, feedLastUpdate, lastVehicleMessage>>
pollers == <<consecutiveErrors, lastSuccessfulFetch, feedCleared, nextPoll>>
vars == <<clock, feedMaps, merged, warmed, polling, pollers>>

-----------------------------------------------------------------------------
(* The merged view. *)

\* Fault: the entry written first is kept.
FirstWritten(S) == CHOOSE f \in S : \A g \in S : f <= g

\* Of the feeds that write an entry, the one whose entry stays.
Highest(S) == CHOOSE f \in S : \A g \in S : g <= f

\* The vehicles of one feed that may come last in its slice among those
\* serving a trip. A message's vehicles come first and the retained ones
\* after them, so the slice runs from the last seen to the longest unseen.
LastServing(vehicles, lastSeen, t) ==
    LET serving == {k \in DOMAIN vehicles : vehicles[k].trip = t}
    IN  {k \in serving : \A other \in serving : lastSeen[k] <= lastSeen[other]}

\* rebuildMergedRealtimeLocked: the feeds one after the other, in the order
\* of their IDs, and the lookups, where a later entry overwrites an earlier.
Merge(trips, vehicles, lastSeen, alerts) ==
    LET serving(t) == {f \in Feeds : t \in TripIDsServedBy(vehicles[f])}
        served == {t \in TripIds : serving(t) # {}}
        updated == UNION {trips[f] : f \in Feeds}
    IN  [trips    |-> trips,
         vehicles |-> vehicles,
         alerts   |-> alerts,
         tripLookup |->
            [t \in updated |-> Highest({f \in Feeds : t \in trips[f]})],
         vehicleLookupByTrip |->
            [t \in served |->
                LET f == Highest(serving(t))
                IN  [feed |-> f, keys |-> LastServing(vehicles[f], lastSeen[f], t)]]]

RebuildMerged ==
    merged' = Merge(feedTrips', feedVehicles', feedVehicleLastSeen', feedAlerts')

-----------------------------------------------------------------------------
(* updateFeedRealtime, after the fetches, for the sub-feeds that arrived. *)

\* The trip updates replace the feed's trips. With an agency filter the trips
\* no agency claims are set aside, and the trips of other agencies are gone.
StoreTrips(f) ==
    \E trips, unattributed \in SUBSET TripIds :
        /\ trips \cap unattributed = {}
        /\ f \notin AgencyFiltered => unattributed = {}
        /\ feedTrips' = [feedTrips EXCEPT ![f] = trips]
        /\ feedUnattributedTrips' = [feedUnattributedTrips EXCEPT ![f] = unattributed]

\* A message that is newer than the last one applied, or that has no header
\* timestamp to compare (NoTime), is applied.
ApplyVehicles(f, report, header) ==
    LET live == Reported(feedVehicles[f], report)
    IN  /\ header # NoTime => header > feedVehicleTimestamp[f]
        /\ feedVehicleTimestamp' =
               [feedVehicleTimestamp EXCEPT ![f] = IF header = NoTime THEN @ ELSE header]
        /\ feedVehicles' = [feedVehicles EXCEPT
               ![f] = VehiclesAfter(@, feedVehicleLastSeen[f], live, clock)]
        /\ feedVehicleLastSeen' = [feedVehicleLastSeen EXCEPT
               ![f] = LastSeenAfter(@, live, clock)]

\* Fault: a message that is dropped leaves the vehicles alone.
SkipWithoutCleanup(f, header) ==
    /\ header # NoTime
    /\ header <= feedVehicleTimestamp[f]
    /\ UNCHANGED <<feedVehicles, feedVehicleLastSeen, feedVehicleTimestamp>>

\* Any other message is dropped, but vehicles still expire.
CleanupExpiredVehicles(f, header) ==
    /\ header # NoTime
    /\ header <= feedVehicleTimestamp[f]
    /\ feedVehicles' = [feedVehicles EXCEPT
           ![f] = VehiclesKept(@, feedVehicleLastSeen[f], clock)]
    /\ feedVehicleLastSeen' = [feedVehicleLastSeen EXCEPT
           ![f] = LastSeenKept(@, clock)]
    /\ UNCHANGED feedVehicleTimestamp

StoreVehicles(f) ==
    \E header \in Headers \cup {NoTime} :
        \/ \E report \in Reports : ApplyVehicles(f, report, header)
        \/ CleanupExpiredVehicles(f, header)

StoreAlerts(f) ==
    \E alerts \in SUBSET Alerts : feedAlerts' = [feedAlerts EXCEPT ![f] = alerts]

\* Each sub-feed that arrived is stored, the others keep what they had, and
\* the merged view is published either way.
UpdateFeedRealtime(f, arrived) ==
    /\ IF "trips" \in arrived
       THEN StoreTrips(f)
       ELSE UNCHANGED <<feedTrips, feedUnattributedTrips>>
    /\ IF "vehicles" \in arrived
       THEN StoreVehicles(f)
       ELSE UNCHANGED <<feedVehicles, feedVehicleLastSeen, feedVehicleTimestamp>>
    /\ IF "alerts" \in arrived THEN StoreAlerts(f) ELSE UNCHANGED feedAlerts
    /\ RebuildMerged
    /\ feedLastUpdate' =
           [feedLastUpdate EXCEPT ![f] = IF arrived = {} THEN @ ELSE clock]
    /\ lastVehicleMessage' =
           [lastVehicleMessage EXCEPT ![f] = IF "vehicles" \in arrived THEN clock ELSE @]

\* A fetch that ran into its deadline, or a filter whose database lookup
\* failed: the whole update is given up, the sub-feeds that arrived included.
AbandonUpdate == UNCHANGED <<feedMaps, merged>>

\* The maps of a feed emptied, all but the last-seen times.
ClearAllButLastSeen(f) ==
    /\ feedTrips' = [feedTrips EXCEPT ![f] = {}]
    /\ feedUnattributedTrips' = [feedUnattributedTrips EXCEPT ![f] = {}]
    /\ feedVehicles' = [feedVehicles EXCEPT ![f] = NoVehicles]
    /\ feedAlerts' = [feedAlerts EXCEPT ![f] = {}]
    /\ feedVehicleTimestamp' = [feedVehicleTimestamp EXCEPT ![f] = 0]
    /\ feedLastUpdate' = [feedLastUpdate EXCEPT ![f] = NoTime]
    /\ UNCHANGED lastVehicleMessage

\* Fault: the cleared feed is not published.
ClearUnpublished(f) ==
    /\ ClearAllButLastSeen(f)
    /\ feedVehicleLastSeen' = [feedVehicleLastSeen EXCEPT ![f] = NoVehicles]
    /\ UNCHANGED merged

ClearFeedData(f) ==
    /\ ClearAllButLastSeen(f)
    /\ feedVehicleLastSeen' = [feedVehicleLastSeen EXCEPT ![f] = NoVehicles]
    /\ RebuildMerged

-----------------------------------------------------------------------------
(* pollFeed. *)

\* The exponent of the backoff stops growing here.
MaxExponent == 5

\* Fault: the doubled interval is not capped.
BackoffUncapped(f, errors) == RefreshInterval[f] * <<2, 4, 8, 16, 32>>[errors]

\* The delay before the next poll after this many errors in a row, without
\* jitter: the interval doubles with each error, up to the cap.
Backoff(f, errors) ==
    LET grown == RefreshInterval[f] * <<2, 4, 8, 16, 32>>[errors]
    IN  IF grown > MaxInterval THEN MaxInterval ELSE grown

\* The jitter is added after the cap, so a delay may exceed MaxInterval.
Jitter(interval) == (interval * JitterPercent) \div 100

BackoffDelays(f, errors) ==
    LET interval == Backoff(f, errors)
    IN  (interval - Jitter(interval))..(interval + Jitter(interval))

\* Fault: the breaker is not armed again.
PollSucceedsStillCleared(f) ==
    /\ \E arrived \in (SUBSET Subfeeds[f]) \ {{}} : UpdateFeedRealtime(f, arrived)
    /\ consecutiveErrors' = [consecutiveErrors EXCEPT ![f] = 0]
    /\ lastSuccessfulFetch' = [lastSuccessfulFetch EXCEPT ![f] = clock]
    /\ nextPoll' = [nextPoll EXCEPT ![f] = clock + RefreshInterval[f]]
    /\ UNCHANGED feedCleared

PollSucceeds(f) ==
    /\ \E arrived \in (SUBSET Subfeeds[f]) \ {{}} : UpdateFeedRealtime(f, arrived)
    /\ consecutiveErrors' = [consecutiveErrors EXCEPT ![f] = 0]
    /\ lastSuccessfulFetch' = [lastSuccessfulFetch EXCEPT ![f] = clock]
    /\ feedCleared' = [feedCleared EXCEPT ![f] = FALSE]
    /\ nextPoll' = [nextPoll EXCEPT ![f] = clock + RefreshInterval[f]]

OutageTooLong(f) == clock - lastSuccessfulFetch[f] > StaleFeedThreshold

\* The error count only matters up to MaxExponent, where the model stops it.
PollFails(f) ==
    /\ IF OutageTooLong(f) /\ ~feedCleared[f]
       THEN ClearFeedData(f)
       ELSE UpdateFeedRealtime(f, {}) \/ AbandonUpdate
    /\ feedCleared' = [feedCleared EXCEPT ![f] = @ \/ OutageTooLong(f)]
    /\ consecutiveErrors' =
           [consecutiveErrors EXCEPT ![f] = IF @ < MaxExponent THEN @ + 1 ELSE @]
    /\ \E delay \in BackoffDelays(f, consecutiveErrors'[f]) :
           nextPoll' = [nextPoll EXCEPT ![f] = clock + delay]
    /\ UNCHANGED lastSuccessfulFetch

Poll(f) ==
    /\ polling
    /\ clock >= nextPoll[f]
    /\ PollSucceeds(f) \/ PollFails(f)
    /\ UNCHANGED <<clock, warmed, polling>>

-----------------------------------------------------------------------------
(* InitGTFSManager: each feed is fetched once, then the pollers start. *)

Warm(f) ==
    /\ ~polling
    /\ f \notin warmed
    /\ \/ \E arrived \in SUBSET Subfeeds[f] : UpdateFeedRealtime(f, arrived)
       \/ AbandonUpdate
    /\ warmed' = warmed \cup {f}
    /\ UNCHANGED <<clock, polling, pollers>>

StartPollers ==
    /\ ~polling
    /\ warmed = Feeds
    /\ polling' = TRUE
    /\ lastSuccessfulFetch' = [f \in Feeds |-> clock]
    /\ nextPoll' = [f \in Feeds |-> clock + RefreshInterval[f]]
    /\ UNCHANGED <<clock, feedMaps, merged, warmed, consecutiveErrors, feedCleared>>

\* Time passes, but no fetch is delayed beyond its deadline: not the first
\* ones, made one after the other, and not those of the pollers.
Tick ==
    /\ clock < MaxTime
    /\ IF polling
       THEN \A f \in Feeds : clock < nextPoll[f] + FetchTimeout
       ELSE clock < (Cardinality(warmed) + 1) * FetchTimeout /\ warmed # Feeds
    /\ clock' = clock + 1
    /\ UNCHANGED <<feedMaps, merged, warmed, polling, pollers>>

Init ==
    /\ clock = 0
    /\ feedTrips = [f \in Feeds |-> {}]
    /\ feedUnattributedTrips = [f \in Feeds |-> {}]
    /\ feedVehicles = [f \in Feeds |-> NoVehicles]
    /\ feedVehicleLastSeen = [f \in Feeds |-> NoVehicles]
    /\ feedVehicleTimestamp = [f \in Feeds |-> 0]
    /\ feedAlerts = [f \in Feeds |-> {}]
    /\ feedLastUpdate = [f \in Feeds |-> NoTime]
    /\ lastVehicleMessage = [f \in Feeds |-> NoTime]
    /\ merged = Merge(feedTrips, feedVehicles, feedVehicleLastSeen, feedAlerts)
    /\ warmed = {}
    /\ polling = FALSE
    /\ consecutiveErrors = [f \in Feeds |-> 0]
    /\ lastSuccessfulFetch = [f \in Feeds |-> 0]
    /\ feedCleared = [f \in Feeds |-> FALSE]
    /\ nextPoll = [f \in Feeds |-> 0]

Next ==
    \/ \E f \in Feeds : Warm(f)
    \/ StartPollers
    \/ \E f \in Feeds : Poll(f)
    \/ Tick

Spec == Init /\ [][Next]_vars

-----------------------------------------------------------------------------
(* Correctness. *)

VehicleMap(vehicles) ==
    /\ DOMAIN vehicles \subseteq VehicleKeys
    /\ \A k \in DOMAIN vehicles : vehicles[k] \in Positions

LastSeenMap(lastSeen) ==
    /\ DOMAIN lastSeen \subseteq VehicleKeys
    /\ \A k \in DOMAIN lastSeen : lastSeen[k] \in 0..clock

VehicleMapsOK ==
    /\ DOMAIN feedVehicles = Feeds
    /\ \A f \in Feeds : VehicleMap(feedVehicles[f])
    /\ DOMAIN feedVehicleLastSeen = Feeds
    /\ \A f \in Feeds : LastSeenMap(feedVehicleLastSeen[f])
    /\ feedVehicleTimestamp \in [Feeds -> Headers]

FeedMapsOK ==
    /\ clock \in Nat
    /\ feedTrips \in [Feeds -> SUBSET TripIds]
    /\ feedUnattributedTrips \in [Feeds -> SUBSET TripIds]
    /\ VehicleMapsOK
    /\ feedAlerts \in [Feeds -> SUBSET Alerts]
    /\ feedLastUpdate \in [Feeds -> (0..clock) \cup {NoTime}]
    /\ lastVehicleMessage \in [Feeds -> (0..clock) \cup {NoTime}]

PollersOK ==
    /\ warmed \subseteq Feeds
    /\ polling \in BOOLEAN
    /\ consecutiveErrors \in [Feeds -> 0..MaxExponent]
    /\ lastSuccessfulFetch \in [Feeds -> 0..clock]
    /\ feedCleared \in [Feeds -> BOOLEAN]
    /\ nextPoll \in [Feeds -> Nat]

\* The values of the variables: every map covers all feeds and holds known
\* vehicles only, and no time recorded anywhere lies in the future.
TypeOK == FeedMapsOK /\ PollersOK

\* The retention clock and the vehicle list of a feed name the same vehicles:
\* a vehicle without a last-seen time would never expire, and a last-seen
\* time without a vehicle would never be used (feedVehicleLastSeen is updated
\* apart from feedVehicles in updateFeedRealtime and cleanupExpiredVehicles).
SeenVehiclesStored ==
    \A f \in Feeds : DOMAIN feedVehicleLastSeen[f] = DOMAIN feedVehicles[f]

SharedWithinOneMessage(vehicles, lastSeen) ==
    \A j, k \in DOMAIN vehicles :
        vehicles[j].trip = vehicles[k].trip /\ vehicles[j].trip # NoTrip
            => lastSeen[j] = lastSeen[k]

\* Two vehicles of a feed serve the same trip only if the last message that
\* named either of them named both: a vehicle that is merely retained never
\* competes with one reported later (releaseTakenTrip), however many
\* messages, expiries and stale positions lie in between.
TripSharedOnlyWithinOneMessage ==
    \A f \in Feeds : SharedWithinOneMessage(feedVehicles[f], feedVehicleLastSeen[f])

\* What readers load is the merge of the maps as they stand: every path that
\* changes a feed's maps publishes, the clearing of a feed included.
PublishedIsCurrent ==
    merged = Merge(feedTrips, feedVehicles, feedVehicleLastSeen, feedAlerts)

\* The feed is not passed over for an earlier one, and what is found in it
\* serves the trip and was reported no earlier than k.
FoundFor(found, f, k) ==
    /\ f <= found.feed
    /\ found.keys # {}
    /\ found.keys \subseteq DOMAIN feedVehicles[found.feed]
    /\ \A j \in found.keys :
           /\ feedVehicles[found.feed][j].trip = feedVehicles[f][k].trip
           /\ f = found.feed =>
                 feedVehicleLastSeen[f][k] <= feedVehicleLastSeen[f][j]

\* Whichever feed reports a vehicle on a trip, a reader that looks the trip
\* up in the published snapshot is given a vehicle: of the last feed that
\* serves the trip, on that trip, and reported no earlier than any other
\* vehicle of that feed on it. It is so too when this feed was cleared, lost
\* the vehicle to the retention window or gave the trip to another vehicle,
\* and an earlier feed still serves it; and no trip is found that none does.
TripLookupFindsLatestReport ==
    LET lookup == merged.vehicleLookupByTrip
    IN  /\ \A f \in Feeds : \A k \in DOMAIN feedVehicles[f] :
               feedVehicles[f][k].trip # NoTrip =>
                   /\ feedVehicles[f][k].trip \in DOMAIN lookup
                   /\ FoundFor(lookup[feedVehicles[f][k].trip], f, k)
        /\ \A t \in DOMAIN lookup : \E f \in Feeds : \E k \in DOMAIN feedVehicles[f] :
               feedVehicles[f][k].trip = t

\* Whenever a vehicle message was handled, applied or dropped, it left no
\* vehicle in the feed that had not been reported within the retention window:
\* neither a producer whose header timestamps stay behind one that lay in the
\* future, nor messages that name other vehicles, keep an old one alive.
RetentionWindowKept ==
    \A f \in Feeds : lastVehicleMessage[f] # NoTime =>
        \A k \in DOMAIN feedVehicles[f] :
            /\ k \in DOMAIN feedVehicleLastSeen[f]
            /\ lastVehicleMessage[f] - feedVehicleLastSeen[f][k] <= StaleVehicleTimeout

DataHeld(f) ==
    \/ feedTrips[f] # {}
    \/ feedUnattributedTrips[f] # {}
    \/ DOMAIN feedVehicles[f] # {}
    \/ feedAlerts[f] # {}

\* Once the breaker of pollFeed has tripped, nothing of the feed is left to
\* serve or to compare the next message with, until a fetch succeeds.
ClearedFeedIsEmpty ==
    \A f \in Feeds : feedCleared[f] =>
        /\ ~DataHeld(f)
        /\ DOMAIN feedVehicleLastSeen[f] = {}
        /\ feedVehicleTimestamp[f] = 0
        /\ feedLastUpdate[f] = NoTime

MaxDelay == MaxInterval + Jitter(MaxInterval)

\* The longest a poller may go without looking, measured from its last
\* success: it fails just before the threshold and then backs off.
OutageLimit(f) ==
    IF RefreshInterval[f] > StaleFeedThreshold + MaxDelay
    THEN RefreshInterval[f]
    ELSE StaleFeedThreshold + MaxDelay

\* No feed serves data longer than OutageLimit after its last success (plus
\* the fetch in progress), whichever polls fail and however the jitter
\* falls: the breaker is tested only when a poll fails, and every failure
\* pushes the next test further away.
OutageBounded ==
    polling => \A f \in Feeds :
        DataHeld(f) => clock - lastSuccessfulFetch[f] <= OutageLimit(f) + FetchTimeout

\* The position served for a vehicle never goes back in time, not even when
\* an older message arrives late or names the vehicle after an absence.
PositionsNeverGoBack ==
    [][\A f \in Feeds : \A k \in DOMAIN feedVehicles[f] \cap DOMAIN feedVehicles'[f] :
          ~IsVehicleStale(feedVehicles[f][k], feedVehicles'[f][k])]_vars

=============================================================================
