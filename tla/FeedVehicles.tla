---------------------------- MODULE FeedVehicles ----------------------------
(***************************************************************************)
(* The vehicles of one GTFS-RT feed: what a vehicle-positions message does *)
(* to the vehicles already held, and how long a vehicle that stopped being *)
(* reported is kept (internal/gtfs/realtime.go).                           *)
(*                                                                         *)
(* A map of the code is a function whose DOMAIN holds the map's keys. A    *)
(* message is a map too: one entity per vehicle descriptor, NoKey being    *)
(* the key of an entity that carries no descriptor at all.                 *)
(***************************************************************************)
EXTENDS Integers, FiniteSets

CONSTANTS VehicleKeys,         \* the vehicleKey values a feed may use
          TripIds,             \* trip IDs a vehicle may serve
          NoKey,               \* an entity without a vehicle descriptor
          NoTrip,              \* a vehicle without a trip, or with an empty trip ID
          NoTime,              \* an absent timestamp
          StaleVehicleTimeout  \* how long an unreported vehicle is retained

ASSUME VehicleAssumption ==
    /\ NoKey \notin VehicleKeys
    /\ NoTrip \notin TripIds
    /\ NoTime \notin Int
    /\ StaleVehicleTimeout \in Nat

\* What the merge reads of one vehicle: the trip it serves and the time of
\* its position.
Positions == [trip : TripIds \cup {NoTrip}, time : Nat \cup {NoTime}]

\* A position older than the one held. Without both times there is nothing
\* to compare.
IsVehicleStale(existing, incoming) ==
    /\ existing.time # NoTime
    /\ incoming.time # NoTime
    /\ incoming.time < existing.time

\* Fault: the entities without a descriptor are kept.
ReportedAnonymousToo(held, report) ==
    [k \in DOMAIN report |->
        IF k \in DOMAIN held /\ IsVehicleStale(held[k], report[k])
        THEN held[k]
        ELSE report[k]]

\* Fault: the message always wins.
ReportedLastArrival(held, report) ==
    [k \in DOMAIN report \ {NoKey} |-> report[k]]

\* The vehicles a message reports, each at the newer of its two positions.
\* An entity without a descriptor is dropped.
Reported(held, report) ==
    [k \in DOMAIN report \ {NoKey} |->
        IF k \in DOMAIN held /\ IsVehicleStale(held[k], report[k])
        THEN held[k]
        ELSE report[k]]

TripIDsServedBy(vehicles) ==
    {vehicles[k].trip : k \in DOMAIN vehicles} \ {NoTrip}

\* Fault: a retained vehicle keeps its trip.
ReleaseNoTrip(position, liveTripIDs) == position

\* A retained vehicle gives up a trip that a reported vehicle now serves.
ReleaseTakenTrip(position, liveTripIDs) ==
    IF position.trip \in liveTripIDs
    THEN [position EXCEPT !.trip = NoTrip]
    ELSE position

\* Vehicles last reported longer ago than the retention window.
Expired(lastSeen, now) ==
    {k \in DOMAIN lastSeen : now - lastSeen[k] > StaleVehicleTimeout}

\* Vehicles missing from the message that are kept all the same.
RetainedKeys(held, lastSeen, live, now) ==
    (DOMAIN held \cap DOMAIN lastSeen) \ (DOMAIN live \cup Expired(lastSeen, now))

\* The feed's vehicles once a message reporting live is applied.
VehiclesAfter(held, lastSeen, live, now) ==
    [k \in DOMAIN live \cup RetainedKeys(held, lastSeen, live, now) |->
        IF k \in DOMAIN live
        THEN live[k]
        ELSE ReleaseTakenTrip(held[k], TripIDsServedBy(live))]

\* Fault: last-seen times are never deleted.
LastSeenNeverForgotten(lastSeen, live, now) ==
    [k \in DOMAIN live \cup DOMAIN lastSeen |->
        IF k \in DOMAIN live THEN now ELSE lastSeen[k]]

\* The last-seen times once a message reporting live is applied.
LastSeenAfter(lastSeen, live, now) ==
    [k \in DOMAIN live \cup (DOMAIN lastSeen \ Expired(lastSeen, now)) |->
        IF k \in DOMAIN live THEN now ELSE lastSeen[k]]

\* cleanupExpiredVehicles: what a message too old to apply still does. The
\* code returns early for a feed without last-seen times; such a feed holds
\* no vehicles either, so the early return is the case of an empty map.
LastSeenKept(lastSeen, now) ==
    [k \in DOMAIN lastSeen \ Expired(lastSeen, now) |-> lastSeen[k]]

VehiclesKept(held, lastSeen, now) ==
    [k \in DOMAIN held \cap DOMAIN LastSeenKept(lastSeen, now) |-> held[k]]

\* The empty map.
NoVehicles == [k \in {} |-> NoTime]
=============================================================================
