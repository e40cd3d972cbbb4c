------------------------------ MODULE AreaTrips -----------------------------
(***************************************************************************)
(* The trips in an area that are active now: those a vehicle reports from  *)
(* there, and those whose schedule puts them there                         *)
(* (trips_for_location_handler.go).                                        *)
(*                                                                         *)
(* An area is a stretch [from, to] of the line the stops lie on. A query   *)
(* is [area, schedule, status, trips]: the stretch and the parts of an     *)
(* answer that were asked for. Null is an error response.                  *)
(***************************************************************************)
EXTENDS RouteTrips

InArea(area, p) ==
    IF p = Null THEN FALSE
    ELSE AtMost(Fraction(area.from, 1), p) /\ AtMost(p, Fraction(area.to, 1))

\* serviceDateResolversByZone: one for every zone an agency keeps.
ResolverForZone(ctx, zone, now) ==
    LET day == FromInstant(Zones[zone], now)
    IN  NewServiceDateResolverFor(Zones[zone], day, now, ServiceIDsForDays(ctx, day))

-----------------------------------------------------------------------------
(* Trips with a vehicle. *)

TripIDsInArea(ctx, area) ==
    TripsAtStops(ctx.db, {s.id : s \in GetActiveStopsWithinBounds(ctx.db, area)})

\* getActiveTrips: the last vehicle of a trip, where it reports from.
ReportedFrom(ctx, trip) ==
    LET vehicles == ctx.rt.vehicles
        of == {i \in DOMAIN vehicles : vehicles[i].trip = trip}
    IN  IF of = {} THEN Null ELSE vehicles[Max(of)].at

Positioned(ctx, area) == {t \in TripIDsInArea(ctx, area) : ReportedFrom(ctx, t) # Null}

ReportedInArea(ctx, area) ==
    {t \in Positioned(ctx, area) : InRange(ReportedFrom(ctx, t), area.from, area.to)}

-----------------------------------------------------------------------------
(* Trips placed by their schedule. *)

\* tripSpansForBlocksServingStops, selectBlockAnchors: a trip of each block
\* that stops in the area and whose span the moment falls in.
BlockAnchors(ctx, stops, day) ==
    LET blocks == SortedBy(GetBlockIDsForStops(ctx.db, stops, day.services), TextBefore)
        anchor(b) == SelectAnchorInGroup(GetTripSpansForBlocks(ctx.db, {b}, day.services),
                                         day.since - RunningLate, day.since + RunningEarly)
        found(anchors) == Taken(anchors, {i \in DOMAIN anchors : anchors[i] # Null})
    IN  found([i \in DOMAIN blocks |-> anchor(blocks[i])])

\* The trip the anchor's shift is running, and where.
PlacedByBlock(ctx, anchor, zone, now, d) ==
    LET place(snapshot) ==
          IF snapshot = Null THEN Null
          ELSE IF ~snapshot.inRange \/ snapshot.active = Null THEN Null
          ELSE [trip |-> snapshot.active, at |-> PositionAtDistance(snapshot.shape, snapshot.along)]
    IN  place(ComputeScheduledBlockSnapshot(ctx, anchor, zone, now, d))

\* Where the blocks put trips, by the query day and then the one before.
PlacedInBlocks(ctx, zone, stops, days, now) ==
    LET placed(anchors, d) == [k \in DOMAIN anchors |-> PlacedByBlock(ctx, anchors[k], zone, now, d)]
        found(all) == Taken(all, {i \in DOMAIN all : all[i] # Null})
    IN  found(FlattenSeq([i \in 1..2 |-> placed(BlockAnchors(ctx, stops, days[i]), days[i].date)]))

\* Fault: the vehicle of one trip answers for its whole block.
BlockedInAreaUnreported(ctx, zone, area, stops, resolver, positioned, now) ==
    {p.trip : p \in {q \in Range(PlacedInBlocks(ctx, zone, stops, ServiceDaysOf(resolver), now)) :
                        /\ InArea(area, q.at)
                        /\ GetTrip(ctx.db, q.trip).block
                              \notin {t.block : t \in GetTripsByIDs(ctx.db, positioned)}}}

\* blockedScheduledTripIDsInBounds: a trip found on both days counts where
\* the first one puts it.
BlockedInArea(ctx, zone, area, stops, resolver, positioned, now) ==
    LET first(all, i) == \A j \in 1..i - 1 : all[j].trip # all[i].trip
        in(all) == {i \in DOMAIN all : first(all, i) /\ InArea(area, all[i].at)}
        trips(all) == {all[i].trip : i \in in(all)}
    IN  trips(PlacedInBlocks(ctx, zone, stops, ServiceDaysOf(resolver), now)) \ positioned

\* inServiceTripIDs, without those that a vehicle places.
InServiceTripIDs(ctx, stops, days, positioned) ==
    (UNION {GetInServiceTripIDsForStops(ctx.db, stops, day.services,
                day.since - RunningLate, day.since + RunningEarly) : day \in Range(days)}) \ positioned

\* blocklessScheduledTripIDsInBounds: each by its own schedule and shape.
BlocklessInArea(ctx, zone, area, stops, resolver, positioned, now) ==
    LET at(t) == ScheduledPositionAtTime(GetStopTimesForTrip(ctx.db, t),
                     ShapePoints(ctx, "GetShapePointsByIDs", t), ctx.db.stops,
                     zone, now, Resolve(resolver, GetTrip(ctx.db, t)))
    IN  {t \in InServiceTripIDs(ctx, stops, ServiceDaysOf(resolver), positioned) : InArea(area, at(t))}

ScheduledInArea(ctx, zone, area, now) ==
    LET stops == {s.id : s \in GetActiveStopsWithinBounds(ctx.db, area)}
        resolver == ResolverForZone(ctx, zone, now)
        positioned == Positioned(ctx, area)
    IN  IF stops = {} THEN {}
        ELSE BlockedInArea(ctx, Zones[zone], area, stops, resolver, positioned, now)
             \cup BlocklessInArea(ctx, Zones[zone], area, stops, resolver, positioned, now)

\* The queries a zone needs that fail the request when they fail.
DayQueries(ctx, stops, day) ==
    IF day.services = {} THEN {}
    ELSE {"GetBlockIDsForStops", "GetInServiceTripIDsForStops"}
         \cup (IF GetBlockIDsForStops(ctx.db, stops, day.services) = {} THEN {}
               ELSE {"GetTripSpansForBlocks"})

ZoneQueries(ctx, stops, days, positioned) ==
    (UNION {DayQueries(ctx, stops, day) : day \in Range(days)})
    \cup (IF InServiceTripIDs(ctx, stops, days, positioned) = {} THEN {}
          ELSE {"GetTripsByIDs", "GetStopTimesForTripIDs", "GetShapePointsByIDs", "GetStopsByIDs"})

SelectionQueries(ctx, area, now) ==
    LET stops == {s.id : s \in GetActiveStopsWithinBounds(ctx.db, area)}
        of(zone) == ZoneQueries(ctx, stops, ServiceDaysOf(ResolverForZone(ctx, zone, now)),
                                Positioned(ctx, area))
    IN  {"GetAgencies", "GetActiveStopsWithinBounds", "GetActiveServiceIDsForDate"}
        \cup (IF stops = {} THEN {}
              ELSE {"GetTripIDsForStops"} \cup UNION {of(a.zone) : a \in ctx.db.agencies})

\* The trips of an area; a zone that cannot be loaded fails the request too.
SelectTripsInArea(ctx, area, now) ==
    LET zones == {a.zone : a \in ctx.db.agencies}
        known(found) == IF found # {} /\ ctx.fails \cap {"GetTripsByIDs", "GetRoutesByIDs"} # {}
                        THEN Null ELSE found
    IN  IF ~(zones \subseteq DOMAIN Zones) THEN Null
        ELSE IF ctx.fails # {} /\ ctx.fails \cap SelectionQueries(ctx, area, now) # {} THEN Null
        ELSE known(ReportedInArea(ctx, area) \cup UNION {ScheduledInArea(ctx, z, area, now) : z \in zones})

-----------------------------------------------------------------------------
(* The entries. *)

\* calculateNextPrevFromMemory: the neighbours of its agency and service,
\* among the trips of the query day only.
NextPrevFromMemory(ctx, agency, row, services) ==
    LET trips == GetTripsByBlockIDs(ctx.db, {row.block}, services)
        inBlock == Taken(trips, {i \in DOMAIN trips : /\ trips[i].service = row.service
                                                      /\ RouteAgency(ctx, trips[i].route) = agency})
        i == OneRow({j \in DOMAIN inBlock : inBlock[j].id = row.id})
        at(j) == IF j \in DOMAIN inBlock THEN CombinedID(agency, inBlock[j].id) ELSE Null
    IN  IF i = Null \/ Fails(ctx, "GetTripsByBlockIDs") THEN [next |-> Null, prev |-> Null]
        ELSE [next |-> at(i + 1), prev |-> at(i - 1)]

\* buildScheduleFromMemory
ScheduleFromMemory(ctx, agency, row, services, frequency) ==
    LET around == NextPrevFromMemory(ctx, agency, row, services)
        times == GetStopTimesForTrip(ctx.db, row.id)
    IN  [next |-> around.next, prev |-> around.prev,
         stops |-> [i \in DOMAIN times |-> CombinedID(agency, times[i].stop)],
         frequency |-> frequency]

\* A status that cannot be built is left out of its entry.
AreaEntryOn(ctx, query, known, row, agency, zone, services, date, now) ==
    LET frequency == FrequencyForEntry(ctx, Zones[zone], row.id, date, now)
    IN  [trip |-> CombinedID(agency, row.id), date |-> date, zone |-> zone, block |-> row.block,
         active |-> row.id, frequency |-> frequency,
         schedule |-> IF query.schedule
                      THEN ScheduleFromMemory(ctx, agency, row, services, frequency) ELSE Null,
         status |-> IF query.status
                    THEN StatusForEntry(ctx, known, agency, row.id,
                             GetVehicleForTrip(ctx, row.id), Zones[zone], date, now)
                    ELSE Null,
         situations |-> SituationRefs(ctx, row.id, row.route, agency)]

AreaEntry(ctx, query, known, trip, now) ==
    LET row == GetTrip(ctx.db, trip)
        agency == RouteAgency(ctx, row.route)
        zone == ZoneOf(ctx, agency)
        resolver == ResolverForZone(ctx, zone, now)
    IN  AreaEntryOn(ctx, query, known, row, agency, zone, resolver.query,
                    Resolve(resolver, row), now)

\* buildTripsForLocationEntries
AreaEntries(ctx, query, trips, now) ==
    IF trips = Null THEN Null
    ELSE IF /\ trips # {}
            /\ \/ ctx.fails \cap {"GetActiveServiceIDsForDate", "GetFrequenciesForTrips"} # {}
               \/ query.schedule /\ Fails(ctx, "GetStopTimesForTripIDs")
    THEN Null
    ELSE {AreaEntry(ctx, query, trips, t, now) : t \in trips}

\* BuildReference: the trips only when asked for. Null is an error response.
BuildReference(ctx, query, entries) ==
    LET built(refs) ==
          IF refs.routes # {} /\ Fails(ctx, "GetAgenciesByIDs") THEN Null
          ELSE [refs EXCEPT !.trips = IF query.trips THEN @ ELSE {}]
    IN  IF entries # {} /\ Fails(ctx, "GetRoutesByIDs") THEN Null
        ELSE built(BuildTripReferences(ctx, entries, {}))

=============================================================================
